# Verification of the USB to BLE HID bridge

These TLA+ modules model the firmware in `src/src`: a Raspberry Pi Pico W that is a USB
host to keyboards, mice and gamepads and a BLE HID peripheral to a PC or phone. TLC checks
the modules on small instances; TLAPS proves, for every value of the constants, that the
report path implements its abstract channel, that merging any number of report descriptors of
any length brings every report to where the BLE host expects it, and the safety properties of
the connection handling, the start-up and LED, the USB host's task, the transfers, the root
port and the frame of PIO USB, and that a packet of any payload carries the CRC of the USB
specification, fits its buffer encoded and is taken when it arrives as it was sent. `PROJECT.json` ties every definition to the lines it models and
every property to the hazards it is about.

Contents: [the system](#the-system), [modules](#modules-and-the-code),
[runs](#runs), [proofs](#proofs), [findings](#findings),
[known limits](#limits-the-models-found), [what is not modelled](#not-modelled),
[plan](#plan).

## The system

Two cores share the work. Core 0 runs `main`, TinyUSB's host stack and the PIO USB host
driver, whose frames are run by a timer interrupt on the same core. Core 1 runs the radio
driver and BTstack's run loop.

```
   USB device                                                   BLE host
       |  D+/D-                                                     |
  PIO programs (usb_tx.pio, usb_rx.pio)                        radio, BTstack
       |  packets, CRC                                              | HCI, SM, ATT events
  pio_usb_host_frame  <- 1 ms timer interrupt                       |
       |  endpoints, root port                                      |
  TinyUSB  -> callbacks ->  usb_hid_host.c  -- reports -->  ble_hid_periph.c
              core 0                                  report_queue     core 1
```

| component | state it keeps | operations | talks to |
| :-- | :-- | :-- | :-- |
| Boot, `main.c` | `bt_init_sem`, `pio_cfg`, the clock | `main`, `core1_entry` | both cores, the radio driver's claims |
| Status LED, `main.c` | `led_state`, `was_connected`, `led_timer` | `led_timer_handler` | `ble_hid_is_connected` |
| USB HID host, `usb_hid_host.c` | `mounted_itfs`, `bridge_state`, two mount times, `set_idle_busy`, `last_set_idle_ms` | mount, umount, report and SET_IDLE-complete callbacks, `usb_hid_host_task` | TinyUSB (callbacks, control transfers), `ble_hid_periph_start`, `ble_hid_periph_send_raw_report` |
| Descriptor merging, `usb_hid_host.c` and `ble_hid_periph.c` | `combined_desc`, `next_report_id`, ids of each interface, `ble_reports` | `start_combined_ble_bridge`, first half of `ble_hid_periph_start`, the lookups of a report | |
| GATT database, `ble_hid_periph.c` | BTstack's attribute table, `value_handle` of each report | `build_dynamic_gatt`, called by `ble_hid_periph_setup` on core 1 | BTstack's att_db_util, the BLE host that reads the table |
| BLE peripheral, `ble_hid_periph.c` | `con_handle`, `link_encrypted`, `report_queue`, `send_request_pending`, `current_peer_addr` | start and send on core 0; setup, send request, HCI, SM and ATT handlers on core 1 | BTstack run loop callbacks across the cores |
| PIO USB root port and pool, `pio_usb_host.c` | `root_port_t`, `pio_usb_ep_pool` | the frame; reset, open, close, close device, transfer, abort | interrupt against main loop |
| PIO USB frame, `pio_usb_host.c`, `pio_usb.c` | `pio_port_t` and the PIO registers all ports share, `interval_counter` | SOF, transactions of every endpoint, PRE packets, connection checks | full-speed and low-speed devices, hubs |
| PIO USB transfers, `pio_usb_host.c`, `pio_usb.c` | toggles, lengths and retries of an `endpoint_t` | start, continue, complete; IN, OUT and SETUP transactions | devices on a lossy bus |
| PIO USB packets, `pio_usb.c`, `usb_crc.c`, `usb_rx.pio` | encoded buffers | encode, CRC, decode, receive, handshake | the wire |

What is hard in it:

* *Concurrency.* The two cores share five variables and one linked-list node, without
  a lock around any two of them. The frame interrupts the main loop between any two
  instructions. Flash writes on core 1 pause core 0.
* *Ordering.* BTstack may emit CAN_SEND_NOW inside the call that asks for it.
  `con_handle` becomes valid before `link_encrypted` is reset. Events of one frame are
  handed on in the order of two `if`s. All root ports share one transmitter, whose registers
  must fit the device of each packet.
* *Failure.* Packets and acknowledgements are lost; the controller's buffers fill up;
  connection attempts, encryption and pairing fail; devices and hosts go away at any time.
* *Timeouts and retries.* Three attempts at a transaction, ten at a SET_IDLE, the
  aggregation window, a millisecond clock that wraps.
* *Limits.* Polling intervals counted in a byte, a queue of 64 reports, a descriptor buffer of 2048 bytes, report ids of eight bits,
  encoded packets in buffers sized by a formula.

What makes each component correct is said by its properties, listed with the [runs](#runs).
The hazards, each at its line, are in `PROJECT.json`.

## Modules and the code

Every definition keeps the name of the function it models where there is one; the rest is
in `PROJECT.json` under `map`. Operators marked *Fault* in a comment are the plausible bugs
the properties are tested against; no specification uses them.

**`BleHidPeriph`** models `ble_hid_periph.c` from the first report to the last event. Each
access to a shared variable is a step of its own: `pc0` says where core 0 is inside
`ble_hid_periph_send_raw_report` (check handle, check encryption, add, evict, add again,
exchange the flag, register the callback), `pc1` where core 1 is inside a handler.
`typing_can_send_now` is `Peek`, `Notify`, `Remove`; the disconnection handler is
`Disconnection`, `DiscEncrypted`, `DiscFlush`, `Advertise`; a completed connection is
`ConnectionComplete`, `ConnFlush`, `ConnHandle`, `ConnEncrypted`. Assignments to variables
only core 1 reads are folded into the next step. BTstack is external: its run loop takes
one callback or event at a time, a registered node must not be registered again, one
CAN_SEND_NOW is owed for each request, and it may be emitted inside the request call
(`EmitDuringRequest`) or later. `queue_t` is the SDK's: each call is atomic.

**`ReportChannel`** is what that component promises: reports delivered at most once and in
order, given up only without a connection, in an overflow, or for want of a characteristic.
`BleHidPeriph!ImplementsChannel` is the refinement, with the waiting reports and those in
the hands of the two cores as the channel's content.

**`ReportDescriptor`** holds descriptors as operators: a descriptor is the sequence of its
items, and `MergeNext` folds one interface into the combined descriptor just as the loop of
`start_combined_ble_bridge` does, with bytes that wrap at `IdMod` and items skipped one by
one when the buffer is full. `ParseNext` is an iteration of the parsing loop of
`ble_hid_periph_start`, `EntryFor` the lookup of `typing_can_send_now`. What a descriptor
declares, against which the properties compare, is defined apart from the code's way of
finding it (`CurrentId`, `Declared`). **`UsbHidHost`** uses the same operators for what it
forwards.

**`GattDatabase`** is `build_dynamic_gatt`: the calls of att_db_util, external, append
attributes to a table whose places are the handles; whether BTstack adds client
configurations by itself is left open (`auto_cccd`). The other side is external too: a host that
takes the descriptors behind a value up to the next declaration for those of that value.

**`DescriptorMerge`** runs the whole way: the loop over every choice of interfaces, the
parsing on core 0, the attributes on core 1.

**`UsbHidHost`** has one action for each TinyUSB callback and one for `usb_hid_host_task`:
they run to completion on core 0, so the interleaving is at the level of callbacks. Time is a
counter modulo `ClockMod` that may pass between any two, up to `MaxStall` between two runs of
the task. `control` is TinyUSB's single control pipe, which its own enumeration uses too. A
removal takes the device's transfers with it, and with a SET_IDLE its completion.

**`PioUsbTransfer`** is one endpoint and the device at its other end. The host side has the
fields of `endpoint_t`; a transaction is one action whose outcomes are the losses a bus can
inflict. The device follows the data-toggle rules of USB and is external.

**`PioUsbRootPort`** is the other side of that driver: the frame as one atomic action, since it
is an interrupt, and the calls of the host stack cut into steps wherever they touch what the
frame reads. It leaves open how a transaction ends. `__pio_usb_host_irq_handler` is a weak
symbol; TinyUSB replaces it by a handler of the same shape that queues the events, and this
queue is what `events` models.

**`PioUsbFrame`** opens that atomic action: `pio_usb_host_frame` port by port, endpoint by
endpoint and packet by packet, for any number of root ports. `pp` is `pio_port_t` together with
the registers of its state machines: which TX program is loaded, its first instruction, which
ends a packet, pins and bit rates of transmitter and receiver. `configure_root_port`, `send_pre` and
`restore_fs_bus` are operators on that record, `wire` is the packet that has just gone out. The
main loop acts between two frames, devices come and go during them. A device that is exchanged is
away for at least a frame, as `PlugIn` asks; the host stack closes the endpoints of a device
before it resets the port and asks for PRE only behind a full-speed hub, as TinyUSB does.
`since`, the frames an endpoint has waited, is history.

**`UsbPacket`** computes packets bit by bit: CRC tables copied from `usb_crc.c`, bit stuffing
and NRZI of `pio_usb_ll_encode_tx_data`, the decoder of `usb_rx.pio`, the running comparison
of `pio_usb_bus_receive_packet_and_handshake`. Each of these loops is a recursive function from
the number of bits or bytes read to the state of the loop (`Encoding`, `Decoding`, `Updated`,
`Taking`), and the C operator `^` is the sum of its sixteen bits (`Xor`). The CRCs of the USB
specification, which the properties compare the tables with, go bit by bit (`Shifting`). Between encoding and
decoding the line may misread one bit time or break off.

**`Boot`** is `main` and `core1_entry` step by step, then the LED timer. What the radio
driver claims and disturbs is external and taken from the comments that justify the code.

The modules meet at three interfaces, each modelled on both sides: the report handed to
`ble_hid_periph_send_raw_report` (`Forward` in `UsbHidHost`, `SendCheckHandle` in
`BleHidPeriph`); the combined descriptor (`ReportDescriptor` in both `UsbHidHost` and
`DescriptorMerge`; `InputIds` in `BleHidPeriph`); `has_transfer` and its end
(`PioUsbTransfer` inside a transfer, `PioUsbRootPort` around it, `PioUsbFrame` between
endpoints).

## Runs

| run | question | properties |
| :-- | :-- | :-- |
| `delivery` | does any interleaving of the two cores lose, repeat or reorder a report beyond what the channel allows? | `TypeOK`, `InOrder`, `RoomAfterEvict`, `OneRegistration`, `AtMostOneStale`, `ImplementsChannel` |
| `link` | two hosts come, pair, fail and go: do the flags, advertising and bonds follow, is every report woken up, does the queue drain? | `NoStrandedReport`, `EncryptedIsCurrent`, `Discoverable`, `BondsOfOthersKept`, `QueueDrains` |
| `merge` | from every choice of interfaces to the host's attributes: are reports notified where and under which id the host expects them? | `TypeOK`, `RoutedHome`, `HostAgrees` |
| `host` | aggregation window and start, SET_IDLE, forwarding, while devices come and go and the clock wraps: what may not happen and what must | `ForwardedHome`, `StartsAfterWindow`, `IdleSequential`, `BridgeStarts`, `IdleServed`, `EveryDeviceHeard` |
| `transfer` | whatever the bus loses, do host and device agree on what was transferred? | `NoPacketLostOrRepeated`, `RequestAgreed`, `SilenceNoticed` |
| `port` | frame against main loop: resets, aborts, exchanged devices | `TypeOK`, `OwnTransfer`, `EndsOnce`, `NoFalseDisconnect`, `UnplugRetires`, `DeviceNoticed` |
| `frame` | do ports of any speed and pinout share the bus without disturbing each other, and is every endpoint polled at its interval? | `SpokenTo`, `PolledOnTime` |
| `boot` | start-up of both cores, flash writes, claims, LED | `ClockExact`, `NoPanic`, `BondsWritable`, `LedShowsLink`, `LoopEntered` |
| `packet` | are sending and receiving each other's inverse, and what passes of a spoilt packet? | `ChecksAgree`, `EncodingFits`, `NotFooled`, `SoundIsTaken` |
| `newest_kept`, `lost_wakeup`, `collision` | see [findings](#findings) | `NewestReportKept`, `QueueDrains`, `OffsetsPreventCollisions` |

Bounds, and why they are enough:

* `delivery`: a queue of two instead of 64, four reports, two connections. An eviction needs
  a full queue; with two places the evicted report and the newest are different ones, the
  queue can be drained, refilled and overflow again under a held peek, and a report can
  outlive a reconnection. One controller buffer makes every second notification meet full
  buffers. The invariants and the refinement are proved for all sizes.
* `link`: three reports and two hosts, so that one host's failure can touch the other's bond.
* `merge`: three interfaces out of nine sorts of descriptors, one of them with a report in front of
  its Collection, and a 32-byte buffer that some choices overflow, a report table of five that
  others do; ids are eight bits wide as in the code. The theorems cover every number of
  interfaces and every descriptor.
* `host`: two slots and two interfaces; one slot (`Removable`) whose device may be taken out any number
  of times, where a keyboard and a device with a Report ID take each other's place (`Devices`), the
  other for a device with a Report ID or one without a descriptor; a clock of three ticks that
  wraps many times. The differences of `uint32_t` times only matter relative to the waits, which are
  one tick, and `MaxStall` keeps the loop from missing a whole turn of the clock (49 days in the
  code). Two attempts at SET_IDLE instead of ten: one that is repeated and one that gives up.
* `transfer`: packets of two bytes and transfers of up to five, so that a transfer is
  empty, short, exactly full, or three packets long; three retries as in the code.
* `port`: two slots, two endpoints, two waiting events, enough for a slot to change hands
  while its last transfer is being aborted.
* `frame`: two ports of opposite pinout, the most that can disagree about a register; two
  slots, so that two endpoints of one port or of both follow each other; a control endpoint, a
  low-speed interrupt endpoint behind a hub polled every second frame, and one whose interval of
  0 wraps, at 3 instead of 256. The theorems cover all other numbers.
* `boot`: three DMA channels, an LED interval of three ticks against a check of one; five to
  one in the code.
* `packet`: all 2048 tokens; every byte alone; all pairs of bytes that begin or end in runs
  of ones; full packets of 7 bytes instead of 64 (the length mod 3, on which the rounding
  of the buffer formula depends, is the same; a level of TLC's stack goes to every bit, and the
  theorems cover 64 and every other size). Line errors are applied to the pairs, the
  single bytes among them and the handshakes.

Fairness, and what justifies it:

* `BleHidPeriph`: core 0 finishes a call it has begun and core 1 a handler it has begun (weak);
  the run loop gets round to a registered callback and BTstack to an event it owes, though
  other events may come first (strong). Reports, connections, encryption and pairing are
  never promised.
* `UsbHidHost`: the `while (1)` of `main` calls the task, time passes, and TinyUSB completes
  a transfer it accepted (weak).
* `UsbHidHost!EveryDeviceHeard` has its fairness in the property: it is about a device that
  keeps sending what it is asked for.
* `PioUsbTransfer`, `PioUsbRootPort`: the timer fires every millisecond (weak). The host stack
  acts on the events it is told of; closing a device competes with other calls (strong).
* `Boot`: each core runs on (weak for core 1); core 0, the LED timer and time may be held
  up by a flash write again and again (strong). A radio that starts is not promised.

Deadlock is checked in every run but those whose behaviours end: the bounded runs of
`BleHidPeriph` (all reports sent), `merge` and `collision` (everything merged), and `boot` (a failing radio stops both cores,
`main.c:191` and `:114`).

## Proofs

Eight modules hold the proofs, each of them checked to the last leaf. The theorems are about
every instance that satisfies the assumptions on the constants, which TLC evaluates in the runs:

| about | modules | for every | assuming |
| :-- | :-- | :-- | :-- |
| `BleHidPeriph` | `BleHidPeriphProofs` | queue size, number of buffers, hosts, handles, reports, connections | `QueueAssumption`, `NameAssumption`, `MappingAssumption`: sizes are numbers, the invalid handle is none |
| `Boot` | `BootProofs` | set of DMA channels, pair of LED intervals | `BootAssumption`: the check of the link is not the longer interval (`main.c` has 100 and 500 ms) |
| `ReportDescriptor`, `DescriptorMerge`, `GattDatabase` | `ReportDescriptorProofs` (lemmas), `DescriptorMergeProofs` | number of interfaces, descriptors, buffer and table size, width of an id | `DescriptorAssumption`: sizes are numbers, there are at least two ids; `InterfacesAssumption`: a descriptor is a sequence of items |
| `UsbHidHost` | `UsbHidHostProofs` | wait, clock width, number of interfaces, retries, descriptors | `SlotAssumption`, `DescriptorAssumption`; `TimeAssumption`: one turn of the clock is longer than the two waits of the window together, and than the spacing with a stall of the loop (49 days against seconds) |
| `PioUsbTransfer` | `PioUsbTransferProofs` | packet size, transfer length, number of retries | `SizeAssumption`: positions in the stream are told apart over more than one transfer |
| `UsbPacket` | `PioUsbTransferProofs` (the second half) | payloads and their largest size, tokens | `PacketAssumption`: a payload is a sequence of bytes, at most `PIO_USB_EP_SIZE`, and a token has 11 bits |
| `PioUsbRootPort` | `PioUsbRootPortProofs` | pool, set of endpoints, number of waiting events | `PoolAssumption`: no endpoint is the free slot's mark |
| `PioUsbFrame` | `PioUsbFrameProofs` | number of ports and slots, pinout, endpoint kinds, counter width | `FrameAssumption` |

| theorem | says | module |
| :-- | :-- | :-- |
| `TypeCorrect` | `Spec => []TypeOK` | `BleHidPeriphProofs` |
| `ReportsInOrder` | `Spec => []InOrder` | `BleHidPeriphProofs` |
| `RoomForTheNewest` | `Spec => []RoomAfterEvict` | `BleHidPeriphProofs` |
| `RegisteredOnce` | `Spec => []OneRegistration` | `BleHidPeriphProofs` |
| `NothingStranded` | with `EmitDuringRequest = FALSE`, `Spec => []NoStrandedReport` | `BleHidPeriphProofs` |
| `OneStaleAtMost` | `Spec => []AtMostOneStale` | `BleHidPeriphProofs` |
| `CoresImplementChannel` | `Spec => ImplementsChannel`, that is, the specification of `ReportChannel` under the refinement mapping | `BleHidPeriphProofs` |
| `EncryptionCurrent` | `Spec => []EncryptedIsCurrent` | `BleHidPeriphProofs` |
| `AlwaysDiscoverable` | `Spec => []Discoverable` | `BleHidPeriphProofs` |
| `OthersStayBonded` | `Spec => BondsOfOthersKept` | `BleHidPeriphProofs` |
| `ClockStaysExact` | `Spec => []ClockExact` | `BootProofs` |
| `FlashNeverRefused` | `Spec => []BondsWritable` | `BootProofs` |
| `ClaimsSucceed` | with `RadioPio = 0` and more than two channels, `Spec => []NoPanic` | `BootProofs` |
| `BootTypeCorrect` | `Spec => []TypeOK` | `BootProofs` |
| `LedTellsLink` | `Spec => []LedShowsLink` | `BootProofs` |
| `HostTypeCorrect` | `Spec => []TypeOK` | `UsbHidHostProofs` |
| `BridgeWaits` | `Spec => StartsAfterWindow` | `UsbHidHostProofs` |
| `IdleOneAtATime` | `Spec => IdleSequential` | `UsbHidHostProofs` |
| `ReportsKeepTheirInterface` | `Spec => []ForwardedHome` | `UsbHidHostProofs` |
| `MergeTypeCorrect` | `Spec => []TypeOK`, which has the bounds of the buffer and of the table | `DescriptorMergeProofs` |
| `HostFindsReports` | `Spec => []HostAgrees` | `DescriptorMergeProofs` |
| `ReportsReachHome` | `Spec => []RoutedHome` | `DescriptorMergeProofs` |
| `TransferTypeCorrect` | `Spec => []TypeOK` | `PioUsbTransferProofs` |
| `PacketsInTurn` | `Spec => []NoPacketLostOrRepeated` | `PioUsbTransferProofs` |
| `RequestsAgreed` | `Spec => []RequestAgreed` | `PioUsbTransferProofs` |
| `PacketsFit` | `PacketSpec => []EncodingFits` | `PioUsbTransferProofs` |
| `PacketsChecked` | `PacketSpec => []ChecksAgree` | `PioUsbTransferProofs` |
| `SoundPacketsTaken` | `PacketSpec => SoundIsTaken` | `PioUsbTransferProofs` |
| `PortTypeCorrect` | `Spec => []TypeOK` | `PioUsbRootPortProofs` |
| `TransfersOwned` | `Spec => []OwnTransfer` | `PioUsbRootPortProofs` |
| `EndReportedOnce` | `Spec => EndsOnce` | `PioUsbRootPortProofs` |
| `ResetIsNoDisconnect` | `Spec => NoFalseDisconnect` | `PioUsbRootPortProofs` |
| `FrameTypeCorrect` | `Spec => []TypeOK` | `PioUsbFrameProofs` |
| `AlwaysSpokenTo` | `Spec => []SpokenTo` | `PioUsbFrameProofs` |
| `AlwaysPolledOnTime` | `Spec => []PolledOnTime` | `PioUsbFrameProofs` |

The argument, layer by layer:

* `TypeInv` adds to the types what the control points mean: a core that is going to use a
  report holds one (`HandOK`), a connection being set up has a host and has not been counted
  yet, and a pairing is one with a host (`PeerOK`). Without `HandOK` adding `item0` could not be shown to keep the queue typed.
* `OrderInv` says the queue is strictly increasing and lies between the last report
  notified and the one core 0 holds (`QueueOrder`, `HandOrder`). `InOrder` alone is not
  inductive: it says nothing of what is still to be sent. With an eviction under a peek the
  peeked report may be older than the head, but never newer, and that is what makes the
  removal of a *different* report harmless to the order.
* `RoomAfterEvict` follows from the queue's bound: only core 0 adds.
* `RegistrationInv` ties the callback list to `send_request_pending`: the node is in the
  list, being called, or about to be registered by the core that has set the flag, and never
  two of these.
* `WakeInv` strengthens `NoStrandedReport` to the middle of handlers: a waiting report has an
  event owed, a request on its way, a core 0 about to ask, or a handler that will still
  look at the queue. It needs `EmitDuringRequest = FALSE`; with TRUE the `lost_wakeup` run
  shows the property false.
* `SetupInv` and `ConnInv` relate the handle, the flags, advertising and `current_peer_addr`
  to the link at every step of the handlers that change them.
* `StaleInv` is `AtMostOneStale` at the points where it does not speak: after the flush of a new
  connection the queue holds at most one older report, and if core 0 holds one that is older, none.
  The report core 0 was about to add when the link went is what may survive, once.
* `CoresImplementChannel` maps the waiting reports, core 1's peeked one and core 0's own to the
  channel's content (`Held`, `Wait`, `Waiting`). A `Step` lemma for an abstract action says what a
  step of the cores has to do to stand for it, a `Refine` lemma for each step of the cores which it is, and `RefInv` is what they need: `ChannelInv` says that
  core 1 sends only over a connection, that the peeked report is the head of the queue or has been
  evicted, and that by the removal it is settled whether it was notified or skipped. Two steps are
  the hard ones. A removal that follows an eviction takes another report than the one notified:
  the abstract step is the removed report's loss, allowed because an overflow has begun. And a
  channel in overflow must hold at least `QueueSize` reports, which `FullChannel` gets by an injection
  of the queue's places into the content, the order making the reports distinct.
* In `BootProofs`, `OrderInv` says how far one core can be while the other is where it is:
  core 1 starts after core 0 has made itself pausable, and core 0 passes the semaphore only
  when core 1 is in its run loop. Neither `ClockExact` nor `BondsWritable` is inductive without
  it: the radio driver could disturb the clock, or core 1 write flash, at any time.
* `ClaimInv` says that the driver holds state machines of PIO0 only and leaves a channel
  free, and that main's choice, once made, is apart from both. It needs `OrderInv` too: a
  driver starting after the choice could take what was chosen.
* `LampInv` says what the LED timer leaves behind: `was_connected` tells which branch of the handler
  ran last, so what the LED shows (`ShownInv`) and how far away the next run is (`DueInv`). The time
  the LED has been wrong and the time until the handler runs add up to at most one interval.
* In `UsbHidHostProofs`, the code knows a time only as a difference on a clock that wraps. `WaitInv`
  says that this difference is the true age as long as the wait is not over. Afterwards the clock may
  have turned and the wait look unfinished again, which delays the code but never lets it run early.
  `BusyInv` ties TinyUSB's control pipe to `set_idle_busy`: a removal may clear the pipe under the flag,
  never the flag under the pipe.
* `ReportDescriptorProofs` is about loops over data. A loop is a fold, and `FoldExists` and `RunOfFold`
  give a fold's *run*: the function from the number of elements read to the value so far, which obeys the
  loop's step. What holds along a run is proved from the first number of elements for which it would
  fail (`LeastNumber`, `UpTo`), so an induction over data needs no operator as a parameter. There is
  such a run for each loop of the code (`ParseRun`, `ShiftRun`, `CopyRun`, `MergeRun`), and with it
  follow, one after the other: the parser knows at every item the Report ID a reader of the descriptor
  would know (`CurrentIdIs`), so that its table is what the descriptor declares (`ParsedTable`, `TableComplete`);
  within the limits merging only appends (`Grown`), the interface's items with its ids shifted,
  or with one id in front of every report (`SegmentWithIdsOk`, `SegmentWithoutIdsOk`); the
  ids of the interfaces lie in ranges that follow each other (`MergedServed`); therefore a forwarded id is
  in the table and declared by this interface alone (`ReportHome`). Both `DescriptorMerge` and
  `UsbHidHost` rest on this last lemma.
* In `DescriptorMergeProofs`, the invariant (`MergedSoFar`, `BuiltFromAll`) says that the state is that of the folds
  over the interfaces done. `GattRun` and `GattLayout` show where `build_dynamic_gatt` puts the characteristic of the
  n-th report, with or without BTstack's own client configurations, and that the descriptors the
  host takes for those of a value are those the code added for it.
* In `UsbHidHostProofs`, `HomeInv` ties what is forwarded to the merge: the interfaces that take part
  are those the bridge was started with, each under the number it had then. Its part `SlotsKept` ties the
  interfaces to the devices: in a slot that was never emptied the stored descriptor is that of the
  device plugged in, and without a device nothing is stored.
* In `PioUsbTransferProofs`, the invariant names the only ways host and device can disagree. On an
  endpoint that receives they are level or the host is one packet ahead, its acknowledgement lost
  (`ReceiveInv`); on one that sends they are level or the device is ahead (`SendInv`), on an OUT
  endpoint until a transfer of it fails. One packet is all
  that can be lost in either case because the toggle has two values and neither side moves twice.
  `ControlInv` says what each stage of a control request leaves to the next, `BufferInv` that the
  packet already encoded is the one the toggle and the position name.
* The packets of `UsbPacket`, in the same module: the loops get their runs as above (`RunExists`). Along
  the run of the encoder, `Undone` says that decoding the codes so far gives back the bits so far and
  leaves the decoder with the encoder's level and count of ones; that is the invariant which makes
  stuffing harmless. `Stuffed` counts the stuffed bits, at most one in six after the seven zeros of SYNC,
  without which a handshake could take a byte more than its five; `Changing` says how
  long ago the level changed. `Sizes` is the arithmetic by which the `7/6` of `endpoint_t.buffer` is
  enough. `SumMatches` follows the receiver's CRC, which runs two bytes behind,
  to the end of the payload. `PacketInv` says that what is encoded is a packet the host can form.
* That the tables of `usb_crc.c` compute the CRCs of USB, in the last part of that module: `Xor` is
  computed half by half (`XorStep`), from which its laws follow by induction on the halves of a word
  (`HalfInduction`). `Division` takes a word through the polynomial one bit at a time and is
  linear (`DivisionLinear`), so an entry of a table is that of the bits of its index
  (`Doubled`, `TableDivides16`, `TableDivides5`); the solver looks at each table once, at the powers of
  two. `ShiftsDivide` is the invariant of the CRC bit by bit: the CRC so far and the bits that remain, taken
  together, are the division of what they were at first. After eight bits nothing remains, and that is
  `update_usb_crc16` (`EightShifts`); after eleven, `calc_usb_crc5` (`TokenDivides`).
* In `PioUsbRootPortProofs`, `LineInv` says the port is suspended while the host drives the line or
  it settles, so no frame looks at it. `AbortInv` says that the abort's mark keeps the frame from ending
  the transfer the abort has looked at, with a disconnection as the one exception, and `PendingInv` that
  nothing pending has ended already. `EndsOnce`, while the device stays connected, and `OwnTransfer`, but for a transfer
  left by closing one endpoint alone, follow from them together.
* In `PioUsbFrameProofs`, `SpokenTo` is not inductive: it speaks of the last packet, the next one
  depends on registers set long before. `BusInv` adds what keeps them right: `is_fullspeed` is the
  speed of the device that is there (`SpeedKnown`), a device that needs PRE is behind a full-speed
  port (`PreBehindHub`), the port being served operates and owns the endpoint whose transaction runs (`Serving`),
  and between two transactions the registers are those `configure_root_port` sets for the port
  being served, in a transaction also those `send_pre` leaves (`RegistersSet`). That
  `restore_fs_bus` undoes all `send_pre` does is where the proof would fail with a register left out.
* `TimeInv` relates each endpoint's `interval_counter` to the frames it has waited: their sum is
  the interval, less one while the frame has still to come to the slot. So the counter reaches zero
  in the frame that is due, neither before nor later, for an interval of 0 as well.

What is only model-checked, and why:

* Liveness under fairness (`QueueDrains`, `SilenceNoticed`, `UnplugRetires`, `DeviceNoticed`,
  `BridgeStarts`, `IdleServed`, `EveryDeviceHeard`, `LoopEntered`) is beyond TLAPS, which reasons
  neither about ENABLED nor by the proof rules for fairness here.
* `NotFooled` of `UsbPacket`: it is about the distance between code words that bit stuffing has
  changed, for which there is no invariant to give. Every handshake is checked, and every bit time of
  the payloads in `Disturbed`.

## Findings

Each is a run that TLC ends with a counterexample.

* **`newest_kept`** (`ble_hid_periph.c:655`). `typing_can_send_now` peeks a report, sends it, and
  removes whatever is then at the head. If core 0 has meanwhile evicted the peeked report and
  added a new one, a report that was never sent is thrown away. With a queue drained to one
  it is the newest, the one with the current button states, which the comment at
  `ble_hid_periph.c:358` means to keep.
* **`lost_wakeup`** (`ble_hid_periph.c:418`). `send_request_pending` is cleared after the
  request. If BTstack emits CAN_SEND_NOW inside it, the queue is drained before the flag is
  cleared; a report core 0 adds in between finds the flag set, asks for nothing, and waits for
  the next report. For a released key that is the last report for a while.
* **`collision`** (`usb_hid_host.c:377`). Offsets and ids are bytes. Behind a device with the ids
  1 and 240 `next_report_id` is 241, so the next device gets the offset 240. Of its ids 16 and 17
  the second becomes 257, stored as 1, an id the first device has already; the first becomes 0, which
  is no Report ID. The comment at `usb_hid_host.c:357` says the offset is there to prevent collisions.

## Limits the models found

The properties below hold with an exception, which the property states and this list explains.

* `AtMostOneStale`: core 0 checks the connection and adds the report later. If it stalls in
  between for a whole reconnection, both flushes come too early, and one report of the earlier
  connection is sent in the new one. It is never more than one.
* `RoutedHome`, `ForwardedHome`: within the limits (`WithinLimits`): well-formed descriptors whose ids, bytes and
  reports fit. Beyond them items are skipped, ids wrap and reports find no place in the table. A descriptor without
  Report IDs is well-formed only if no report stands in front of its first Collection: the code inserts the
  new Report ID behind that Collection, so such a report would go by the id of the interface before.
* `ForwardedHome`: unmounting leaves the interface in `mounted_itfs` (`usb_hid_host.c:191`), so a device
  with another descriptor that later takes its address and instance is forwarded with its ids. The
  property excepts the reports of just these: from a slot that was emptied (`emptied`, a history
  variable only `tuh_hid_umount_cb` sets) and whose device now has another descriptor than the stored
  interface. `README.md:49` of the repository does not support exchanging devices while powered.
* `IdleServed`: `set_idle_busy` is cleared by the completion alone. A device removed in the
  middle of its SET_IDLE takes the completion with it, and no further SET_IDLE is sent. The run has
  removals, and the property excepts the state it can lead to (`IdleLost`), nothing else.
* `EndsOnce`: while the device stays. A disconnection noticed by a frame between
  `pio_usb_host.c:524` and `:526` reports the transfer as failed and lets the abort
  succeed as well.
* `DeviceNoticed`: without a bounce. If contact is lost and found within one frame, the handler
  takes the connection first and the disconnection last; the host stack ends without a device
  and the port stays suspended.
* `OwnTransfer`: an endpoint closed alone, its device staying, leaves `has_transfer` set in its
  slot, since neither the close nor `pio_usb_ll_configure_endpoint` clears it.
* `NoPacketLostOrRepeated`: on an OUT endpoint only until a transfer has failed, since
  then the host cannot know whether the last packet arrived. The bridge only uses OUT within
  control requests.
* `NotFooled`: for packets of the same length. The decoder drops stuffed bits unchecked and
  bits that make no whole byte; one misread bit time can turn data into a stuffed bit, and what
  is left of the packet may be a byte shorter and have a CRC that matches. Also,
  `usb_out_transaction` looks at `usb_rx_buffer[1]` and not at what
  `pio_usb_bus_wait_handshake` returns.

## Not modelled

* The set-up calls of BTstack but for the GATT database, and the contents of its fixed
  characteristics: straight-line code handing over constants.
* Payload bytes beyond the report id, and the truncation of long reports.
* The SOF number's increment; its encoding is in `UsbPacket`.
* `pio_usb_host_add_port`, `pio_usb_host_stop` and `pio_usb_host_restart`: the bridge calls none of
  them. The last two spin on flags nothing in the repository clears.
* Frames that are missed while core 0 is paused by a flash write, and a composition of
  `UsbHidHost` with `BleHidPeriph`: the plan has them.
* The edge detector and the cycles of the TX programs in PIO assembly: their correctness is
  timing. What the TX programs drive is in `PioUsbFrame`.
* `pio_usb_device.c`: linked but not called; the bridge is a host.
* TinyUSB, BTstack, the SDK and the radio driver: external, modelled as far as the code relies
  on them.
* Debug output, build files, configuration headers, whose constants are CONSTANTS here.

## Plan

Done, in this order, the most important behaviour first: `BleHidPeriph` with `ReportChannel`
and its proofs; `ReportDescriptor` and `DescriptorMerge`; `UsbHidHost`; `PioUsbTransfer`;
`PioUsbRootPort`; `Boot` and its proofs; `UsbPacket`; `GattDatabase`; `PioUsbFrame` and its proofs;
the proofs of `PioUsbTransfer`, `PioUsbRootPort` and `UsbHidHost`, of the LED, of the refinement
of `ReportChannel`, of the merging of descriptors, and of the packets and their CRCs.

To extend the models:

1. A composition of `UsbHidHost` and `BleHidPeriph`: from a report received over USB to one
   notified over BLE, with the bridge starting late and core 0 paused by flash writes.
2. The flash pauses of `Boot` against the frame timer of `PioUsbFrame`.
3. `BleHidPeriph` with `UseReportIds = FALSE`, which takes a combined descriptor without any
   Report ID and so a buffer too small for the first, and with two handles, in runs of their own.
