------------------------- MODULE BleHidPeriphProofs -------------------------
(***************************************************************************)
(* Proofs about BleHidPeriph, for every queue size, number of controller   *)
(* buffers, set of hosts and bound, in three parts:                        *)
(*  - types;                                                               *)
(*  - the connection: con_handle, link_encrypted, advertising and the      *)
(*    bonds follow the link, whatever Core 0 does in between;              *)
(*  - the reports: their order, the room for them, the registration of the *)
(*    send request and its wake-up, what a connection finds of an earlier  *)
(*    one, and that the two cores together implement ReportChannel.        *)
(***************************************************************************)
EXTENDS BleHidPeriph, FiniteSetTheorems, TLAPS

-----------------------------------------------------------------------------
(***************************************************************************)
(* Types                                                                   *)
(***************************************************************************)
\* TypeOK made inductive: a report in hand is a report; a connection being set up
\* has a host and has not been counted yet, and a pairing is one with a host.
HandOK ==
    /\ pc0 # "Idle" => item0 \in Item
    /\ pc1 \in {"Notify", "Remove"} => item1 \in Item
PeerOK ==
    /\ pc1 \in {"ConnFlush", "ConnHandle"} => connections < MaxConnections
    /\ pc1 \in {"ConnFlush", "ConnHandle", "ConnEncrypted"} => link \in Peers
    /\ sm_state # "None" => sm_peer \in Peers
TypeInv == TypeOK /\ HandOK /\ PeerOK

-----------------------------------------------------------------------------
\* What the queue calls leave behind is again a queue.
LEMMA AddTypes ==
    ASSUME report_queue \in Seq(Item), Len(report_queue) <= QueueSize,
           NEW item \in Item, queue_try_add(item)
    PROVE  report_queue' \in Seq(Item) /\ Len(report_queue)' <= QueueSize
  BY QueueAssumption DEF queue_try_add, Full

LEMMA RemoveTypes ==
    ASSUME report_queue \in Seq(Item), Len(report_queue) <= QueueSize, queue_try_remove
    PROVE  report_queue' \in Seq(Item) /\ Len(report_queue)' <= QueueSize
  BY QueueAssumption DEF queue_try_remove

\* A callback taken off the list was its first.
LEMMA TailOfLoop ==
    ASSUME LoopTypes, run_loop # <<>>, run_loop' = Tail(run_loop), NEW i \in DOMAIN run_loop'
    PROVE  i + 1 \in DOMAIN run_loop /\ run_loop'[i] = run_loop[i + 1] /\ i \in Nat \ {0}
  BY DEF LoopTypes

\* Core 0 writes nothing that belongs to Core 1 or to the stack, and the other way round.
LEMMA FrameCore0 ==
    Core0 => /\ UNCHANGED <<core1, shared, stack, channel>>
             /\ UNCHANGED <<connections, encrypted_conn, last_sent>>
  BY DEF Core0, ble_hid_periph_start, SendCheckHandle, ble_hid_periph_send_raw_report,
         SendCheckEncrypted, SendEnqueue, SendEvict, SendEnqueueAgain, SendExchange,
         SendRegister, core0, core1, shared, stack, channel, history

LEMMA TypeInit == Init => TypeInv
  <1> SUFFICES ASSUME Init PROVE TypeInv
    OBVIOUS
  <1> USE DEF Init
  <1>1. ControlTypes
    BY DEF ControlTypes, Pc0, Pc1, SMState
  <1>2. FlagTypes
    BY DEF FlagTypes
  <1>3. NumberTypes
    BY QueueAssumption DEF NumberTypes
  <1>4. NameTypes /\ ItemTypes
    BY DEF NameTypes, ItemTypes
  <1>5. QueueTypes /\ LoopTypes
    BY QueueAssumption DEF QueueTypes, LoopTypes
  <1>6. HandOK /\ PeerOK
    BY DEF HandOK, PeerOK
  <1> QED
    BY <1>1, <1>2, <1>3, <1>4, <1>5, <1>6 DEF TypeInv, TypeOK

LEMMA TypeCore0 == ASSUME TypeInv, Core0 PROVE TypeOK' /\ HandOK'
  <1> ControlTypes /\ FlagTypes /\ NumberTypes /\ NameTypes /\ ItemTypes /\ QueueTypes /\ LoopTypes
    BY DEF TypeInv, TypeOK
  <1> HandOK /\ PeerOK
    BY DEF TypeInv
  <1>1. CASE ble_hid_periph_start
    <2> USE <1>1 DEF ble_hid_periph_start, core0, core1, shared, stack, channel, history
    <2>1. ControlTypes' /\ NumberTypes' /\ NameTypes' /\ ItemTypes'
      BY DEF ControlTypes, NumberTypes, NameTypes, ItemTypes
    <2>2. FlagTypes'
      BY DEF FlagTypes
    <2>3. QueueTypes'
      BY QueueAssumption DEF QueueTypes
    <2>4. LoopTypes'
      BY DEF LoopTypes, Callback
    <2>5. HandOK'
      BY DEF HandOK
    <2> QED
      BY <2>1, <2>2, <2>3, <2>4, <2>5 DEF TypeOK
  <1>2. CASE SendCheckHandle
    <2> USE <1>2 DEF SendCheckHandle, core0, core1, shared, stack, channel, history
    <2>1. FlagTypes' /\ NameTypes' /\ QueueTypes' /\ LoopTypes'
      BY DEF FlagTypes, NameTypes, QueueTypes, LoopTypes
    <2>2. ControlTypes'
      BY DEF ControlTypes, Pc0, Pc1, SMState
    <2>3. NumberTypes'
      BY QueueAssumption DEF NumberTypes
    <2>4. ItemTypes'
      BY QueueAssumption DEF ItemTypes, Item, NoItem, NumberTypes
    <2>5. HandOK'
      BY QueueAssumption DEF HandOK, Item, NoItem, NumberTypes
    <2> QED
      BY <2>1, <2>2, <2>3, <2>4, <2>5 DEF TypeOK
  <1>3. CASE SendCheckEncrypted
    <2> USE <1>3 DEF SendCheckEncrypted, core0, core1, shared, stack, channel, history
    <2>1. FlagTypes' /\ NumberTypes' /\ NameTypes' /\ ItemTypes' /\ QueueTypes' /\ LoopTypes'
      BY DEF FlagTypes, NumberTypes, NameTypes, ItemTypes, QueueTypes, LoopTypes
    <2>2. ControlTypes'
      BY DEF ControlTypes, Pc0, Pc1, SMState
    <2>3. HandOK'
      BY DEF HandOK
    <2> QED
      BY <2>1, <2>2, <2>3 DEF TypeOK
  <1>4. CASE SendEnqueue
    <2> USE <1>4 DEF SendEnqueue, core0, core1, shared, stack, channel, history
    <2>1. FlagTypes' /\ NumberTypes' /\ NameTypes' /\ ItemTypes' /\ LoopTypes'
      BY DEF FlagTypes, NumberTypes, NameTypes, ItemTypes, LoopTypes
    <2>2. ControlTypes'
      BY DEF ControlTypes, Pc0, Pc1, SMState
    <2>3. QueueTypes'
      BY AddTypes DEF QueueTypes, HandOK
    <2>4. HandOK'
      BY DEF HandOK
    <2> QED
      BY <2>1, <2>2, <2>3, <2>4 DEF TypeOK
  <1>5. CASE SendEvict
    <2> USE <1>5 DEF SendEvict, core0, core1, shared, stack, channel, history
    <2>1. NumberTypes' /\ NameTypes' /\ ItemTypes' /\ LoopTypes'
      BY DEF NumberTypes, NameTypes, ItemTypes, LoopTypes
    <2>2. ControlTypes'
      BY DEF ControlTypes, Pc0, Pc1, SMState
    <2>3. FlagTypes'
      BY DEF FlagTypes
    <2>4. QueueTypes'
      BY RemoveTypes DEF QueueTypes
    <2>5. HandOK'
      BY DEF HandOK
    <2> QED
      BY <2>1, <2>2, <2>3, <2>4, <2>5 DEF TypeOK
  <1>6. CASE SendEnqueueAgain
    <2> USE <1>6 DEF SendEnqueueAgain, core0, core1, shared, stack, channel, history
    <2>1. FlagTypes' /\ NumberTypes' /\ NameTypes' /\ ItemTypes' /\ LoopTypes'
      BY DEF FlagTypes, NumberTypes, NameTypes, ItemTypes, LoopTypes
    <2>2. ControlTypes'
      BY DEF ControlTypes, Pc0, Pc1, SMState
    <2>3. QueueTypes'
      BY AddTypes DEF QueueTypes, HandOK
    <2>4. HandOK'
      BY DEF HandOK
    <2> QED
      BY <2>1, <2>2, <2>3, <2>4 DEF TypeOK
  <1>7. CASE SendExchange
    <2> USE <1>7 DEF SendExchange, core0, core1, shared, stack, channel, history
    <2>1. NumberTypes' /\ NameTypes' /\ ItemTypes' /\ QueueTypes' /\ LoopTypes'
      BY DEF NumberTypes, NameTypes, ItemTypes, QueueTypes, LoopTypes
    <2>2. ControlTypes'
      BY DEF ControlTypes, Pc0, Pc1, SMState
    <2>3. FlagTypes'
      BY DEF FlagTypes
    <2>4. HandOK'
      BY DEF HandOK
    <2> QED
      BY <2>1, <2>2, <2>3, <2>4 DEF TypeOK
  <1>8. CASE SendRegister
    <2> USE <1>8 DEF SendRegister, core0, core1, shared, stack, channel, history
    <2>1. FlagTypes' /\ NumberTypes' /\ NameTypes' /\ ItemTypes' /\ QueueTypes'
      BY DEF FlagTypes, NumberTypes, NameTypes, ItemTypes, QueueTypes
    <2>2. ControlTypes'
      BY DEF ControlTypes, Pc0, Pc1, SMState
    <2>3. LoopTypes'
      BY DEF LoopTypes, Callback
    <2>4. HandOK'
      BY DEF HandOK
    <2> QED
      BY <2>1, <2>2, <2>3, <2>4 DEF TypeOK
  <1> QED
    BY <1>1, <1>2, <1>3, <1>4, <1>5, <1>6, <1>7, <1>8 DEF Core0, ble_hid_periph_send_raw_report

LEMMA TypeCore1 == ASSUME TypeInv, Core1 PROVE TypeOK' /\ HandOK'
  <1> ControlTypes /\ FlagTypes /\ NumberTypes /\ NameTypes /\ ItemTypes /\ QueueTypes /\ LoopTypes
    BY DEF TypeInv, TypeOK
  <1> HandOK /\ PeerOK
    BY DEF TypeInv
  <1>1. CASE RunSetup
    <2> USE <1>1 DEF RunSetup, core0, core1, shared, stack, channel, history
    <2>1. FlagTypes' /\ NumberTypes' /\ NameTypes' /\ ItemTypes' /\ QueueTypes'
      BY DEF FlagTypes, NumberTypes, NameTypes, ItemTypes, QueueTypes
    <2>2. ControlTypes'
      BY DEF ControlTypes, Pc0, Pc1, SMState
    <2>3. LoopTypes'
      BY DEF LoopTypes, Callback
    <2>4. HandOK'
      BY DEF HandOK
    <2> QED
      BY <2>1, <2>2, <2>3, <2>4 DEF TypeOK
  <1>2. CASE RunSendRequest
    <2> USE <1>2 DEF RunSendRequest, core0, core1, shared, stack, channel, history
    <2>1. FlagTypes' /\ NumberTypes' /\ NameTypes' /\ ItemTypes' /\ QueueTypes'
      BY DEF FlagTypes, NumberTypes, NameTypes, ItemTypes, QueueTypes
    <2>2. ControlTypes'
      BY DEF ControlTypes, Pc0, Pc1, SMState
    <2>3. LoopTypes'
      BY DEF LoopTypes, Callback
    <2>4. HandOK'
      BY DEF HandOK
    <2> QED
      BY <2>1, <2>2, <2>3, <2>4 DEF TypeOK
  <1>3. CASE RequestCanSend
    <2> USE <1>3 DEF RequestCanSend, core0, core1, shared, stack, channel, history
    <2>1. NumberTypes' /\ NameTypes' /\ ItemTypes' /\ QueueTypes' /\ LoopTypes'
      BY DEF NumberTypes, NameTypes, ItemTypes, QueueTypes, LoopTypes
    <2>2. ControlTypes'
      BY DEF ControlTypes, Pc0, Pc1, SMState
    <2>3. FlagTypes'
      BY DEF FlagTypes
    <2>4. HandOK'
      BY DEF HandOK
    <2> QED
      BY <2>1, <2>2, <2>3, <2>4 DEF TypeOK
  <1>4. CASE ClearPending
    <2> USE <1>4 DEF ClearPending, core0, core1, shared, stack, channel, history
    <2>1. NumberTypes' /\ NameTypes' /\ ItemTypes' /\ QueueTypes' /\ LoopTypes'
      BY DEF NumberTypes, NameTypes, ItemTypes, QueueTypes, LoopTypes
    <2>2. ControlTypes'
      BY DEF ControlTypes, Pc0, Pc1, SMState
    <2>3. FlagTypes'
      BY DEF FlagTypes
    <2>4. HandOK'
      BY DEF HandOK
    <2> QED
      BY <2>1, <2>2, <2>3, <2>4 DEF TypeOK
  <1>5. CASE CanSendNow
    <2> USE <1>5 DEF CanSendNow, core0, core1, shared, stack, channel, history
    <2>1. NumberTypes' /\ NameTypes' /\ ItemTypes' /\ QueueTypes' /\ LoopTypes'
      BY DEF NumberTypes, NameTypes, ItemTypes, QueueTypes, LoopTypes
    <2>2. ControlTypes'
      BY DEF ControlTypes, Pc0, Pc1, SMState
    <2>3. FlagTypes'
      BY DEF FlagTypes
    <2>4. HandOK'
      BY DEF HandOK
    <2> QED
      BY <2>1, <2>2, <2>3, <2>4 DEF TypeOK
  <1>6. CASE Peek
    <2> USE <1>6 DEF Peek, core0, core1, shared, stack, channel, history
    <2>1. FlagTypes' /\ NumberTypes' /\ NameTypes' /\ QueueTypes' /\ LoopTypes'
      BY DEF FlagTypes, NumberTypes, NameTypes, QueueTypes, LoopTypes
    <2>2. ControlTypes'
      BY DEF ControlTypes, Pc0, Pc1, SMState
    <2>3. report_queue # <<>> => Head(report_queue) \in Item
      BY DEF QueueTypes
    <2>4. ItemTypes'
      BY <2>3 DEF ItemTypes
    <2>5. HandOK'
      BY <2>3 DEF HandOK, ControlTypes
    <2> QED
      BY <2>1, <2>2, <2>4, <2>5 DEF TypeOK
  <1>7. CASE Notify
    <2> USE <1>7 DEF Notify, core0, core1, shared, stack, channel, history
    <2>1. NameTypes' /\ ItemTypes' /\ QueueTypes' /\ LoopTypes'
      BY DEF NameTypes, ItemTypes, QueueTypes, LoopTypes
    <2>2. ControlTypes'
      BY DEF ControlTypes, Pc0, Pc1, SMState
    <2>3. FlagTypes'
      BY DEF FlagTypes
    <2>4. NumberTypes'
      BY QueueAssumption DEF NumberTypes, HandOK, Item
    <2>5. HandOK'
      BY DEF HandOK
    <2> QED
      BY <2>1, <2>2, <2>3, <2>4, <2>5 DEF TypeOK
  <1>8. CASE Remove
    <2> USE <1>8 DEF Remove, core0, core1, shared, stack, channel, history
    <2>1. NumberTypes' /\ NameTypes' /\ ItemTypes' /\ LoopTypes'
      BY DEF NumberTypes, NameTypes, ItemTypes, LoopTypes
    <2>2. ControlTypes'
      BY DEF ControlTypes, Pc0, Pc1, SMState
    <2>3. FlagTypes'
      BY DEF FlagTypes
    <2>4. QueueTypes'
      BY RemoveTypes DEF QueueTypes
    <2>5. HandOK'
      BY DEF HandOK
    <2> QED
      BY <2>1, <2>2, <2>3, <2>4, <2>5 DEF TypeOK
  <1>9. CASE StackWorking
    <2> USE <1>9 DEF StackWorking, core0, core1, shared, stack, channel, history
    <2>1. FlagTypes' /\ NumberTypes' /\ NameTypes' /\ ItemTypes' /\ QueueTypes' /\ LoopTypes'
      BY DEF FlagTypes, NumberTypes, NameTypes, ItemTypes, QueueTypes, LoopTypes
    <2>2. ControlTypes'
      BY DEF ControlTypes, Pc0, Pc1, SMState
    <2>3. HandOK'
      BY DEF HandOK
    <2> QED
      BY <2>1, <2>2, <2>3 DEF TypeOK
  <1>10. CASE Advertise
    <2> USE <1>10 DEF Advertise, core0, core1, shared, stack, channel, history
    <2>1. NumberTypes' /\ NameTypes' /\ ItemTypes' /\ QueueTypes' /\ LoopTypes'
      BY DEF NumberTypes, NameTypes, ItemTypes, QueueTypes, LoopTypes
    <2>2. ControlTypes'
      BY DEF ControlTypes, Pc0, Pc1, SMState
    <2>3. FlagTypes'
      BY DEF FlagTypes
    <2>4. HandOK'
      BY DEF HandOK
    <2> QED
      BY <2>1, <2>2, <2>3, <2>4 DEF TypeOK
  <1>11. CASE Disconnection
    <2> USE <1>11 DEF Disconnection, core0, core1, shared, stack, channel, history
    <2>1. ItemTypes' /\ QueueTypes' /\ LoopTypes'
      BY DEF ItemTypes, QueueTypes, LoopTypes
    <2>2. ControlTypes'
      BY DEF ControlTypes, Pc0, Pc1, SMState
    <2>3. FlagTypes'
      BY DEF FlagTypes
    <2>4. NumberTypes'
      BY QueueAssumption DEF NumberTypes
    <2>5. NameTypes'
      BY DEF NameTypes
    <2>6. HandOK'
      BY DEF HandOK
    <2> QED
      BY <2>1, <2>2, <2>3, <2>4, <2>5, <2>6 DEF TypeOK
  <1>12. CASE DiscEncrypted
    <2> USE <1>12 DEF DiscEncrypted, core0, core1, shared, stack, channel, history
    <2>1. NumberTypes' /\ NameTypes' /\ ItemTypes' /\ QueueTypes' /\ LoopTypes'
      BY DEF NumberTypes, NameTypes, ItemTypes, QueueTypes, LoopTypes
    <2>2. ControlTypes'
      BY DEF ControlTypes, Pc0, Pc1, SMState
    <2>3. FlagTypes'
      BY DEF FlagTypes
    <2>4. HandOK'
      BY DEF HandOK
    <2> QED
      BY <2>1, <2>2, <2>3, <2>4 DEF TypeOK
  <1>13. CASE DiscFlush
    <2> USE <1>13 DEF DiscFlush, EmptyQueue, core0, core1, shared, stack, channel, history
    <2>1. FlagTypes' /\ NumberTypes' /\ NameTypes' /\ ItemTypes' /\ LoopTypes'
      BY DEF FlagTypes, NumberTypes, NameTypes, ItemTypes, LoopTypes
    <2>2. ControlTypes'
      BY DEF ControlTypes, Pc0, Pc1, SMState
    <2>3. QueueTypes'
      BY RemoveTypes DEF QueueTypes
    <2>4. HandOK'
      BY DEF HandOK
    <2> QED
      BY <2>1, <2>2, <2>3, <2>4 DEF TypeOK
  <1>14. CASE ConnectionComplete
    <2> USE <1>14 DEF ConnectionComplete, core0, core1, shared, stack, channel, history
    <2>1. NumberTypes' /\ ItemTypes' /\ QueueTypes' /\ LoopTypes'
      BY DEF NumberTypes, ItemTypes, QueueTypes, LoopTypes
    <2>2. ControlTypes'
      BY DEF ControlTypes, Pc0, Pc1, SMState
    <2>3. FlagTypes'
      BY DEF FlagTypes
    <2>4. NameTypes'
      BY DEF NameTypes
    <2>5. HandOK'
      BY DEF HandOK
    <2> QED
      BY <2>1, <2>2, <2>3, <2>4, <2>5 DEF TypeOK
  <1>15. CASE ConnFlush
    <2> USE <1>15 DEF ConnFlush, EmptyQueue, core0, core1, shared, stack, channel, history
    <2>1. FlagTypes' /\ NumberTypes' /\ NameTypes' /\ ItemTypes' /\ LoopTypes'
      BY DEF FlagTypes, NumberTypes, NameTypes, ItemTypes, LoopTypes
    <2>2. ControlTypes'
      BY DEF ControlTypes, Pc0, Pc1, SMState
    <2>3. QueueTypes'
      BY RemoveTypes DEF QueueTypes
    <2>4. HandOK'
      BY DEF HandOK
    <2> QED
      BY <2>1, <2>2, <2>3, <2>4 DEF TypeOK
  <1>16. CASE ConnHandle
    <2> USE <1>16 DEF ConnHandle, core0, core1, shared, stack, channel, history
    <2>1. FlagTypes' /\ ItemTypes' /\ QueueTypes' /\ LoopTypes'
      BY DEF FlagTypes, ItemTypes, QueueTypes, LoopTypes
    <2>2. ControlTypes'
      BY DEF ControlTypes, Pc0, Pc1, SMState
    <2>3. NumberTypes'
      BY QueueAssumption DEF NumberTypes, PeerOK
    <2>4. NameTypes'
      BY DEF NameTypes
    <2>5. HandOK'
      BY DEF HandOK
    <2> QED
      BY <2>1, <2>2, <2>3, <2>4, <2>5 DEF TypeOK
  <1>17. CASE ConnEncrypted
    <2> USE <1>17 DEF ConnEncrypted, core0, core1, shared, stack, channel, history
    <2>1. NumberTypes' /\ ItemTypes' /\ QueueTypes' /\ LoopTypes'
      BY DEF NumberTypes, ItemTypes, QueueTypes, LoopTypes
    <2>2. ControlTypes'
      BY DEF ControlTypes, Pc0, Pc1, SMState
    <2>3. FlagTypes'
      BY DEF FlagTypes
    <2>4. NameTypes'
      BY DEF NameTypes
    <2>5. HandOK'
      BY DEF HandOK
    <2> QED
      BY <2>1, <2>2, <2>3, <2>4, <2>5 DEF TypeOK
  <1>18. CASE EncryptionChange
    <2> USE <1>18 DEF EncryptionChange, core0, core1, shared, stack, channel, history
    <2>1. ControlTypes' /\ NameTypes' /\ ItemTypes' /\ QueueTypes' /\ LoopTypes'
      BY DEF ControlTypes, NameTypes, ItemTypes, QueueTypes, LoopTypes
    <2>2. FlagTypes'
      BY DEF FlagTypes
    <2>3. NumberTypes'
      BY QueueAssumption DEF NumberTypes
    <2>4. HandOK'
      BY DEF HandOK
    <2> QED
      BY <2>1, <2>2, <2>3, <2>4 DEF TypeOK
  <1>19. CASE EncryptionFailed
    <2> USE <1>19 DEF EncryptionFailed, core0, core1, shared, stack, channel, history
    <2>1. ControlTypes' /\ NumberTypes' /\ ItemTypes' /\ QueueTypes' /\ LoopTypes'
      BY DEF ControlTypes, NumberTypes, ItemTypes, QueueTypes, LoopTypes
    <2>2. FlagTypes'
      BY DEF FlagTypes
    <2>3. NameTypes'
      BY DEF NameTypes
    <2>4. HandOK'
      BY DEF HandOK
    <2> QED
      BY <2>1, <2>2, <2>3, <2>4 DEF TypeOK
  <1>20. CASE CompletedPackets
    <2> USE <1>20 DEF CompletedPackets, core0, core1, shared, stack, channel, history
    <2>1. ControlTypes' /\ FlagTypes' /\ NameTypes' /\ ItemTypes' /\ QueueTypes' /\ LoopTypes'
      BY DEF ControlTypes, FlagTypes, NameTypes, ItemTypes, QueueTypes, LoopTypes
    <2>2. NumberTypes'
      BY QueueAssumption DEF NumberTypes
    <2>3. HandOK'
      BY DEF HandOK
    <2> QED
      BY <2>1, <2>2, <2>3 DEF TypeOK
  <1>21. CASE PairingConfirm
    <2> USE <1>21 DEF PairingConfirm, core0, core1, shared, stack, channel, history
    <2>1. FlagTypes' /\ NumberTypes' /\ NameTypes' /\ ItemTypes' /\ QueueTypes' /\ LoopTypes'
      BY DEF FlagTypes, NumberTypes, NameTypes, ItemTypes, QueueTypes, LoopTypes
    <2>2. ControlTypes'
      BY DEF ControlTypes, Pc0, Pc1, SMState
    <2>3. HandOK'
      BY DEF HandOK
    <2> QED
      BY <2>1, <2>2, <2>3 DEF TypeOK
  <1>22. CASE PairingComplete
    <2> USE <1>22 DEF PairingComplete, core0, core1, shared, stack, channel, history
    <2>1. FlagTypes' /\ NumberTypes' /\ ItemTypes' /\ QueueTypes' /\ LoopTypes'
      BY DEF FlagTypes, NumberTypes, ItemTypes, QueueTypes, LoopTypes
    <2>2. ControlTypes'
      BY DEF ControlTypes, Pc0, Pc1, SMState
    <2>3. NameTypes'
      BY DEF NameTypes, PeerOK
    <2>4. HandOK'
      BY DEF HandOK
    <2> QED
      BY <2>1, <2>2, <2>3, <2>4 DEF TypeOK
  <1> QED
    BY <1>1, <1>2, <1>3, <1>4, <1>5, <1>6, <1>7, <1>8, <1>9, <1>10, <1>11,
       <1>12, <1>13, <1>14, <1>15, <1>16, <1>17, <1>18, <1>19, <1>20, <1>21, <1>22
       DEF Core1, request_can_send_now_on_btstack_thread, typing_can_send_now,
           hci_packet_handler, sm_packet_handler

LEMMA PeersCore1 == TypeInv /\ Core1 => PeerOK'
  <1> SUFFICES ASSUME TypeInv, Core1 PROVE PeerOK'
    OBVIOUS
  <1> caller \in {"Idle", "ClearPending"} /\ PeerOK
    BY DEF TypeInv, TypeOK, ControlTypes
  <1> USE DEF PeerOK
  <1>1. CASE RunSetup
    BY <1>1 DEF RunSetup, core1, stack, history
  <1>2. CASE RunSendRequest
    BY <1>2 DEF RunSendRequest, core1, stack, history
  <1>3. CASE RequestCanSend
    BY <1>3 DEF RequestCanSend, core1, stack, history
  <1>4. CASE ClearPending
    BY <1>4 DEF ClearPending, core1, stack, history
  <1>5. CASE CanSendNow
    BY <1>5 DEF CanSendNow, core1, stack, history
  <1>6. CASE Peek
    BY <1>6 DEF Peek, core1, stack, history
  <1>7. CASE Notify
    BY <1>7 DEF Notify, core1, stack, history
  <1>8. CASE Remove
    BY <1>8 DEF Remove, core1, stack, history
  <1>9. CASE StackWorking
    BY <1>9 DEF StackWorking, core1, stack, history
  <1>10. CASE Advertise
    BY <1>10 DEF Advertise, core1, stack, history
  <1>11. CASE Disconnection
    BY <1>11 DEF Disconnection, core1, stack, history
  <1>12. CASE DiscEncrypted
    BY <1>12 DEF DiscEncrypted, core1, stack, history
  <1>13. CASE DiscFlush
    BY <1>13 DEF DiscFlush, EmptyQueue, core1, stack, history
  <1>14. CASE ConnectionComplete
    BY <1>14 DEF ConnectionComplete, core1, stack, history
  <1>15. CASE ConnFlush
    BY <1>15 DEF ConnFlush, EmptyQueue, core1, stack, history
  <1>16. CASE ConnHandle
    BY <1>16 DEF ConnHandle, core1, stack, history
  <1>17. CASE ConnEncrypted
    BY <1>17 DEF ConnEncrypted, core1, stack, history
  <1>18. CASE EncryptionChange
    BY <1>18 DEF EncryptionChange, core1, stack, history
  <1>19. CASE EncryptionFailed
    BY <1>19 DEF EncryptionFailed, core1, stack, history
  <1>20. CASE CompletedPackets
    BY <1>20 DEF CompletedPackets, core1, stack, history
  <1>21. CASE PairingConfirm
    BY <1>21 DEF PairingConfirm, core1, stack, history
  <1>22. CASE PairingComplete
    BY <1>22 DEF PairingComplete, core1, stack, history
  <1> QED
    BY <1>1, <1>2, <1>3, <1>4, <1>5, <1>6, <1>7, <1>8, <1>9, <1>10, <1>11,
       <1>12, <1>13, <1>14, <1>15, <1>16, <1>17, <1>18, <1>19, <1>20, <1>21, <1>22
       DEF Core1, request_can_send_now_on_btstack_thread, typing_can_send_now,
           hci_packet_handler, sm_packet_handler

LEMMA TypeNext == TypeInv /\ [Next]_vars => TypeInv'
  <1> SUFFICES ASSUME TypeInv, [Next]_vars PROVE TypeInv'
    OBVIOUS
  <1>1. CASE Core0
    <2>1. PeerOK'
      BY <1>1, FrameCore0 DEF TypeInv, PeerOK, core1, stack
    <2> QED
      BY <1>1, <2>1, TypeCore0 DEF TypeInv
  <1>2. CASE Core1
    BY <1>2, TypeCore1, PeersCore1 DEF TypeInv
  <1>3. CASE UNCHANGED vars
    <2> USE <1>3 DEF vars, core0, core1, shared, stack, channel, history
    <2>1. (ControlTypes /\ FlagTypes /\ NameTypes /\ ItemTypes /\ LoopTypes)'
      BY DEF TypeInv, TypeOK, ControlTypes, FlagTypes, NameTypes, ItemTypes, LoopTypes
    <2>2. (NumberTypes /\ QueueTypes /\ HandOK /\ PeerOK)'
      BY DEF TypeInv, TypeOK, NumberTypes, QueueTypes, HandOK, PeerOK
    <2> QED
      BY <2>1, <2>2 DEF TypeInv, TypeOK
  <1> QED
    BY <1>1, <1>2, <1>3 DEF Next

LEMMA TypeInvariant == Spec => []TypeInv
  BY TypeInit, TypeNext, PTL DEF Spec

\* Every variable keeps its type, and the queue never holds more than QueueSize.
THEOREM TypeCorrect == Spec => []TypeOK
  <1>1. TypeInv => TypeOK
    BY DEF TypeInv
  <1> QED
    BY TypeInvariant, <1>1, PTL

-----------------------------------------------------------------------------
(***************************************************************************)
(* The connection                                                          *)
(***************************************************************************)
\* Where the link is down, link_encrypted is or is about to be FALSE; where it is
\* set, it was set on the current connection.
LinkInv ==
    /\ hci_state # "Working" => link = NoPeer
    /\ con_handle # Invalid => link # NoPeer
    /\ pc1 \in {"DiscEncrypted", "DiscFlush", "Advertise"} => link = NoPeer
    /\ (link = NoPeer /\ pc1 # "DiscEncrypted") => ~link_encrypted
    /\ pc1 \in {"ConnFlush", "ConnHandle"} => ~link_encrypted
    /\ link_encrypted => encrypted_conn = connections

\* Advertising stops only in a handler that ends in Advertise or has a host.
AdvertisingInv ==
    (hci_state = "Working" /\ link = NoPeer
       /\ pc1 \notin {"Advertise", "DiscEncrypted", "DiscFlush"}) => advertising

\* The host of the handler and the host of the pairing are recorded together.
AddressInv == current_peer_addr = sm_peer

\* setup_on_btstack_thread is registered once, first, and powers the controller on
\* from the state it has after the boot.
SetupInv ==
    /\ ~ble_initialized => pc0 = "Idle" /\ run_loop = <<>> /\ hci_state = "Off"
    /\ \A i \in DOMAIN run_loop : run_loop[i] = "setup" => i = 1 /\ hci_state = "Off"

ConnInv == LinkInv /\ AdvertisingInv /\ AddressInv

LEMMA ConnInit == Init => ConnInv /\ SetupInv
  BY DEF Init, ConnInv, LinkInv, AdvertisingInv, AddressInv, SetupInv

LEMMA SetupNext == ASSUME TypeInv, SetupInv, [Next]_vars PROVE SetupInv'
  <1> ControlTypes /\ LoopTypes
    BY DEF TypeInv, TypeOK
  <1>1. CASE ble_hid_periph_start
    BY <1>1 DEF ble_hid_periph_start, core0, stack, SetupInv, LoopTypes
  <1>2. CASE SendCheckHandle
    BY <1>2 DEF SendCheckHandle, stack, SetupInv
  <1>3. CASE SendRegister
    BY <1>3 DEF SendRegister, stack, SetupInv, LoopTypes
  <1>4. CASE Core0 /\ ~ble_hid_periph_start /\ ~SendCheckHandle /\ ~SendRegister
    BY <1>4
       DEF Core0, ble_hid_periph_send_raw_report, SendCheckEncrypted, SendEnqueue, SendEvict,
           SendEnqueueAgain, SendExchange, stack, SetupInv
  <1>5. CASE RunSetup
    BY <1>5, TailOfLoop DEF RunSetup, core0, SetupInv, LoopTypes
  <1>6. CASE RunSendRequest
    BY <1>6, TailOfLoop DEF RunSendRequest, core0, stack, SetupInv, LoopTypes
  <1>7. CASE StackWorking
    BY <1>7 DEF StackWorking, core0, SetupInv
  <1>8. CASE Core1 /\ ~RunSetup /\ ~RunSendRequest /\ ~StackWorking
    <2>1. UNCHANGED <<core0, ble_initialized, run_loop, hci_state>>
      BY <1>8
         DEF Core1, request_can_send_now_on_btstack_thread,
             RequestCanSend, ClearPending, CanSendNow, typing_can_send_now, Peek, Notify,
             Remove, CompletedPackets, hci_packet_handler, Advertise,
             Disconnection, DiscEncrypted, DiscFlush, ConnectionComplete, ConnFlush,
             ConnHandle, ConnEncrypted, EncryptionChange, EncryptionFailed, sm_packet_handler,
             PairingConfirm, PairingComplete, stack
    <2> QED
      BY <2>1 DEF SetupInv, core0
  <1>9. CASE UNCHANGED vars
    BY <1>9 DEF vars, core0, stack, SetupInv
  <1> QED
    BY <1>1, <1>2, <1>3, <1>4, <1>5, <1>6, <1>7, <1>8, <1>9 DEF Next

LEMMA ConnCore1 == ASSUME TypeInv, ConnInv, SetupInv, Core1 PROVE ConnInv'
  <1> caller \in {"Idle", "ClearPending"} /\ NameTypes /\ LoopTypes /\ PeerOK
    BY DEF TypeInv, TypeOK, ControlTypes
  <1> LinkInv /\ AdvertisingInv /\ AddressInv
    BY DEF ConnInv
  <1> USE DEF ConnInv, LinkInv, AdvertisingInv, AddressInv
  <1>1. CASE RunSetup
    BY <1>1 DEF RunSetup, SetupInv, LoopTypes, core1, shared, stack, history
  <1>2. CASE RunSendRequest
    BY <1>2 DEF RunSendRequest, core1, shared, stack, history
  <1>3. CASE RequestCanSend
    BY <1>3 DEF RequestCanSend, core1, shared, stack, history
  <1>4. CASE ClearPending
    BY <1>4 DEF ClearPending, core1, shared, stack, history
  <1>5. CASE CanSendNow
    BY <1>5 DEF CanSendNow, core1, shared, stack, history
  <1>6. CASE Peek
    BY <1>6 DEF Peek, core1, shared, stack, history
  <1>7. CASE Notify
    BY <1>7 DEF Notify, core1, shared, stack, history
  <1>8. CASE Remove
    BY <1>8 DEF Remove, core1, shared, stack, history
  <1>9. CASE StackWorking
    BY <1>9 DEF StackWorking, core1, shared, stack, history
  <1>10. CASE Advertise
    BY <1>10 DEF Advertise, core1, shared, stack, history
  <1>11. CASE Disconnection
    BY <1>11 DEF Disconnection, core1, shared, stack, history
  <1>12. CASE DiscEncrypted
    BY <1>12 DEF DiscEncrypted, core1, shared, stack, history
  <1>13. CASE DiscFlush
    BY <1>13 DEF DiscFlush, EmptyQueue, core1, shared, stack, history
  <1>14. CASE ConnectionComplete
    BY <1>14, NameAssumption DEF ConnectionComplete, PeerOK, core1, shared, stack, history
  <1>15. CASE ConnFlush
    BY <1>15, NameAssumption DEF ConnFlush, EmptyQueue, PeerOK, core1, shared, stack, history
  <1>16. CASE ConnHandle
    BY <1>16, NameAssumption DEF ConnHandle, PeerOK, core1, shared, stack, history
  <1>17. CASE ConnEncrypted
    BY <1>17, NameAssumption DEF ConnEncrypted, PeerOK, core1, shared, stack, history
  <1>18. CASE EncryptionChange
    BY <1>18 DEF EncryptionChange, core1, shared, stack, history
  <1>19. CASE EncryptionFailed
    BY <1>19 DEF EncryptionFailed, core1, shared, stack, history
  <1>20. CASE CompletedPackets
    BY <1>20 DEF CompletedPackets, core1, shared, stack, history
  <1>21. CASE PairingConfirm
    BY <1>21 DEF PairingConfirm, core1, shared, stack, history
  <1>22. CASE PairingComplete
    BY <1>22 DEF PairingComplete, core1, shared, stack, history
  <1> QED
    BY <1>1, <1>2, <1>3, <1>4, <1>5, <1>6, <1>7, <1>8, <1>9, <1>10, <1>11,
       <1>12, <1>13, <1>14, <1>15, <1>16, <1>17, <1>18, <1>19, <1>20, <1>21, <1>22
       DEF Core1, request_can_send_now_on_btstack_thread, typing_can_send_now,
           hci_packet_handler, sm_packet_handler

LEMMA ConnNext == TypeInv /\ ConnInv /\ SetupInv /\ [Next]_vars => ConnInv'
  <1> SUFFICES ASSUME TypeInv, ConnInv, SetupInv, [Next]_vars PROVE ConnInv'
    OBVIOUS
  <1> USE DEF ConnInv, LinkInv, AdvertisingInv, AddressInv
  <1>1. CASE Core0
    BY <1>1, FrameCore0 DEF core1, shared, stack
  <1>2. CASE Core1
    BY <1>2, ConnCore1
  <1>3. CASE UNCHANGED vars
    BY <1>3 DEF vars, core1, shared, stack, history
  <1> QED
    BY <1>1, <1>2, <1>3 DEF Next

LEMMA ConnInvariant == Spec => [](TypeInv /\ ConnInv /\ SetupInv)
  <1>1. TypeInv /\ ConnInv /\ SetupInv /\ [Next]_vars => TypeInv' /\ ConnInv' /\ SetupInv'
    BY TypeNext, ConnNext, SetupNext
  <1> QED
    BY TypeInit, ConnInit, <1>1, PTL DEF Spec

\* At every point where Core 0 can read con_handle and link_encrypted, a set flag
\* belongs to the connection whose handle is there.
THEOREM EncryptionCurrent == Spec => []EncryptedIsCurrent
  <1>1. ConnInv => EncryptedIsCurrent
    BY DEF ConnInv, LinkInv, EncryptedIsCurrent
  <1> QED
    BY ConnInvariant, <1>1, PTL

\* Without a host the working bridge advertises between two handlers.
THEOREM AlwaysDiscoverable == Spec => []Discoverable
  <1>1. ConnInv => Discoverable
    BY DEF ConnInv, AdvertisingInv, Discoverable
  <1> QED
    BY ConnInvariant, <1>1, PTL

\* Keys are deleted only of the host that encryption or pairing failed with.
THEOREM OthersStayBonded == Spec => BondsOfOthersKept
  <1>1. TypeInv /\ ConnInv /\ [Next]_vars => [\A p \in bonds \ bonds' : p = sm_peer]_vars
    <2> SUFFICES ASSUME ConnInv, Next PROVE \A p \in bonds \ bonds' : p = sm_peer
      OBVIOUS
    <2>1. CASE Core0
      BY <2>1, FrameCore0 DEF stack
    <2>2. CASE EncryptionFailed
      BY <2>2 DEF EncryptionFailed, ConnInv, AddressInv
    <2>3. CASE PairingComplete
      BY <2>3 DEF PairingComplete
    <2>4. CASE Core1 /\ ~EncryptionFailed /\ ~PairingComplete
      <3>1. bonds' = bonds
        BY <2>4
           DEF Core1, RunSetup, RunSendRequest, request_can_send_now_on_btstack_thread,
               RequestCanSend, ClearPending, CanSendNow, typing_can_send_now, Peek, Notify,
               Remove, CompletedPackets, hci_packet_handler, StackWorking, Advertise,
               Disconnection, DiscEncrypted, DiscFlush, ConnectionComplete, ConnFlush,
               ConnHandle, ConnEncrypted, EncryptionChange, sm_packet_handler,
               PairingConfirm, stack
      <3> QED
        BY <3>1
    <2> QED
      BY <2>1, <2>2, <2>3, <2>4 DEF Next
  <1> QED
    BY ConnInvariant, <1>1, PTL DEF Spec, BondsOfOthersKept

-----------------------------------------------------------------------------
(***************************************************************************)
(* The reports                                                             *)
(***************************************************************************)
\* A report Core 0 holds, from the moment it is received.
Holding == pc0 \in {"CheckEncrypted", "Enqueue", "Evict", "EnqueueAgain"}

\* InOrder made inductive: all reports are received ones, and the one in Core 0's
\* hand is the last received.
HandOrder ==
    /\ last_sent <= received
    /\ Holding => item0.seq = received /\ last_sent < received
    /\ pc1 \in {"Notify", "Remove"} => item1.seq <= received
    /\ (pc1 \in {"Notify", "Remove"} /\ Holding) => item1.seq < received
    /\ pc1 = "Notify" => item1.seq > last_sent
QueueOrder ==
    /\ \A i, j \in DOMAIN report_queue : i < j => report_queue[i].seq < report_queue[j].seq
    /\ \A i \in DOMAIN report_queue :
         /\ report_queue[i].seq <= received
         /\ Holding => report_queue[i].seq < received
         /\ report_queue[i].seq >= last_sent
         /\ report_queue[i].seq = last_sent => pc1 = "Remove"
         /\ pc1 \in {"Notify", "Remove"} => report_queue[i].seq >= item1.seq
OrderInv == HandOrder /\ QueueOrder

-----------------------------------------------------------------------------
\* Where the elements of the queue come from.
LEMMA AddedElements ==
    ASSUME QueueTypes, NEW item \in Item, queue_try_add(item), NEW i \in DOMAIN report_queue'
    PROVE  /\ i \in Nat \ {0}
           /\ \/ i \in DOMAIN report_queue /\ report_queue'[i] = report_queue[i]
              \/ i = Len(report_queue) + 1 /\ report_queue'[i] = item
  BY DEF QueueTypes, queue_try_add

LEMMA RemovedElements ==
    ASSUME QueueTypes, queue_try_remove, NEW i \in DOMAIN report_queue'
    PROVE  /\ i \in Nat \ {0} /\ i + 1 \in DOMAIN report_queue
           /\ report_queue'[i] = report_queue[i + 1]
  BY DEF QueueTypes, queue_try_remove

LEMMA Elements ==
    ASSUME QueueTypes, NEW i \in DOMAIN report_queue
    PROVE  i \in 1..Len(report_queue) /\ report_queue[i] \in Item /\ report_queue[i].seq \in Nat
  <1>1. i \in 1..Len(report_queue) /\ report_queue[i] \in Item
    BY DEF QueueTypes
  <1> QED
    BY <1>1, QueueAssumption DEF Item

LEMMA OrderInit == Init => OrderInv
  BY QueueAssumption DEF Init, OrderInv, HandOrder, QueueOrder, Holding

\* A step that touches neither the queue nor the reports in hand, and in which
\* typing_can_send_now is neither before nor after the step at Notify or Remove.
LEMMA QuietStep ==
    ASSUME OrderInv, UNCHANGED <<core0, item1, report_queue, last_sent>>,
           pc1' \notin {"Notify", "Remove"}, pc1 # "Remove" \/ pc1' = pc1
    PROVE  OrderInv'
  BY DEF OrderInv, HandOrder, QueueOrder, Holding, core0

\* A flush takes the head off the queue outside typing_can_send_now.
LEMMA FlushStep ==
    ASSUME TypeInv, OrderInv, queue_try_remove, UNCHANGED <<core0, item1, last_sent>>,
           pc1 \notin {"Notify", "Remove"}, pc1' \notin {"Notify", "Remove"}
    PROVE  OrderInv'
  <1> QueueTypes /\ NumberTypes
    BY DEF TypeInv, TypeOK
  <1>1. HandOrder'
    BY DEF OrderInv, HandOrder, Holding, core0
  <1>2. QueueOrder'
    BY RemovedElements DEF OrderInv, QueueOrder, Holding, core0
  <1> QED
    BY <1>1, <1>2 DEF OrderInv

LEMMA OrderCore0 == ASSUME TypeInv, OrderInv, Core0 PROVE OrderInv'
  <1> QueueTypes /\ NumberTypes /\ ControlTypes /\ HandOK
    BY DEF TypeInv, TypeOK
  <1> UNCHANGED <<core1, last_sent>>
    BY FrameCore0
  <1> USE DEF OrderInv, HandOrder, QueueOrder, Holding, core1
  <1>1. CASE ble_hid_periph_start
    BY <1>1 DEF ble_hid_periph_start, core0
  <1>2. CASE SendCheckHandle
    <2>1. received' = received + 1 /\ report_queue' = report_queue
      BY <1>2 DEF SendCheckHandle
    <2>2. pc0' # "Idle" => pc0' = "CheckEncrypted" /\ item0'.seq = received'
      BY <1>2 DEF SendCheckHandle
    <2>3. pc0' \in {"Idle", "CheckEncrypted"} /\ ~Holding
      BY <1>2 DEF SendCheckHandle
    <2>4. \A i \in DOMAIN report_queue : report_queue[i].seq \in Nat
      BY Elements
    <2>5. pc1 \in {"Notify", "Remove"} => item1.seq \in Nat
      BY QueueAssumption DEF HandOK, Item
    <2> QED
      BY <2>1, <2>2, <2>3, <2>4, <2>5 DEF NumberTypes
  <1>3. CASE SendCheckEncrypted
    BY <1>3 DEF SendCheckEncrypted
  <1>4. CASE SendEnqueue \/ SendEnqueueAgain
    <2>1. item0 \in Item /\ queue_try_add(item0) /\ Holding /\ UNCHANGED <<item0, received>>
      BY <1>4 DEF SendEnqueue, SendEnqueueAgain, HandOK
    <2>2. HandOrder'
      BY <1>4, <2>1 DEF SendEnqueue, SendEnqueueAgain
    <2>3. UNCHANGED <<pc1, item1, last_sent, received>> /\ item0.seq = received
      BY <2>1
    <2>4. ASSUME NEW i \in DOMAIN report_queue'
          PROVE  /\ report_queue'[i].seq <= received /\ report_queue'[i].seq >= last_sent
                 /\ report_queue'[i].seq = last_sent => pc1 = "Remove"
                 /\ pc1 \in {"Notify", "Remove"} => report_queue'[i].seq >= item1.seq
      <3>1. \/ i \in DOMAIN report_queue /\ report_queue'[i] = report_queue[i]
            \/ report_queue'[i] = item0
        BY <2>1, AddedElements
      <3>2. pc1 \in {"Notify", "Remove"} => item1.seq \in Nat /\ item1.seq < received
        BY <2>1, QueueAssumption DEF HandOK, Item
      <3> QED
        BY <2>1, <2>3, <3>1, <3>2 DEF NumberTypes
    <2>5. ASSUME NEW i \in DOMAIN report_queue', NEW j \in DOMAIN report_queue', i < j
          PROVE  report_queue'[i].seq < report_queue'[j].seq
      <3>1. i \in DOMAIN report_queue /\ report_queue'[i] = report_queue[i]
        BY <2>1, <2>5, AddedElements, Elements DEF QueueTypes
      <3>2. \/ j \in DOMAIN report_queue /\ report_queue'[j] = report_queue[j]
            \/ report_queue'[j] = item0
        BY <2>1, AddedElements
      <3> QED
        BY <2>1, <2>3, <2>5, <3>1, <3>2
    <2>6. ~Holding' \/ pc0' = "Evict"
      BY <1>4 DEF SendEnqueue, SendEnqueueAgain
    <2>7. pc0' = "Evict" => report_queue' = report_queue
      BY <1>4 DEF SendEnqueue, SendEnqueueAgain, queue_try_add
    <2>8. QueueOrder'
      BY <2>1, <2>3, <2>4, <2>5, <2>6, <2>7
    <2> QED
      BY <2>2, <2>8
  <1>5. CASE SendEvict
    <2>1. queue_try_remove /\ Holding /\ Holding' /\ UNCHANGED <<item0, received>>
      BY <1>5 DEF SendEvict
    <2>2. QueueOrder'
      BY <2>1, RemovedElements
    <2> QED
      BY <2>1, <2>2
  <1>6. CASE SendExchange
    BY <1>6 DEF SendExchange
  <1>7. CASE SendRegister
    BY <1>7 DEF SendRegister
  <1> QED
    BY <1>1, <1>2, <1>3, <1>4, <1>5, <1>6, <1>7 DEF Core0, ble_hid_periph_send_raw_report

LEMMA OrderCore1 == ASSUME TypeInv, OrderInv, Core1 PROVE OrderInv'
  <1> QueueTypes /\ NumberTypes /\ ControlTypes /\ HandOK
    BY DEF TypeInv, TypeOK
  <1>1. CASE Peek
    <2> USE <1>1 DEF Peek, core0, history
    <2>1. CASE report_queue = <<>>
      BY <2>1, QuietStep DEF ControlTypes
    <2>2. CASE report_queue # <<>>
      <3>1. item1' = report_queue[1] /\ 1 \in DOMAIN report_queue
        BY <2>2 DEF QueueTypes
      <3>2. report_queue[1].seq > last_sent
        BY <3>1, Elements DEF OrderInv, QueueOrder, NumberTypes
      <3>3. HandOrder'
        BY <3>1, <3>2 DEF OrderInv, HandOrder, QueueOrder, Holding
      <3>4. \A i \in DOMAIN report_queue : report_queue[i].seq >= report_queue[1].seq
        BY <3>1, Elements DEF OrderInv, QueueOrder
      <3>5. QueueOrder'
        BY <3>1, <3>4 DEF OrderInv, QueueOrder, Holding
      <3> QED
        BY <3>3, <3>5 DEF OrderInv
    <2> QED
      BY <2>1, <2>2
  <1>2. CASE Notify
    <2> USE <1>2 DEF Notify, core0
    <2>1. CASE acl_free > 0
      BY <2>1 DEF OrderInv, HandOrder, QueueOrder, Holding
    <2>2. CASE ~(acl_free > 0)
      BY <2>2, QuietStep DEF ControlTypes
    <2> QED
      BY <2>1, <2>2
  <1>3. CASE Remove
    <2> USE <1>3 DEF Remove, core0
    <2>1. HandOrder'
      BY DEF OrderInv, HandOrder, Holding
    <2>2. ASSUME NEW i \in DOMAIN report_queue' PROVE report_queue'[i].seq > last_sent
      <3>1. i + 1 \in DOMAIN report_queue /\ 1 \in DOMAIN report_queue /\ 1 < i + 1
        BY RemovedElements, Elements
      <3>2. report_queue[1].seq < report_queue[i + 1].seq /\ report_queue[1].seq >= last_sent
        BY <3>1 DEF OrderInv, QueueOrder
      <3> QED
        BY <3>1, <3>2, RemovedElements, Elements DEF NumberTypes
    <2>3. QueueOrder'
      BY <2>2, RemovedElements, Elements DEF OrderInv, QueueOrder, Holding, NumberTypes
    <2> QED
      BY <2>1, <2>3 DEF OrderInv
  <1>4. CASE DiscFlush
    BY <1>4, FlushStep DEF DiscFlush, EmptyQueue, history
  <1>5. CASE ConnFlush
    BY <1>5, FlushStep DEF ConnFlush, EmptyQueue, history
  <1>6. CASE Core1 /\ ~Peek /\ ~Notify /\ ~Remove /\ ~DiscFlush /\ ~ConnFlush
    BY <1>6, QuietStep
       DEF Core1, RunSetup, RunSendRequest, request_can_send_now_on_btstack_thread,
           RequestCanSend, ClearPending, CanSendNow, typing_can_send_now, CompletedPackets,
           hci_packet_handler, StackWorking, Advertise, Disconnection, DiscEncrypted,
           ConnectionComplete, ConnHandle, ConnEncrypted, EncryptionChange, EncryptionFailed,
           sm_packet_handler, PairingConfirm, PairingComplete, core1, history
  <1> QED
    BY <1>1, <1>2, <1>3, <1>4, <1>5, <1>6

LEMMA OrderInvariant == Spec => [](TypeInv /\ OrderInv)
  <1>1. TypeInv /\ OrderInv /\ [Next]_vars => TypeInv' /\ OrderInv'
    <2> SUFFICES ASSUME TypeInv, OrderInv, [Next]_vars PROVE OrderInv'
      BY TypeNext
    <2>1. CASE UNCHANGED vars
      BY <2>1 DEF vars, core0, core1, history, OrderInv, HandOrder, QueueOrder, Holding
    <2> QED
      BY <2>1, OrderCore0, OrderCore1 DEF Next
  <1> QED
    BY TypeInit, OrderInit, <1>1, PTL DEF Spec

\* Whatever Core 0 evicts while Core 1 sends, no report is sent twice or after a
\* newer one, in queues of every size.
THEOREM ReportsInOrder == Spec => []InOrder
  <1>1. OrderInv => InOrder
    BY DEF OrderInv, HandOrder, QueueOrder, Holding, InOrder, Sending
  <1> QED
    BY OrderInvariant, <1>1, PTL

-----------------------------------------------------------------------------
\* The eviction leaves room, and until Core 0 adds its report nobody else takes it.
THEOREM RoomForTheNewest == Spec => []RoomAfterEvict
  <1>1. Init => RoomAfterEvict
    BY DEF Init, RoomAfterEvict
  <1>2. TypeInv /\ RoomAfterEvict /\ [Next]_vars => RoomAfterEvict'
    <2> SUFFICES ASSUME TypeInv, RoomAfterEvict, [Next]_vars PROVE RoomAfterEvict'
      OBVIOUS
    <2> QueueTypes
      BY DEF TypeInv, TypeOK
    <2>1. CASE SendEvict
      BY <2>1, QueueAssumption DEF SendEvict, queue_try_remove, QueueTypes, RoomAfterEvict
    <2>2. CASE Core0 /\ ~SendEvict
      <3>1. ble_hid_periph_start \/ pc0' # "EnqueueAgain"
        BY <2>2
           DEF Core0, SendCheckHandle, ble_hid_periph_send_raw_report,
               SendCheckEncrypted, SendEnqueue, SendEnqueueAgain, SendExchange, SendRegister
      <3>2. CASE ble_hid_periph_start
        BY <3>2, QueueAssumption DEF ble_hid_periph_start, RoomAfterEvict
      <3> QED
        BY <3>1, <3>2 DEF RoomAfterEvict
    <2>3. CASE Core1
      <3>1. pc0' = pc0 /\ (report_queue' = report_queue \/ queue_try_remove)
        BY <2>3
           DEF Core1, RunSetup, RunSendRequest, request_can_send_now_on_btstack_thread,
               RequestCanSend, ClearPending, CanSendNow, typing_can_send_now, Peek, Notify,
               Remove, CompletedPackets, hci_packet_handler, StackWorking, Advertise,
               Disconnection, DiscEncrypted, DiscFlush, ConnectionComplete, ConnFlush,
               ConnHandle, ConnEncrypted, EncryptionChange, EncryptionFailed, EmptyQueue,
               sm_packet_handler, PairingConfirm, PairingComplete, core0
      <3> QED
        BY <3>1, QueueAssumption DEF queue_try_remove, QueueTypes, RoomAfterEvict
    <2>4. CASE UNCHANGED vars
      BY <2>4 DEF vars, core0, RoomAfterEvict
    <2> QED
      BY <2>1, <2>2, <2>3, <2>4 DEF Next
  <1> QED
    BY TypeInvariant, <1>1, <1>2, PTL DEF Spec

-----------------------------------------------------------------------------
\* OneRegistration, with the callback's execution named.
Calling == \/ pc1 \in {"RequestCanSend", "ClearPending"}
           \/ pc1 \in {"Peek", "Notify", "Remove"} /\ caller = "ClearPending"

RegistrationInv ==
    /\ \A i, j \in SendRequests : i = j
    /\ pc0 = "Register" => ~Calling /\ SendRequests = {}
    /\ Calling => SendRequests = {}
    /\ send_request_pending <=> (pc0 = "Register" \/ Calling \/ SendRequests # {})

LEMMA RegistrationNext ==
    ASSUME TypeInv, RegistrationInv, [Next]_vars PROVE RegistrationInv'
  <1> LoopTypes /\ ControlTypes /\ FlagTypes
    BY DEF TypeInv, TypeOK
  <1> USE DEF RegistrationInv
  <1>1. CASE ble_hid_periph_start
    <2>1. SendRequests' = SendRequests
      BY <1>1 DEF ble_hid_periph_start, SendRequests, LoopTypes
    <2> QED
      BY <1>1, <2>1 DEF ble_hid_periph_start, core0, core1, Calling
  <1>2. CASE SendExchange
    BY <1>2 DEF SendExchange, core1, SendRequests, Calling
  <1>3. CASE SendRegister
    <2>1. SendRequests = {} /\ ~Calling /\ send_request_pending
      BY <1>3 DEF SendRegister
    <2>2. SendRequests' = {Len(run_loop) + 1}
      BY <1>3, <2>1 DEF SendRegister, SendRequests, LoopTypes
    <2>3. ~Calling' /\ pc0' # "Register" /\ send_request_pending'
      BY <1>3, <2>1 DEF SendRegister, core1, Calling
    <2> QED
      BY <2>2, <2>3
  <1>4. CASE Core0 /\ ~ble_hid_periph_start /\ ~SendExchange /\ ~SendRegister
    BY <1>4
       DEF Core0, SendCheckHandle, ble_hid_periph_send_raw_report, SendCheckEncrypted,
           SendEnqueue, SendEvict, SendEnqueueAgain, core1, SendRequests, Calling
  <1>5. CASE RunSetup
    <2>1. \A i \in SendRequests' : i + 1 \in SendRequests /\ i \in Nat
      BY <1>5, TailOfLoop DEF RunSetup, SendRequests
    <2>2. \A i \in SendRequests : i - 1 \in SendRequests'
      BY <1>5 DEF RunSetup, SendRequests, LoopTypes
    <2>3. SendRequests' = {} <=> SendRequests = {}
      BY <2>1, <2>2
    <2>4. \A i, j \in SendRequests' : i = j
      BY <2>1
    <2> QED
      BY <1>5, <2>3, <2>4 DEF RunSetup, core0, core1, Calling
  <1>6. CASE RunSendRequest
    <2>1. 1 \in SendRequests
      BY <1>6 DEF RunSendRequest, SendRequests, LoopTypes
    <2>2. \A i \in SendRequests' : i + 1 \in SendRequests /\ i \in Nat \ {0}
      BY <1>6, TailOfLoop DEF RunSendRequest, SendRequests
    <2>3. SendRequests' = {}
      BY <2>1, <2>2
    <2>4. ~Calling /\ pc0 # "Register" /\ send_request_pending
      BY <2>1
    <2> QED
      BY <1>6, <2>3, <2>4 DEF RunSendRequest, core0, Calling
  <1>7. CASE ClearPending
    BY <1>7 DEF ClearPending, core0, SendRequests, Calling
  <1>8. CASE Core1 /\ ~RunSetup /\ ~RunSendRequest /\ ~ClearPending
    <2>1. UNCHANGED <<pc0, run_loop, send_request_pending>>
      BY <1>8
         DEF Core1, request_can_send_now_on_btstack_thread, RequestCanSend, CanSendNow,
             typing_can_send_now, Peek, Notify, Remove, CompletedPackets, hci_packet_handler,
             StackWorking, Advertise, Disconnection, DiscEncrypted, DiscFlush,
             ConnectionComplete, ConnFlush, ConnHandle, ConnEncrypted, EncryptionChange,
             EncryptionFailed, sm_packet_handler, PairingConfirm, PairingComplete, core0
    <2>2. Calling' <=> Calling
      BY <1>8
         DEF Core1, request_can_send_now_on_btstack_thread, RequestCanSend, CanSendNow,
             typing_can_send_now, Peek, Notify, Remove, CompletedPackets, hci_packet_handler,
             StackWorking, Advertise, Disconnection, DiscEncrypted, DiscFlush, EmptyQueue,
             ConnectionComplete, ConnFlush, ConnHandle, ConnEncrypted, EncryptionChange,
             EncryptionFailed, sm_packet_handler, PairingConfirm, PairingComplete, core1,
             Calling, ControlTypes
    <2> QED
      BY <2>1, <2>2 DEF SendRequests
  <1>9. CASE UNCHANGED vars
    BY <1>9 DEF vars, core0, core1, SendRequests, Calling
  <1> QED
    BY <1>1, <1>2, <1>3, <1>4, <1>5, <1>6, <1>7, <1>8, <1>9 DEF Next

\* The send request's list node is never registered while it is in the list or
\* being called, and the flag says exactly when it is.
THEOREM RegisteredOnce == Spec => []OneRegistration
  <1>1. Init => RegistrationInv
    BY DEF Init, RegistrationInv, SendRequests, Calling
  <1>2. RegistrationInv => OneRegistration
    BY DEF RegistrationInv, OneRegistration, Calling
  <1>3. TypeInv /\ RegistrationInv /\ [Next]_vars => RegistrationInv'
    BY RegistrationNext
  <1> QED
    BY TypeInvariant, <1>1, <1>2, <1>3, PTL DEF Spec

-----------------------------------------------------------------------------
\* Without an event inside the request: typing_can_send_now is called by the event
\* alone, a request executed is an event owed, and so every waiting report a host
\* could get has its wake-up.
Requested == send_request_pending \/ pc0 \in {"Evict", "EnqueueAgain", "Exchange"}
WakeInv ==
    /\ pc1 \in {"Peek", "Notify", "Remove"} => caller = "Idle"
    /\ (pc1 = "ClearPending" /\ con_handle # Invalid) => can_send_requested
    /\ (report_queue # <<>> /\ pc1 = "ConnHandle") => Requested
    /\ (report_queue # <<>> /\ con_handle # Invalid /\ pc1 \in {"Idle", "ConnEncrypted"})
         => can_send_requested \/ Requested

LEMMA WakeCore0 == ASSUME TypeInv, WakeInv, Core0 PROVE WakeInv'
  <1> QueueTypes
    BY DEF TypeInv, TypeOK
  <1> UNCHANGED <<core1, shared, channel>>
    BY FrameCore0
  <1> USE DEF WakeInv, Requested, core1, shared, channel
  <1>1. CASE ble_hid_periph_start
    BY <1>1 DEF ble_hid_periph_start
  <1>2. CASE SendEnqueue \/ SendEnqueueAgain \/ SendEvict \/ SendExchange
    <2>1. Requested'
      BY <1>2 DEF SendEnqueue, SendEnqueueAgain, SendEvict, SendExchange
    <2> QED
      BY <2>1
  <1>3. CASE SendCheckHandle \/ SendCheckEncrypted \/ SendRegister
    <2>1. report_queue' = report_queue /\ (Requested => Requested')
      BY <1>3 DEF SendCheckHandle, SendCheckEncrypted, SendRegister
    <2> QED
      BY <2>1
  <1> QED
    BY <1>1, <1>2, <1>3 DEF Core0, ble_hid_periph_send_raw_report

LEMMA WakeCore1 ==
    ASSUME EmitDuringRequest = FALSE, TypeInv, ConnInv, WakeInv, Core1 PROVE WakeInv'
  <1> QueueTypes /\ ControlTypes /\ LinkInv
    BY DEF TypeInv, TypeOK, ConnInv
  <1>1. CASE ClearPending
    BY <1>1 DEF ClearPending, WakeInv, shared, channel
  <1>2. CASE Peek
    BY <1>2 DEF Peek, core0, shared, channel, WakeInv, Requested
  <1>3. CASE Notify
    BY <1>3 DEF Notify, core0, shared, WakeInv, Requested
  <1>4. CASE ConnFlush
    BY <1>4 DEF ConnFlush, EmptyQueue, queue_try_remove, core0, shared, channel, WakeInv, Requested
  <1>5. CASE ConnHandle \/ ConnEncrypted
    BY <1>5 DEF ConnHandle, ConnEncrypted, core0, channel, WakeInv, Requested
  <1>6. CASE RunSendRequest \/ RequestCanSend \/ CanSendNow \/ Remove
    BY <1>6
       DEF RunSendRequest, RequestCanSend, CanSendNow, Remove, core0, shared, channel, WakeInv
  <1>7. CASE Disconnection \/ DiscEncrypted \/ DiscFlush \/ Advertise
    BY <1>7
       DEF Disconnection, DiscEncrypted, DiscFlush, EmptyQueue, Advertise, LinkInv, WakeInv,
           core0, shared
  <1>8. CASE \/ RunSetup \/ CompletedPackets \/ StackWorking \/ ConnectionComplete
             \/ EncryptionChange \/ EncryptionFailed \/ sm_packet_handler
    <2>1. /\ UNCHANGED <<core0, caller, con_handle, can_send_requested, report_queue>>
          /\ send_request_pending' = send_request_pending
          /\ pc1' = pc1 \/ pc1' \in {"Advertise", "ConnFlush"}
      BY <1>8
         DEF RunSetup, CompletedPackets, StackWorking, ConnectionComplete, EncryptionChange,
             EncryptionFailed, sm_packet_handler, PairingConfirm, PairingComplete,
             core1, shared, channel
    <2> QED
      BY <2>1 DEF WakeInv, Requested, core0
  <1> QED
    BY <1>1, <1>2, <1>3, <1>4, <1>5, <1>6, <1>7, <1>8
       DEF Core1, request_can_send_now_on_btstack_thread, typing_can_send_now, hci_packet_handler

\* When BTstack defers CAN_SEND_NOW, no report a host could get is left waiting
\* without an event, a request, or Core 0 on its way to one.
THEOREM NothingStranded ==
    ASSUME EmitDuringRequest = FALSE PROVE Spec => []NoStrandedReport
  <1>1. Init => WakeInv
    BY DEF Init, WakeInv
  <1>2. TypeInv /\ ConnInv /\ WakeInv /\ [Next]_vars => WakeInv'
    <2> SUFFICES ASSUME TypeInv, ConnInv, WakeInv, [Next]_vars PROVE WakeInv'
      OBVIOUS
    <2>1. CASE UNCHANGED vars
      BY <2>1 DEF vars, core0, core1, shared, channel, WakeInv, Requested
    <2> QED
      BY <2>1, WakeCore0, WakeCore1 DEF Next
  <1>3. WakeInv => NoStrandedReport
    BY DEF WakeInv, Requested, NoStrandedReport
  <1> QED
    BY ConnInvariant, <1>1, <1>2, <1>3, PTL DEF Spec

-----------------------------------------------------------------------------
\* AtMostOneStale made inductive: the flush of a new connection leaves at most the report
\* Core 0 holds, or what became of it, and every later report is read under the connection.
StaleInv ==
    /\ pc1 \in {"ConnFlush", "ConnHandle"} => con_handle = Invalid
    /\ pc1 = "ConnHandle" =>
         /\ \A i, j \in DOMAIN report_queue : i = j
         /\ Holding => report_queue = <<>>
    /\ con_handle # Invalid =>
         /\ \A i, j \in DOMAIN report_queue : Stale(report_queue[i]) /\ Stale(report_queue[j]) => i = j
         /\ Holding /\ Stale(item0) => \A i \in DOMAIN report_queue : ~Stale(report_queue[i])

\* A step that at most takes the head off the queue and gives Core 0 no report to hold.
LEMMA StaleFewer ==
    ASSUME TypeInv, StaleInv, report_queue' = report_queue \/ queue_try_remove,
           Holding' => Holding, UNCHANGED <<item0, connections>>,
           con_handle' \in {con_handle, Invalid},
           pc1' # "ConnHandle" \/ pc1' = pc1, pc1' = "ConnFlush" => con_handle' = Invalid
    PROVE  StaleInv'
  <1> QueueTypes
    BY DEF TypeInv, TypeOK
  <1>1. pc1' \in {"ConnFlush", "ConnHandle"} => con_handle' = Invalid
    BY DEF StaleInv
  <1>2. CASE report_queue' = report_queue
    BY <1>1, <1>2 DEF StaleInv, Stale
  <1>3. CASE queue_try_remove
    <2>1. \A i \in DOMAIN report_queue' :
            /\ i \in Nat \ {0} /\ i + 1 \in DOMAIN report_queue
            /\ report_queue'[i] = report_queue[i + 1]
      BY <1>3, RemovedElements
    <2>2. report_queue = <<>> => report_queue' = <<>>
      BY <1>3 DEF queue_try_remove
    <2>3. pc1' = "ConnHandle" =>
            /\ \A i, j \in DOMAIN report_queue' : i = j
            /\ Holding' => report_queue' = <<>>
      BY <2>1, <2>2 DEF StaleInv
    <2>4. ASSUME con_handle' # Invalid
          PROVE  /\ \A i, j \in DOMAIN report_queue' :
                      Stale(report_queue[i])' /\ Stale(report_queue[j])' => i = j
                 /\ Holding' /\ Stale(item0)' => \A i \in DOMAIN report_queue' : ~Stale(report_queue[i])'
      <3>1. con_handle # Invalid
        BY <2>4
      <3>2. ASSUME NEW i \in DOMAIN report_queue', NEW j \in DOMAIN report_queue',
                   Stale(report_queue[i])', Stale(report_queue[j])'
            PROVE  i = j
        <4>1. i + 1 = j + 1
          BY <2>1, <3>1, <3>2 DEF StaleInv, Stale
        <4> QED
          BY <2>1, <4>1
      <3>3. ASSUME Holding', Stale(item0)', NEW i \in DOMAIN report_queue' PROVE ~Stale(report_queue[i])'
        BY <2>1, <3>1, <3>3 DEF StaleInv, Stale
      <3> QED
        BY <3>2, <3>3
    <2> QED
      BY <1>1, <2>3, <2>4 DEF StaleInv, Stale
  <1> QED
    BY <1>2, <1>3

LEMMA StaleCore0 == ASSUME TypeInv, StaleInv, Core0 PROVE StaleInv'
  <1> QueueTypes /\ HandOK
    BY DEF TypeInv, TypeOK
  <1>1. UNCHANGED <<pc1, con_handle, connections>>
    BY FrameCore0 DEF core1, shared
  <1>2. CASE ble_hid_periph_start
    BY <1>1, <1>2 DEF ble_hid_periph_start, core0, StaleInv, Holding
  <1>3. CASE SendCheckHandle
    <2>1. report_queue' = report_queue
      BY <1>3 DEF SendCheckHandle
    <2>2. Holding' => con_handle # Invalid /\ item0'.conn = connections
      BY <1>3 DEF SendCheckHandle, Holding
    <2> QED
      BY <1>1, <2>1, <2>2 DEF StaleInv, Stale
  <1>4. CASE SendEnqueue \/ SendEnqueueAgain
    <2>1. item0 \in Item /\ queue_try_add(item0) /\ Holding /\ item0' = item0
      BY <1>4 DEF SendEnqueue, SendEnqueueAgain, HandOK, Holding
    <2>2. ~Holding' \/ report_queue' = report_queue
      BY <1>4 DEF SendEnqueue, SendEnqueueAgain, queue_try_add, Holding
    <2>3. \A i \in DOMAIN report_queue' :
            /\ i \in Nat \ {0}
            /\ \/ i \in DOMAIN report_queue /\ report_queue'[i] = report_queue[i]
               \/ i = Len(report_queue) + 1 /\ report_queue'[i] = item0
      BY <2>1, AddedElements
    <2>4. ASSUME pc1 = "ConnHandle" PROVE \A i, j \in DOMAIN report_queue' : i = j
      <3>1. DOMAIN report_queue = {}
        BY <2>1, <2>4 DEF StaleInv
      <3> QED
        BY <2>3, <3>1
    <2>5. ASSUME con_handle # Invalid, NEW i \in DOMAIN report_queue', NEW j \in DOMAIN report_queue',
                 Stale(report_queue'[i]), Stale(report_queue'[j])
          PROVE  i = j
      BY <2>1, <2>3, <2>5 DEF StaleInv
    <2>6. ASSUME Holding', con_handle # Invalid, Stale(item0)
          PROVE  \A i \in DOMAIN report_queue' : ~Stale(report_queue'[i])
      BY <2>1, <2>2, <2>6 DEF StaleInv
    <2>7. pc1 = "ConnHandle" /\ Holding' => report_queue' = <<>>
      BY <2>1, <2>2 DEF StaleInv
    <2>8. pc1 \in {"ConnFlush", "ConnHandle"} => con_handle = Invalid
      BY DEF StaleInv
    <2> QED
      BY <1>1, <2>1, <2>4, <2>5, <2>6, <2>7, <2>8 DEF StaleInv, Stale
  <1>5. CASE SendEvict \/ SendCheckEncrypted \/ SendExchange \/ SendRegister
    <2>1. /\ report_queue' = report_queue \/ queue_try_remove
          /\ Holding' => Holding
          /\ item0' = item0
      BY <1>5 DEF SendEvict, SendCheckEncrypted, SendExchange, SendRegister, Holding
    <2>2. pc1' = "ConnFlush" => con_handle' = Invalid
      BY <1>1 DEF StaleInv
    <2> QED
      BY <1>1, <2>1, <2>2, StaleFewer
  <1> QED
    BY <1>2, <1>3, <1>4, <1>5 DEF Core0, ble_hid_periph_send_raw_report

LEMMA StaleCore1 == ASSUME TypeInv, LinkInv, StaleInv, Core1 PROVE StaleInv'
  <1> QueueTypes /\ ControlTypes
    BY DEF TypeInv, TypeOK
  <1>1. CASE ConnFlush
    <2>1. /\ pc1 = "ConnFlush" /\ con_handle = Invalid /\ queue_try_remove
          /\ pc1' = IF report_queue = <<>> THEN "ConnHandle" ELSE pc1
          /\ UNCHANGED <<core0, con_handle, connections>>
      BY <1>1 DEF ConnFlush, EmptyQueue, StaleInv, shared, history
    <2>2. pc1' = "ConnHandle" => report_queue' = <<>>
      BY <2>1 DEF queue_try_remove
    <2> QED
      BY <2>1, <2>2 DEF StaleInv
  <1>2. CASE ConnHandle
    <2>1. /\ pc1 = "ConnHandle" /\ pc1' = "ConnEncrypted"
          /\ UNCHANGED <<core0, report_queue>>
      BY <1>2 DEF ConnHandle
    <2> QED
      BY <2>1 DEF StaleInv, Holding, core0
  <1>3. CASE ConnectionComplete
    <2>1. con_handle = Invalid /\ con_handle' = con_handle
      BY <1>3 DEF ConnectionComplete, LinkInv, shared
    <2>2. /\ pc1' \in {"ConnFlush", "Advertise"}
          /\ UNCHANGED <<core0, report_queue, connections>>
      BY <1>3 DEF ConnectionComplete, history
    <2> QED
      BY <2>1, <2>2, StaleFewer DEF core0, Holding
  <1>4. CASE Core1 /\ ~ConnFlush /\ ~ConnHandle /\ ~ConnectionComplete
    <2>1. report_queue' = report_queue \/ queue_try_remove
      BY <1>4
         DEF Core1, RunSetup, RunSendRequest, request_can_send_now_on_btstack_thread,
             RequestCanSend, ClearPending, CanSendNow, typing_can_send_now, Peek, Notify,
             Remove, CompletedPackets, hci_packet_handler, StackWorking, Advertise,
             Disconnection, DiscEncrypted, DiscFlush, EmptyQueue, ConnEncrypted,
             EncryptionChange, EncryptionFailed, sm_packet_handler, PairingConfirm,
             PairingComplete
    <2>2. UNCHANGED <<core0, connections>> /\ con_handle' \in {con_handle, Invalid}
      BY <1>4
         DEF Core1, RunSetup, RunSendRequest, request_can_send_now_on_btstack_thread,
             RequestCanSend, ClearPending, CanSendNow, typing_can_send_now, Peek, Notify,
             Remove, CompletedPackets, hci_packet_handler, StackWorking, Advertise,
             Disconnection, DiscEncrypted, DiscFlush, EmptyQueue, ConnEncrypted,
             EncryptionChange, EncryptionFailed, sm_packet_handler, PairingConfirm,
             PairingComplete, shared, history
    <2>3. pc1' \notin {"ConnHandle", "ConnFlush"} \/ (pc1' = pc1 /\ con_handle' = con_handle)
      BY <1>4
         DEF Core1, RunSetup, RunSendRequest, request_can_send_now_on_btstack_thread,
             RequestCanSend, ClearPending, CanSendNow, typing_can_send_now, Peek, Notify,
             Remove, CompletedPackets, hci_packet_handler, StackWorking, Advertise,
             Disconnection, DiscEncrypted, DiscFlush, EmptyQueue, ConnEncrypted,
             EncryptionChange, EncryptionFailed, sm_packet_handler, PairingConfirm,
             PairingComplete, core1, shared, ControlTypes
    <2>4. pc1' = "ConnFlush" => con_handle' = Invalid
      BY <2>3 DEF StaleInv
    <2> QED
      BY <2>1, <2>2, <2>3, <2>4, StaleFewer DEF core0, Holding
  <1> QED
    BY <1>1, <1>2, <1>3, <1>4

\* A set no two members of which differ has one at most.
LEMMA OneAtMost == ASSUME NEW S, \A i, j \in S : i = j PROVE Cardinality(S) <= 1
  <1>1. CASE S = {}
    BY <1>1, FS_EmptySet
  <1>2. ASSUME NEW i, S = {i} PROVE Cardinality(S) = 1
    BY <1>2, FS_Singleton
  <1>3. S = {} \/ \E i : S = {i}
    OBVIOUS
  <1> QED
    BY <1>1, <1>2, <1>3

\* However the link comes and goes while Core 0 works on a report, a connection finds at
\* most one report of an earlier one in the queue, in queues of every size.
\* (the flush loops of hci_packet_handler against ble_hid_periph_send_raw_report)
THEOREM OneStaleAtMost == Spec => []AtMostOneStale
  <1>1. Init => StaleInv
    BY DEF Init, StaleInv
  <1>2. TypeInv /\ ConnInv /\ StaleInv /\ [Next]_vars => StaleInv'
    <2> SUFFICES ASSUME TypeInv, ConnInv, StaleInv, [Next]_vars PROVE StaleInv'
      OBVIOUS
    <2>1. CASE UNCHANGED vars
      BY <2>1 DEF vars, core0, core1, shared, history, StaleInv, Stale, Holding
    <2> QED
      BY <2>1, StaleCore0, StaleCore1 DEF Next, ConnInv
  <1>3. StaleInv => AtMostOneStale
    BY OneAtMost DEF StaleInv, AtMostOneStale
  <1> QED
    BY ConnInvariant, <1>1, <1>2, <1>3, PTL DEF Spec

-----------------------------------------------------------------------------
(***************************************************************************)
(* The two cores implement ReportChannel.                                  *)
(***************************************************************************)
\* What the refinement rests on besides the order of the reports: Core 1 sends only over a
\* connection; the report it has peeked is at the head of the queue unless Core 0 has evicted
\* under it, and is the only one of its number; whether it was notified or skipped is known
\* when it is removed.
ChannelInv ==
    /\ ~ble_initialized => report_queue = <<>>
    /\ can_send_requested \/ pc1 \in {"Peek", "Notify", "Remove"} => con_handle # Invalid
    /\ pc1 = "Notify" => Mapped(item1)
    /\ pc1 = "Remove" /\ item1.seq # last_sent => ~Mapped(item1)
    /\ pc1 \in {"Notify", "Remove"} =>
         /\ ~evicted_under_send => report_queue # <<>> /\ report_queue[1] = item1
         /\ \A i \in DOMAIN report_queue : report_queue[i].seq = item1.seq => report_queue[i] = item1


LEMMA ChannelCore0 == ASSUME TypeInv, OrderInv, SetupInv, ChannelInv, Core0 PROVE ChannelInv'
  <1> QueueTypes /\ NumberTypes /\ HandOK
    BY DEF TypeInv, TypeOK
  <1>1. UNCHANGED <<pc1, item1, con_handle, can_send_requested, last_sent>>
    BY FrameCore0 DEF core1, shared, channel
  <1>2. CASE ble_hid_periph_start
    BY <1>1, <1>2 DEF ble_hid_periph_start, history, ChannelInv
  <1>3. CASE SendEnqueue \/ SendEnqueueAgain
    <2>1. /\ item0 \in Item /\ queue_try_add(item0) /\ Holding /\ pc0 # "Idle"
          /\ UNCHANGED <<ble_initialized, evicted_under_send>>
      BY <1>3 DEF SendEnqueue, SendEnqueueAgain, HandOK, Holding, history
    <2>2. ble_initialized'
      BY <2>1 DEF SetupInv
    <2>3. report_queue # <<>> => report_queue' # <<>> /\ report_queue'[1] = report_queue[1]
      BY <2>1 DEF queue_try_add, QueueTypes
    <2>4. ASSUME pc1 \in {"Notify", "Remove"}, NEW i \in DOMAIN report_queue', report_queue'[i].seq = item1.seq
          PROVE  report_queue'[i] = item1
      <3>1. item1.seq < item0.seq
        BY <2>1, <2>4 DEF OrderInv, HandOrder
      <3>2. item1.seq \in Nat /\ item0.seq \in Nat
        BY <2>1, <2>4, QueueAssumption DEF HandOK, Item
      <3>3. i \in DOMAIN report_queue /\ report_queue'[i] = report_queue[i]
        BY <2>1, <2>4, <3>1, <3>2, AddedElements
      <3> QED
        BY <2>4, <3>3 DEF ChannelInv
    <2> QED
      BY <1>1, <2>1, <2>2, <2>3, <2>4 DEF ChannelInv
  <1>4. CASE SendEvict
    <2>1. /\ queue_try_remove /\ pc0 # "Idle" /\ ble_initialized' = ble_initialized
          /\ pc1 \in {"Notify", "Remove"} => evicted_under_send'
      BY <1>4 DEF SendEvict
    <2>2. ble_initialized
      BY <2>1 DEF SetupInv
    <2> QED
      BY <1>1, <2>1, <2>2, RemovedElements DEF ChannelInv
  <1>5. CASE SendCheckHandle \/ SendCheckEncrypted \/ SendExchange \/ SendRegister
    <2>1. UNCHANGED <<ble_initialized, report_queue, evicted_under_send>>
      BY <1>5 DEF SendCheckHandle, SendCheckEncrypted, SendExchange, SendRegister, history
    <2> QED
      BY <1>1, <2>1 DEF ChannelInv
  <1> QED
    BY <1>2, <1>3, <1>4, <1>5 DEF Core0, ble_hid_periph_send_raw_report

\* A step of Core 1 outside typing_can_send_now.
LEMMA ChannelQuiet ==
    ASSUME ChannelInv, pc1' \notin {"Peek", "Notify", "Remove"}, ble_initialized' = ble_initialized,
           report_queue' = report_queue \/ queue_try_remove,
           can_send_requested' => con_handle' # Invalid
    PROVE  ChannelInv'
  BY DEF ChannelInv, queue_try_remove

LEMMA ChannelCore1 == ASSUME TypeInv, OrderInv, LinkInv, ChannelInv, Core1 PROVE ChannelInv'
  <1> QueueTypes /\ NumberTypes /\ ControlTypes /\ HandOK
    BY DEF TypeInv, TypeOK
  <1>1. CASE Peek
    <2>1. UNCHANGED <<ble_initialized, report_queue, con_handle, can_send_requested>> /\ pc1 = "Peek"
      BY <1>1 DEF Peek, shared, channel
    <2>2. con_handle # Invalid
      BY <2>1 DEF ChannelInv
    <2>3. CASE report_queue = <<>>
      <3>1. pc1' \in {"Idle", "ClearPending"}
        BY <1>1, <2>3 DEF Peek, ControlTypes
      <3> QED
        BY <2>1, <2>2, <3>1, ChannelQuiet
    <2>4. CASE report_queue # <<>>
      <3>1. item1' = report_queue[1] /\ 1 \in DOMAIN report_queue
        BY <1>1, <2>4 DEF Peek, QueueTypes
      <3>2. pc1' = IF Mapped(item1') THEN "Notify" ELSE "Remove"
        BY <1>1, <2>4 DEF Peek
      <3>3. ASSUME NEW i \in DOMAIN report_queue, report_queue[i].seq = item1'.seq
            PROVE  report_queue[i] = item1'
        <4>1. i \in Nat \ {0} /\ report_queue[i].seq \in Nat
          BY Elements
        <4>2. i = 1 \/ 1 < i
          BY <4>1
        <4>3. 1 < i => report_queue[1].seq < report_queue[i].seq
          BY <3>1 DEF OrderInv, QueueOrder
        <4> QED
          BY <3>1, <3>3, <4>1, <4>2, <4>3
      <3>4. Mapped(item1)' <=> Mapped(item1')
        BY DEF Mapped
      <3> QED
        BY <2>1, <2>2, <2>4, <3>1, <3>2, <3>3, <3>4 DEF ChannelInv
    <2> QED
      BY <2>3, <2>4
  <1>2. CASE Notify
    <2>1. /\ pc1 = "Notify" /\ UNCHANGED <<item1, ble_initialized, report_queue, con_handle>>
          /\ \/ pc1' = "Remove" /\ last_sent' = item1.seq /\ UNCHANGED <<can_send_requested, evicted_under_send>>
             \/ pc1' \in {"Idle", "ClearPending"}
      BY <1>2 DEF Notify, shared, ControlTypes
    <2>2. con_handle' # Invalid
      BY <2>1 DEF ChannelInv
    <2>3. CASE pc1' = "Remove"
      BY <2>1, <2>2, <2>3 DEF ChannelInv
    <2>4. CASE pc1' \in {"Idle", "ClearPending"}
      BY <2>1, <2>2, <2>4, ChannelQuiet
    <2> QED
      BY <2>1, <2>3, <2>4
  <1>3. CASE Remove
    <2>1. /\ pc1 = "Remove" /\ pc1' = "Peek" /\ queue_try_remove
          /\ UNCHANGED <<ble_initialized, con_handle>>
      BY <1>3 DEF Remove, shared
    <2> QED
      BY <2>1 DEF ChannelInv, queue_try_remove
  <1>4. CASE CanSendNow \/ RequestCanSend
    <2>1. /\ UNCHANGED <<ble_initialized, report_queue, con_handle>>
          /\ pc1' \in {"Peek", "ClearPending"}
          /\ can_send_requested' \/ pc1' = "Peek" => con_handle # Invalid
      BY <1>4 DEF CanSendNow, RequestCanSend, shared, ChannelInv
    <2> QED
      BY <2>1 DEF ChannelInv
  <1>5. CASE Disconnection \/ ConnHandle
    <2>1. /\ ble_initialized' = ble_initialized /\ report_queue' = report_queue
          /\ pc1' \in {"DiscEncrypted", "ConnEncrypted"}
          /\ can_send_requested' => con_handle' # Invalid
      BY <1>5, NameAssumption DEF Disconnection, ConnHandle, channel
    <2> QED
      BY <2>1, ChannelQuiet
  <1>6. CASE \/ RunSetup \/ RunSendRequest \/ ClearPending \/ CompletedPackets \/ StackWorking
             \/ Advertise \/ DiscEncrypted \/ DiscFlush \/ ConnectionComplete \/ ConnFlush
             \/ ConnEncrypted \/ EncryptionChange \/ EncryptionFailed \/ sm_packet_handler
    <2>1. pc1' \notin {"Peek", "Notify", "Remove"}
      BY <1>6
         DEF RunSetup, RunSendRequest, ClearPending, CompletedPackets, StackWorking, Advertise,
             DiscEncrypted, DiscFlush, EmptyQueue, ConnectionComplete, ConnFlush, ConnEncrypted,
             EncryptionChange, EncryptionFailed, sm_packet_handler, PairingConfirm,
             PairingComplete, core1
    <2>2. /\ UNCHANGED <<ble_initialized, con_handle, can_send_requested>>
          /\ report_queue' = report_queue \/ queue_try_remove
      BY <1>6
         DEF RunSetup, RunSendRequest, ClearPending, CompletedPackets, StackWorking, Advertise,
             DiscEncrypted, DiscFlush, EmptyQueue, ConnectionComplete, ConnFlush, ConnEncrypted,
             EncryptionChange, EncryptionFailed, sm_packet_handler, PairingConfirm,
             PairingComplete, shared, channel
    <2>3. can_send_requested' => con_handle' # Invalid
      BY <2>2 DEF ChannelInv
    <2> QED
      BY <2>1, <2>2, <2>3, ChannelQuiet
  <1> QED
    BY <1>1, <1>2, <1>3, <1>4, <1>5, <1>6
       DEF Core1, request_can_send_now_on_btstack_thread, typing_can_send_now, hci_packet_handler


\* The strengthening all steps of the refinement use.
RefInv == TypeInv /\ OrderInv /\ ConnInv /\ SetupInv /\ StaleInv /\ ChannelInv /\ RoomAfterEvict

LEMMA RefInvariant == Spec => []RefInv
  <1>1. Init => StaleInv /\ ChannelInv
    BY DEF Init, StaleInv, ChannelInv
  <1>2. TypeInv /\ OrderInv /\ ConnInv /\ SetupInv /\ StaleInv /\ ChannelInv /\ [Next]_vars
          => StaleInv' /\ ChannelInv'
    <2> SUFFICES ASSUME TypeInv, OrderInv, ConnInv, SetupInv, StaleInv, ChannelInv, [Next]_vars
                 PROVE  StaleInv' /\ ChannelInv'
      OBVIOUS
    <2>1. CASE UNCHANGED vars
      BY <2>1 DEF vars, core0, core1, shared, channel, history, StaleInv, ChannelInv, Stale, Holding
    <2> QED
      BY <2>1, StaleCore0, StaleCore1, ChannelCore0, ChannelCore1 DEF Next, ConnInv
  <1> QED
    BY OrderInvariant, ConnInvariant, RoomForTheNewest, <1>1, <1>2, PTL DEF Spec, RefInv

\* What of a report the channel sees, and the reports that have not left the bridge.
Wait(r) == [seq |-> r.seq, mapped |-> Mapped(r)]
Held == {report_queue[i] : i \in DOMAIN report_queue}
        \cup (IF Sending THEN {item0} ELSE {})
        \cup (IF pc1 = "Notify" THEN {item1} ELSE {})

LEMMA WaitingHeld == \A w : w \in Waiting <=> \E h \in Held : h.seq > last_sent /\ w = Wait(h)
  BY DEF Waiting, Held, Wait

LEMMA WaitingHeldNext ==
    \A w : w \in Waiting' <=> \E h \in Held' : h.seq > last_sent' /\ w = Wait(h)
  BY DEF Waiting, Held, Wait, Mapped

\* No two reports in the bridge have the same number.
LEMMA HeldDistinct ==
    ASSUME TypeInv, OrderInv, ChannelInv
    PROVE  /\ Held \subseteq Item
           /\ \A g, h \in Held : g.seq = h.seq => g = h
  <1> QueueTypes /\ HandOK /\ NumberTypes
    BY DEF TypeInv, TypeOK
  <1>1. \A i \in DOMAIN report_queue : report_queue[i] \in Item /\ report_queue[i].seq \in Nat
    BY Elements
  <1>2. Sending => item0 \in Item /\ item0.seq \in Nat
    BY QueueAssumption DEF Sending, HandOK, Item
  <1>3. pc1 = "Notify" => item1 \in Item /\ item1.seq \in Nat
    BY QueueAssumption DEF HandOK, Item
  <1>4. Held \subseteq Item
    BY <1>1, <1>2, <1>3 DEF Held
  <1>5. \A i, j \in DOMAIN report_queue : report_queue[i].seq = report_queue[j].seq => i = j
    <2> SUFFICES ASSUME NEW i \in DOMAIN report_queue, NEW j \in DOMAIN report_queue,
                        report_queue[i].seq = report_queue[j].seq
                 PROVE  i = j
      OBVIOUS
    <2>1. i \in Nat /\ j \in Nat
      BY Elements
    <2>2. ~(i < j) /\ ~(j < i)
      BY <1>1 DEF OrderInv, QueueOrder
    <2> QED
      BY <2>1, <2>2
  <1>6. Sending => \A i \in DOMAIN report_queue : report_queue[i].seq # item0.seq
    BY <1>1, <1>2 DEF OrderInv, QueueOrder, HandOrder, Holding, Sending
  <1>7. pc1 = "Notify" => \A i \in DOMAIN report_queue : report_queue[i].seq = item1.seq => report_queue[i] = item1
    BY DEF ChannelInv
  <1>8. pc1 = "Notify" /\ Sending => item1.seq # item0.seq
    BY <1>2, <1>3 DEF OrderInv, HandOrder, Holding, Sending
  <1>9. ASSUME NEW g \in Held, NEW h \in Held, g.seq = h.seq PROVE g = h
    BY <1>5, <1>6, <1>7, <1>8, <1>9 DEF Held
  <1> QED
    BY <1>4, <1>9

\* A report that waits is one of the channel's, and no two of those have the same number.
LEMMA WaitingTypes ==
    ASSUME TypeInv, OrderInv, ChannelInv
    PROVE  /\ Waiting \subseteq Channel!Report
           /\ \A v, w \in Waiting : v.seq = w.seq => v = w
  <1>1. \A h \in Held : Wait(h) \in Channel!Report /\ Wait(h).seq = h.seq
    BY HeldDistinct DEF Wait, Mapped, Channel!Report, Item
  <1>2. ASSUME NEW v \in Waiting, NEW w \in Waiting, v.seq = w.seq PROVE v = w
    <2>1. PICK g \in Held : v = Wait(g)
      BY WaitingHeld
    <2>2. PICK h \in Held : w = Wait(h)
      BY WaitingHeld
    <2>3. g = h
      BY <1>1, <1>2, <2>1, <2>2, HeldDistinct
    <2> QED
      BY <2>1, <2>2, <2>3
  <1> QED
    BY <1>1, <1>2, WaitingHeld

\* How the reports that wait follow the reports held.
LEMMA WaitingSame == ASSUME Held' = Held, last_sent' = last_sent PROVE Waiting' = Waiting
  BY WaitingHeld, WaitingHeldNext

LEMMA WaitingLess ==
    ASSUME TypeInv, OrderInv, ChannelInv, last_sent' = last_sent,
           NEW r \in Held, Held' = Held \ {r}
    PROVE  \/ Waiting' = Waiting
           \/ Wait(r) \in Waiting /\ Waiting' = Waiting \ {Wait(r)} /\ r.seq > last_sent
  <1>1. CASE ~(r.seq > last_sent)
    BY <1>1, WaitingHeld, WaitingHeldNext
  <1>2. CASE r.seq > last_sent
    <2>1. \A h \in Held : Wait(h) = Wait(r) => h = r
      BY HeldDistinct DEF Wait
    <2>2. Wait(r) \in Waiting
      BY <1>2, WaitingHeld
    <2>3. Waiting' = Waiting \ {Wait(r)}
      BY <2>1, WaitingHeld, WaitingHeldNext
    <2> QED
      BY <1>2, <2>2, <2>3
  <1> QED
    BY <1>1, <1>2

\* Where queue_try_remove takes a report from the bridge: not while typing_can_send_now holds it.
LEMMA RemovedHeld ==
    ASSUME TypeInv, OrderInv, ChannelInv, queue_try_remove, UNCHANGED <<item0, item1>>,
           Sending' <=> Sending, pc1' = "Notify" <=> pc1 = "Notify"
    PROVE  \/ Held' = Held
           \/ /\ report_queue # <<>> /\ report_queue[1] \in Held
              /\ Held' = Held \ {report_queue[1]}
  <1> QueueTypes
    BY DEF TypeInv, TypeOK
  <1>1. CASE report_queue = <<>>
    <2>1. report_queue' = report_queue
      BY <1>1 DEF queue_try_remove
    <2> QED
      BY <2>1 DEF Held
  <1>2. CASE report_queue # <<>>
    <2> DEFINE Q == {report_queue[i] : i \in DOMAIN report_queue}
               R == (IF Sending THEN {item0} ELSE {}) \cup (IF pc1 = "Notify" THEN {item1} ELSE {})
    <2>1. 1 \in DOMAIN report_queue
      BY <1>2 DEF QueueTypes
    <2>2. \A i \in DOMAIN report_queue : i # 1 => i - 1 \in DOMAIN report_queue' /\ report_queue'[i - 1] = report_queue[i]
      BY <1>2 DEF QueueTypes, queue_try_remove
    <2>3. \A i \in DOMAIN report_queue : i # 1 => report_queue[i] # report_queue[1]
      <3> SUFFICES ASSUME NEW i \in DOMAIN report_queue, i # 1 PROVE report_queue[i] # report_queue[1]
        OBVIOUS
      <3>1. 1 < i
        BY Elements
      <3>2. report_queue[1].seq < report_queue[i].seq
        BY <2>1, <3>1 DEF OrderInv, QueueOrder
      <3> QED
        BY <2>1, <3>2, Elements
    <2>4. \A i \in DOMAIN report_queue' :
            i + 1 \in DOMAIN report_queue /\ i + 1 # 1 /\ report_queue'[i] = report_queue[i + 1]
      BY RemovedElements
    <2>5. Q' = Q \ {report_queue[1]}
      <3>1. ASSUME NEW x \in Q' PROVE x \in Q \ {report_queue[1]}
        BY <2>3, <2>4
      <3>2. ASSUME NEW x \in Q \ {report_queue[1]} PROVE x \in Q'
        BY <2>2
      <3> QED
        BY <3>1, <3>2
    <2>6. R' = R
      OBVIOUS
    <2>7. Held = Q \cup R /\ Held' = Q' \cup R'
      BY DEF Held
    <2>8. report_queue[1] \in Held
      BY <2>1 DEF Held
    <2> HIDE DEF Q, R
    <2>9. report_queue[1] \in R => Held' = Held
      <3>1. report_queue[1] \in R => Q \cup R = (Q \ {report_queue[1]}) \cup R
        OBVIOUS
      <3> QED
        BY <2>5, <2>6, <2>7, <3>1
    <2>10. report_queue[1] \notin R => Held' = Held \ {report_queue[1]}
      BY <2>5, <2>6, <2>7
    <2> QED
      BY <1>2, <2>8, <2>9, <2>10
  <1> QED
    BY <1>1, <1>2


\* What the channel sees of the connection and of an overflow.
Up == con_handle # Invalid
Overflow == pc0 \in {"Evict", "EnqueueAgain"} \/ evicted_under_send
ChannelStep == [Channel!Next]_(Channel!vars)

LEMMA StepIdle ==
    ASSUME Waiting' = Waiting, last_sent' = last_sent, Up' <=> Up, Overflow' <=> Overflow
    PROVE  ChannelStep
  <1>1. (con_handle # Invalid)' = (con_handle # Invalid)
    BY DEF Up
  <1>2. (pc0 \in {"Evict", "EnqueueAgain"} \/ evicted_under_send)'
          = (pc0 \in {"Evict", "EnqueueAgain"} \/ evicted_under_send)
    BY DEF Overflow
  <1> QED
    BY <1>1, <1>2 DEF ChannelStep, Channel!vars

LEMMA StepEnd ==
    ASSUME Waiting' = Waiting, last_sent' = last_sent, Up' <=> Up, ~Overflow'
    PROVE  ChannelStep
  <1>1. (con_handle # Invalid)' = (con_handle # Invalid)
    BY DEF Up
  <1>2. (pc0 \in {"Evict", "EnqueueAgain"} \/ evicted_under_send)' = FALSE
    BY DEF Overflow
  <1> QED
    BY <1>1, <1>2 DEF ChannelStep, Channel!Next, Channel!EndOverflow

LEMMA StepGiveUp ==
    ASSUME NEW r \in Waiting, Waiting \subseteq Channel!Report, Waiting' = Waiting \ {r},
           last_sent' = last_sent, Up' <=> Up, Overflow
    PROVE  ChannelStep
  <1>1. (con_handle # Invalid)' = (con_handle # Invalid)
    BY DEF Up
  <1>2. (pc0 \in {"Evict", "EnqueueAgain"} \/ evicted_under_send)' \in BOOLEAN
    OBVIOUS
  <1>3. Channel!GiveUp(r)
    BY <1>1, <1>2 DEF Channel!GiveUp, Overflow
  <1> QED
    BY <1>3 DEF ChannelStep, Channel!Next

LEMMA StepAbandon ==
    ASSUME NEW r \in Waiting, Waiting \subseteq Channel!Report, Waiting' = Waiting \ {r},
           last_sent' = last_sent, ~Up, ~Up', Overflow' <=> Overflow
    PROVE  ChannelStep
  <1>1. (con_handle # Invalid)' = (con_handle # Invalid) /\ ~(con_handle # Invalid)
    BY DEF Up
  <1>2. (pc0 \in {"Evict", "EnqueueAgain"} \/ evicted_under_send)'
          = (pc0 \in {"Evict", "EnqueueAgain"} \/ evicted_under_send)
    BY DEF Overflow
  <1>3. Channel!Abandon(r)
    BY <1>1, <1>2 DEF Channel!Abandon
  <1> QED
    BY <1>3 DEF ChannelStep, Channel!Next

LEMMA StepConnection ==
    ASSUME Waiting' = Waiting, last_sent' = last_sent, Overflow' <=> Overflow
    PROVE  ChannelStep
  <1>1. CASE Up' <=> Up
    BY <1>1, StepIdle
  <1>2. CASE ~(Up' <=> Up)
    <2>1. (con_handle # Invalid)' = ~(con_handle # Invalid)
      BY <1>2 DEF Up
    <2>2. (pc0 \in {"Evict", "EnqueueAgain"} \/ evicted_under_send)'
            = (pc0 \in {"Evict", "EnqueueAgain"} \/ evicted_under_send)
      BY DEF Overflow
    <2> QED
      BY <2>1, <2>2 DEF ChannelStep, Channel!Next, Channel!ConnectionChange
  <1> QED
    BY <1>1, <1>2


\* The reports that wait have different numbers, so they are finitely many.
LEMMA WaitingFinite == ASSUME TypeInv, OrderInv, ChannelInv PROVE IsFiniteSet(Waiting)
  <1> DEFINE f == [w \in Waiting |-> w.seq]
  <1>1. \A w \in Waiting : w.seq \in 1..MaxReports
    BY WaitingTypes DEF Channel!Report
  <1>2. f \in Injection(Waiting, 1..MaxReports)
    BY <1>1, WaitingTypes DEF Injection, IsInjective
  <1>3. IsFiniteSet(1..MaxReports)
    BY QueueAssumption, FS_Interval
  <1> QED
    BY <1>2, <1>3, FS_Injection

\* With the queue full, Core 0 holding one more report, the channel is full: at most the head
\* of the queue has been delivered.
LEMMA FullChannel ==
    ASSUME TypeInv, OrderInv, ChannelInv, Full, Sending
    PROVE  Cardinality(Waiting) >= QueueSize
  <1> QueueTypes /\ NumberTypes /\ HandOK
    BY DEF TypeInv, TypeOK
  <1> DEFINE r(i) == IF i < QueueSize THEN report_queue[i + 1] ELSE item0
             f == [i \in 1..QueueSize |-> Wait(r(i))]
  <1>1. QueueSize \in Nat \ {0} /\ Len(report_queue) = QueueSize
    BY QueueAssumption DEF Full
  <1>2. \A i \in DOMAIN report_queue : i \in 1..QueueSize /\ report_queue[i].seq \in Nat
    BY <1>1, Elements
  <1>3. \A i \in 1..QueueSize : i \in DOMAIN report_queue
    BY <1>1 DEF QueueTypes
  <1>4. item0.seq \in Nat /\ item0.seq = received /\ last_sent < received /\ received \in Nat /\ last_sent \in Nat
    BY QueueAssumption DEF Sending, HandOK, Item, OrderInv, HandOrder, Holding, NumberTypes
  <1>5. ASSUME NEW i \in 1..QueueSize
        PROVE  r(i) \in Held /\ r(i).seq > last_sent /\ (i < QueueSize => r(i).seq < item0.seq)
    <2>1. CASE i < QueueSize
      <3>1. i + 1 \in DOMAIN report_queue /\ 1 \in DOMAIN report_queue /\ 1 < i + 1
        BY <1>1, <1>3, <2>1
      <3>2. report_queue[1].seq < report_queue[i + 1].seq /\ report_queue[1].seq >= last_sent
        BY <3>1 DEF OrderInv, QueueOrder
      <3>3. report_queue[i + 1].seq < received
        BY <3>1 DEF OrderInv, QueueOrder, Holding, Sending
      <3>4. report_queue[1].seq \in Nat /\ report_queue[i + 1].seq \in Nat
        BY <1>2, <3>1
      <3>5. report_queue[i + 1] \in Held
        BY <3>1 DEF Held
      <3> QED
        BY <1>4, <2>1, <3>2, <3>3, <3>4, <3>5
    <2>2. CASE ~(i < QueueSize)
      BY <1>4, <2>2 DEF Held
    <2> QED
      BY <2>1, <2>2
  <1>6. ASSUME NEW i \in 1..QueueSize, NEW j \in 1..QueueSize, i < j PROVE r(i).seq < r(j).seq
    <2>1. CASE j < QueueSize
      <3>1. i + 1 \in DOMAIN report_queue /\ j + 1 \in DOMAIN report_queue /\ i + 1 < j + 1
        BY <1>1, <1>3, <1>6, <2>1
      <3>2. report_queue[i + 1].seq < report_queue[j + 1].seq
        BY <3>1 DEF OrderInv, QueueOrder
      <3> QED
        BY <1>1, <1>6, <2>1, <3>2
    <2>2. CASE ~(j < QueueSize)
      <3>1. i < QueueSize
        BY <1>1, <1>6, <2>2
      <3> QED
        BY <1>5, <2>2, <3>1
    <2> QED
      BY <2>1, <2>2
  <1>7. \A i \in 1..QueueSize : f[i] \in Waiting /\ f[i].seq = r(i).seq
    BY <1>5, WaitingHeld DEF Wait
  <1>8. \A i, j \in 1..QueueSize : f[i] = f[j] => i = j
    <2> SUFFICES ASSUME NEW i \in 1..QueueSize, NEW j \in 1..QueueSize, f[i] = f[j] PROVE i = j
      OBVIOUS
    <2>1. r(i).seq = r(j).seq
      BY <1>7
    <2>2. r(i).seq \in Nat /\ r(j).seq \in Nat
      BY <1>5, HeldDistinct, QueueAssumption DEF Item
    <2> HIDE DEF r
    <2>3. ~(i < j) /\ ~(j < i)
      BY <1>6, <2>1, <2>2
    <2> QED
      BY <2>3
  <1>9. f \in [1..QueueSize -> Waiting]
    BY <1>7
  <1> HIDE DEF f, r
  <1>10. f \in Injection(1..QueueSize, Waiting)
    BY <1>8, <1>9 DEF Injection, IsInjective
  <1>11. Cardinality(1..QueueSize) <= Cardinality(Waiting) /\ Cardinality(1..QueueSize) = QueueSize
    BY <1>1, <1>10, WaitingFinite, FS_Injection, FS_Interval
  <1>12. Cardinality(Waiting) \in Nat
    BY WaitingFinite, FS_CardinalityType
  <1> QED
    BY <1>1, <1>11, <1>12


LEMMA RefineCore0 == ASSUME RefInv, Core0 PROVE ChannelStep
  <1> TypeInv /\ OrderInv /\ SetupInv /\ ChannelInv /\ RoomAfterEvict
    BY DEF RefInv
  <1> QueueTypes /\ HandOK /\ NumberTypes
    BY DEF TypeInv, TypeOK
  <1>1. UNCHANGED <<pc1, item1, con_handle, last_sent>> /\ (Up' <=> Up)
    BY FrameCore0 DEF core1, shared, Up
  <1>2. CASE ble_hid_periph_start
    <2>1. report_queue' = report_queue /\ UNCHANGED <<pc0, item0, evicted_under_send>>
      BY <1>2 DEF ble_hid_periph_start, core0, history, ChannelInv
    <2>2. Held' = Held /\ (Overflow' <=> Overflow)
      BY <1>1, <2>1 DEF Held, Sending, Overflow
    <2> QED
      BY <1>1, <2>2, WaitingSame, StepIdle
  <1>3. CASE SendCheckHandle
    <2>1. UNCHANGED <<report_queue, evicted_under_send>> /\ ~Sending /\ ~Sending'
      BY <1>3 DEF SendCheckHandle, history, Sending
    <2>2. Held' = Held
      BY <1>1, <2>1 DEF Held
    <2>3. Overflow' <=> Overflow
      BY <1>3 DEF SendCheckHandle, history, Overflow
    <2> QED
      BY <1>1, <2>2, <2>3, WaitingSame, StepIdle
  <1>4. CASE SendCheckEncrypted
    <2>1. /\ pc0 = "CheckEncrypted" /\ pc0' \in {"Enqueue", "Idle"}
          /\ UNCHANGED <<item0, report_queue, evicted_under_send>>
      BY <1>4 DEF SendCheckEncrypted, history
    <2>2. Overflow' <=> Overflow
      BY <2>1 DEF Overflow
    <2>3. CASE pc0' = "Idle"
      <3>1. Held' = Held
        BY <1>1, <2>1, <2>3 DEF Held, Sending
      <3> QED
        BY <1>1, <2>2, <3>1, WaitingSame, StepIdle
    <2>4. CASE pc0' = "Enqueue"
      <3>1. Held' = Held \cup {item0}
        BY <1>1, <2>1, <2>4 DEF Held, Sending
      <3>2. item0 \in Item /\ item0.seq = received /\ last_sent < received
        BY <2>1 DEF HandOK, OrderInv, HandOrder, Holding
      <3>3. item0.seq > last_sent
        BY <3>2 DEF NumberTypes
      <3>4. Waiting' = Waiting \cup {Wait(item0)}
        BY <1>1, <3>1, <3>3, WaitingHeld, WaitingHeldNext
      <3>5. \A h \in Held : h.seq < item0.seq
        BY <2>1, <3>2 DEF Held, Sending, OrderInv, QueueOrder, HandOrder, Holding
      <3>6. Wait(item0) \in Channel!Report /\ Wait(item0).seq = item0.seq
        BY <3>2 DEF Wait, Mapped, Channel!Report, Item
      <3>7. \A s \in Waiting : s.seq < Wait(item0).seq
        BY <3>5, <3>6, WaitingHeld DEF Wait
      <3>8. (con_handle # Invalid)' = (con_handle # Invalid)
        BY <1>1
      <3>9. (pc0 \in {"Evict", "EnqueueAgain"} \/ evicted_under_send)'
              = (pc0 \in {"Evict", "EnqueueAgain"} \/ evicted_under_send)
        BY <2>2 DEF Overflow
      <3>10. Channel!Accept(Wait(item0))
        BY <1>1, <3>3, <3>4, <3>6, <3>7, <3>8, <3>9 DEF Channel!Accept
      <3> QED
        BY <3>6, <3>10 DEF ChannelStep, Channel!Next
    <2> QED
      BY <2>1, <2>3, <2>4
  <1>5. CASE SendEnqueue \/ SendEnqueueAgain
    <2>1. /\ Sending /\ item0' = item0 /\ queue_try_add(item0) /\ evicted_under_send' = evicted_under_send
          /\ pc0 = "Enqueue" \/ pc0 = "EnqueueAgain"
          /\ pc0' = "Exchange" \/ (pc0' = "Evict" /\ pc0 = "Enqueue" /\ Full)
          /\ pc0' = "Exchange" => pc0 = "EnqueueAgain" \/ ~Full
      BY <1>5 DEF SendEnqueue, SendEnqueueAgain, Sending, history
    <2>2. CASE pc0' = "Evict"
      <3>1. report_queue' = report_queue /\ Sending'
        BY <2>1, <2>2 DEF queue_try_add, Sending
      <3>2. Held' = Held
        BY <1>1, <2>1, <3>1 DEF Held
      <3>3. Waiting' = Waiting /\ Overflow'
        BY <1>1, <2>2, <3>2, WaitingSame DEF Overflow
      <3>4. CASE Overflow
        BY <1>1, <3>3, <3>4, StepIdle
      <3>5. CASE ~Overflow
        <4>1. Cardinality(Waiting) >= QueueSize
          BY <2>1, <2>2, FullChannel
        <4>2. (con_handle # Invalid)' = (con_handle # Invalid)
          BY <1>1
        <4>3. (pc0 \in {"Evict", "EnqueueAgain"} \/ evicted_under_send)' = TRUE
          BY <3>3 DEF Overflow
        <4>4. Channel!Cardinality(Waiting) = Cardinality(Waiting)
          BY DEF Channel!Cardinality, Cardinality
        <4>5. Channel!BeginOverflow
          BY <1>1, <3>3, <4>1, <4>2, <4>3, <4>4 DEF Channel!BeginOverflow
        <4> QED
          BY <4>5 DEF ChannelStep, Channel!Next
      <3> QED
        BY <3>4, <3>5
    <2>3. CASE pc0' = "Exchange"
      <3>1. ~Full
        BY <2>1, <2>3 DEF Full, RoomAfterEvict
      <3>2. report_queue' = Append(report_queue, item0) /\ item0 \in Item
        BY <2>1, <3>1 DEF queue_try_add, HandOK
      <3>3. {report_queue'[i] : i \in DOMAIN report_queue'}
              = {report_queue[i] : i \in DOMAIN report_queue} \cup {item0}
        <4>1. \A i \in DOMAIN report_queue : i \in DOMAIN report_queue' /\ report_queue'[i] = report_queue[i]
          BY <3>2 DEF QueueTypes
        <4>2. Len(report_queue) + 1 \in DOMAIN report_queue' /\ report_queue'[Len(report_queue) + 1] = item0
          BY <3>2 DEF QueueTypes
        <4>3. \A i \in DOMAIN report_queue' :
                \/ i \in DOMAIN report_queue /\ report_queue'[i] = report_queue[i]
                \/ report_queue'[i] = item0
          BY <2>1, <3>2, AddedElements
        <4> QED
          BY <4>1, <4>2, <4>3
      <3>4. ~Sending'
        BY <2>3 DEF Sending
      <3>5. Held' = Held
        BY <1>1, <2>1, <3>3, <3>4 DEF Held
      <3>6. Waiting' = Waiting
        BY <1>1, <3>5, WaitingSame
      <3>7. Overflow' <=> evicted_under_send
        BY <2>1, <2>3 DEF Overflow
      <3>8. CASE evicted_under_send
        <4>1. Overflow' /\ Overflow
          BY <3>7, <3>8 DEF Overflow
        <4> QED
          BY <1>1, <3>6, <4>1, StepIdle
      <3>9. CASE ~evicted_under_send
        BY <1>1, <3>6, <3>7, <3>9, StepEnd
      <3> QED
        BY <3>8, <3>9
    <2> QED
      BY <2>1, <2>2, <2>3
  <1>6. CASE SendEvict
    <2>1. /\ queue_try_remove /\ item0' = item0 /\ Sending /\ Sending' /\ Overflow /\ Overflow'
      BY <1>6 DEF SendEvict, Sending, Overflow
    <2>2. CASE Held' = Held
      BY <1>1, <2>1, <2>2, WaitingSame, StepIdle
    <2>3. CASE report_queue[1] \in Held /\ Held' = Held \ {report_queue[1]}
      <3>1. \/ Waiting' = Waiting
            \/ Wait(report_queue[1]) \in Waiting /\ Waiting' = Waiting \ {Wait(report_queue[1])}
        BY <1>1, <2>3, WaitingLess
      <3> QED
        BY <1>1, <2>1, <3>1, WaitingTypes, StepIdle, StepGiveUp
    <2> QED
      BY <1>1, <2>1, <2>2, <2>3, RemovedHeld
  <1>7. CASE SendExchange \/ SendRegister
    <2>1. /\ UNCHANGED <<item0, report_queue, evicted_under_send>>
          /\ ~Sending /\ ~Sending' /\ (Overflow' <=> Overflow)
      BY <1>7 DEF SendExchange, SendRegister, history, Sending, Overflow
    <2>2. Held' = Held
      BY <1>1, <2>1 DEF Held
    <2> QED
      BY <1>1, <2>1, <2>2, WaitingSame, StepIdle
  <1> QED
    BY <1>2, <1>3, <1>4, <1>5, <1>6, <1>7 DEF Core0, ble_hid_periph_send_raw_report


\* A step that neither adds nor removes a report, as far as typing_can_send_now goes.
LEMMA HeldSame ==
    ASSUME UNCHANGED <<core0, item1, report_queue>>, pc1' = "Notify" <=> pc1 = "Notify"
    PROVE  Held' = Held /\ (Sending' <=> Sending)
  BY DEF Held, Sending, core0

\* The report in hand at att_server_notify is the oldest of those that wait.
LEMMA NotifiedOldest ==
    ASSUME TypeInv, OrderInv, ChannelInv, pc1 = "Notify"
    PROVE  /\ item1 \in Held /\ item1.seq > last_sent
           /\ \A h \in Held : h.seq >= item1.seq /\ (h # item1 => h.seq > item1.seq)
           /\ Wait(item1) \in Waiting /\ Channel!Oldest(Wait(item1))
  <1> QueueTypes /\ HandOK /\ NumberTypes
    BY DEF TypeInv, TypeOK
  <1>1. item1 \in Held
    BY DEF Held
  <1>2. item1.seq > last_sent
    BY DEF OrderInv, HandOrder
  <1>3. \A h \in Held : h.seq \in Nat
    BY HeldDistinct, QueueAssumption DEF Item
  <1>4. \A i \in DOMAIN report_queue : report_queue[i].seq >= item1.seq
    BY DEF OrderInv, QueueOrder
  <1>5. Sending => item0.seq > item1.seq
    BY QueueAssumption DEF OrderInv, HandOrder, Holding, Sending, HandOK, Item, NumberTypes
  <1>6. \A h \in Held : h.seq >= item1.seq
    <2> SUFFICES ASSUME NEW h \in Held PROVE h.seq >= item1.seq
      OBVIOUS
    <2>1. \/ \E i \in DOMAIN report_queue : h = report_queue[i]
          \/ Sending /\ h = item0
          \/ h = item1
      BY DEF Held
    <2> QED
      BY <1>1, <1>3, <1>4, <1>5, <2>1
  <1>7. \A h \in Held : h # item1 => h.seq > item1.seq
    BY <1>1, <1>3, <1>6, HeldDistinct
  <1>8. Wait(item1) \in Waiting
    BY <1>1, <1>2, WaitingHeld
  <1>9. \A s \in Waiting : Wait(item1).seq <= s.seq
    <2> SUFFICES ASSUME NEW s \in Waiting PROVE Wait(item1).seq <= s.seq
      OBVIOUS
    <2>1. PICK h \in Held : s = Wait(h)
      BY WaitingHeld
    <2>2. s.seq = h.seq /\ Wait(item1).seq = item1.seq
      BY <2>1 DEF Wait
    <2> QED
      BY <1>1, <1>3, <1>6, <2>2
  <1> QED
    BY <1>1, <1>2, <1>6, <1>7, <1>8, <1>9 DEF Channel!Oldest

LEMMA RefineNotify == ASSUME RefInv, Notify PROVE ChannelStep
  <1> TypeInv /\ OrderInv /\ ChannelInv
    BY DEF RefInv
  <1> QueueTypes /\ ControlTypes
    BY DEF TypeInv, TypeOK
  <1>1. /\ pc1 = "Notify" /\ UNCHANGED <<item1, core0, report_queue, con_handle>>
        /\ (Up' <=> Up) /\ (Sending' <=> Sending)
    BY DEF Notify, shared, core0, Up, Sending
  <1>2. Waiting \subseteq Channel!Report
    BY WaitingTypes
  <1>3. CASE acl_free > 0
    <2>1. last_sent' = item1.seq /\ pc1' = "Remove" /\ evicted_under_send' = evicted_under_send
      BY <1>3 DEF Notify
    <2>2. /\ \A h \in Held' : h \in Held
          /\ \A h \in Held : h # item1 => h \in Held'
      BY <1>1, <2>1 DEF Held, core0
    <2>3. Waiting' = Waiting \ {Wait(item1)}
      <3>1. ASSUME NEW w \in Waiting' PROVE w \in Waiting \ {Wait(item1)}
        <4>1. PICK h \in Held' : h.seq > item1.seq /\ w = Wait(h)
          BY <2>1, WaitingHeldNext
        <4>2. h \in Held /\ h.seq \in Nat /\ item1.seq \in Nat /\ last_sent \in Nat
          BY <2>2, <1>1, HeldDistinct, NotifiedOldest, QueueAssumption DEF Item, TypeInv, TypeOK, NumberTypes
        <4>3. h.seq > last_sent /\ h.seq # item1.seq
          BY <1>1, <4>1, <4>2, NotifiedOldest
        <4>4. Wait(h) # Wait(item1)
          BY <4>3 DEF Wait
        <4> QED
          BY <4>1, <4>2, <4>3, <4>4, WaitingHeld
      <3>2. ASSUME NEW w \in Waiting \ {Wait(item1)} PROVE w \in Waiting'
        <4>1. PICK h \in Held : w = Wait(h)
          BY WaitingHeld
        <4>2. h # item1
          BY <3>2, <4>1
        <4>3. h \in Held' /\ h.seq > item1.seq
          BY <1>1, <2>2, <4>2, NotifiedOldest
        <4> QED
          BY <2>1, <4>1, <4>3, WaitingHeldNext
      <3> QED
        BY <3>1, <3>2
    <2>4. con_handle # Invalid /\ con_handle' # Invalid
      BY <1>1 DEF ChannelInv
    <2>5. (con_handle # Invalid)' = (con_handle # Invalid)
      BY <1>1
    <2>6. (pc0 \in {"Evict", "EnqueueAgain"} \/ evicted_under_send)'
            = (pc0 \in {"Evict", "EnqueueAgain"} \/ evicted_under_send)
      BY <1>1, <2>1 DEF core0
    <2>7. Wait(item1).mapped /\ last_sent' = Wait(item1).seq
      <3>1. Mapped(item1)
        BY <1>1 DEF ChannelInv
      <3> QED
        BY <2>1, <3>1 DEF Wait
    <2>8. Channel!Oldest(Wait(item1)) /\ Wait(item1) \in Waiting
      BY <1>1, NotifiedOldest
    <2>9. Channel!Deliver(Wait(item1))
      BY <2>3, <2>4, <2>5, <2>6, <2>7, <2>8 DEF Channel!Deliver
    <2> QED
      BY <1>2, <2>8, <2>9 DEF ChannelStep, Channel!Next
  <1>4. CASE ~(acl_free > 0)
    <2>1. last_sent' = last_sent /\ pc1' \in {"Idle", "ClearPending"} /\ ~evicted_under_send'
      BY <1>4 DEF Notify, ControlTypes
    <2>2. Overflow' => Overflow
      BY <1>1, <2>1 DEF Overflow, core0
    <2>3. CASE item1 \in {report_queue[i] : i \in DOMAIN report_queue}
      <3>1. Held' = Held
        BY <1>1, <2>1, <2>3 DEF Held, core0
      <3>2. Waiting' = Waiting
        BY <2>1, <3>1, WaitingSame
      <3> QED
        BY <1>1, <2>1, <2>2, <3>2, StepIdle, StepEnd
    <2>4. CASE item1 \notin {report_queue[i] : i \in DOMAIN report_queue}
      <3>1. Overflow
        <4>1. report_queue # <<>> => 1 \in DOMAIN report_queue
          BY DEF QueueTypes
        <4>2. evicted_under_send
          BY <1>1, <2>4, <4>1 DEF ChannelInv
        <4> QED
          BY <4>2 DEF Overflow
      <3>2. Sending => item0 # item1
        <4>1. Sending => item1.seq < item0.seq /\ item1.seq \in Nat
          BY <1>1, QueueAssumption DEF OrderInv, HandOrder, Holding, Sending, TypeInv, HandOK, Item
        <4> QED
          BY <4>1
      <3>3. Held' = Held \ {item1} /\ item1 \in Held
        BY <1>1, <2>1, <2>4, <3>2 DEF Held, core0
      <3>4. \/ Waiting' = Waiting
            \/ Wait(item1) \in Waiting /\ Waiting' = Waiting \ {Wait(item1)}
        BY <2>1, <3>3, WaitingLess
      <3> QED
        BY <1>1, <1>2, <2>1, <2>2, <3>1, <3>4, StepIdle, StepEnd, StepGiveUp
    <2> QED
      BY <2>3, <2>4
  <1> QED
    BY <1>3, <1>4

LEMMA RefineRemove == ASSUME RefInv, Remove PROVE ChannelStep
  <1> TypeInv /\ OrderInv /\ ChannelInv
    BY DEF RefInv
  <1> QueueTypes /\ HandOK /\ NumberTypes
    BY DEF TypeInv, TypeOK
  <1>1. /\ pc1 = "Remove" /\ pc1' = "Peek" /\ queue_try_remove /\ ~evicted_under_send'
        /\ UNCHANGED <<core0, item1, con_handle, last_sent>>
        /\ (Up' <=> Up) /\ (Sending' <=> Sending)
    BY DEF Remove, shared, core0, Up, Sending
  <1>2. Overflow' => Overflow
    BY <1>1 DEF Overflow, core0
  <1>3. CASE Waiting' = Waiting
    BY <1>1, <1>2, <1>3, StepIdle, StepEnd
  <1>4. CASE Waiting' # Waiting
    <2>1. report_queue # <<>> /\ report_queue[1] \in Held /\ Held' = Held \ {report_queue[1]}
      <3>1. Held' # Held
        BY <1>1, <1>4, WaitingSame
      <3> QED
        BY <1>1, <3>1, RemovedHeld DEF core0
    <2> DEFINE r == Wait(report_queue[1])
    <2>2. r \in Waiting /\ Waiting' = Waiting \ {r} /\ report_queue[1].seq > last_sent
      BY <1>1, <1>4, <2>1, WaitingLess
    <2>3. Waiting \subseteq Channel!Report
      BY WaitingTypes
    <2>4. CASE Overflow
      BY <1>1, <2>2, <2>3, <2>4, StepGiveUp
    <2>5. CASE ~Overflow
      <3>1. report_queue[1] = item1
        BY <1>1, <2>5 DEF ChannelInv, Overflow
      <3>2. item1.seq # last_sent
        BY <2>2, <3>1 DEF NumberTypes
      <3>3. ~r.mapped
        <4>1. ~Mapped(item1)
          BY <1>1, <3>2 DEF ChannelInv
        <4>2. r.mapped = Mapped(item1)
          BY <3>1 DEF Wait
        <4> QED
          BY <4>1, <4>2
      <3>4. \A h \in Held : h.seq >= item1.seq
        <4>1. \A i \in DOMAIN report_queue : report_queue[i].seq >= item1.seq
          BY <1>1 DEF OrderInv, QueueOrder
        <4>2. Sending => item0.seq >= item1.seq
          BY <1>1, QueueAssumption DEF OrderInv, HandOrder, Holding, Sending, HandOK, Item
        <4> QED
          BY <1>1, <4>1, <4>2 DEF Held
      <3>5. \A s \in Waiting : r.seq <= s.seq
        <4> SUFFICES ASSUME NEW s \in Waiting PROVE r.seq <= s.seq
          OBVIOUS
        <4>1. PICK h \in Held : s = Wait(h)
          BY WaitingHeld
        <4>2. s.seq = h.seq /\ r.seq = item1.seq
          BY <3>1, <4>1 DEF Wait
        <4>3. h.seq \in Nat /\ item1.seq \in Nat
          BY <2>1, <3>1, HeldDistinct, QueueAssumption DEF Item
        <4> QED
          BY <3>4, <4>2, <4>3
      <3>6. (con_handle # Invalid)' = (con_handle # Invalid)
        BY <1>1
      <3>7. (pc0 \in {"Evict", "EnqueueAgain"} \/ evicted_under_send)'
              = (pc0 \in {"Evict", "EnqueueAgain"} \/ evicted_under_send)
        BY <1>2, <2>5 DEF Overflow
      <3> HIDE DEF r
      <3>8. Channel!Reject(r)
        BY <1>1, <2>2, <3>3, <3>5, <3>6, <3>7 DEF Channel!Reject, Channel!Oldest
      <3> QED
        BY <2>2, <2>3, <3>8 DEF ChannelStep, Channel!Next
    <2> QED
      BY <2>4, <2>5
  <1> QED
    BY <1>3, <1>4


\* A flush gives reports up where there is no connection.
LEMMA RefineFlush == ASSUME RefInv, DiscFlush \/ ConnFlush PROVE ChannelStep
  <1> TypeInv /\ OrderInv /\ ChannelInv /\ LinkInv /\ StaleInv
    BY DEF RefInv, ConnInv
  <1>1. /\ queue_try_remove /\ UNCHANGED <<core0, item1, con_handle, last_sent, evicted_under_send>>
        /\ pc1 \in {"DiscFlush", "ConnFlush"}
        /\ pc1' \in {"DiscFlush", "ConnFlush", "Advertise", "ConnHandle"}
    BY DEF DiscFlush, ConnFlush, EmptyQueue, shared, history
  <1>2. ~Up /\ ~Up' /\ (Overflow' <=> Overflow) /\ (Sending' <=> Sending)
    BY <1>1 DEF Up, LinkInv, StaleInv, Overflow, Sending, core0
  <1>3. CASE Held' = Held
    BY <1>1, <1>2, <1>3, WaitingSame, StepIdle
  <1>4. CASE report_queue[1] \in Held /\ Held' = Held \ {report_queue[1]}
    <2>1. \/ Waiting' = Waiting
          \/ Wait(report_queue[1]) \in Waiting /\ Waiting' = Waiting \ {Wait(report_queue[1])}
      BY <1>1, <1>4, WaitingLess
    <2> QED
      BY <1>1, <1>2, <2>1, WaitingTypes, StepIdle, StepAbandon
  <1> QED
    BY <1>1, <1>2, <1>3, <1>4, RemovedHeld DEF core0

LEMMA RefineCore1 == ASSUME RefInv, Core1 PROVE ChannelStep
  <1> QueueTypes /\ ControlTypes
    BY DEF RefInv, TypeInv, TypeOK
  <1>1. CASE Peek
    <2>1. UNCHANGED <<core0, report_queue, con_handle, last_sent, evicted_under_send>> /\ pc1 = "Peek"
      BY <1>1 DEF Peek, shared, history
    <2>2. pc1' = "Notify" => report_queue # <<>> /\ item1' = report_queue[1]
      BY <1>1 DEF Peek, QueueTypes, ControlTypes
    <2>3. report_queue # <<>> => 1 \in DOMAIN report_queue
      BY DEF QueueTypes
    <2>4. Held' = Held
      BY <2>1, <2>2, <2>3 DEF Held, Sending, core0
    <2>5. (Up' <=> Up) /\ (Overflow' <=> Overflow)
      BY <2>1 DEF Up, Overflow, core0
    <2> QED
      BY <2>1, <2>4, <2>5, WaitingSame, StepIdle
  <1>2. CASE Core1 /\ ~Peek /\ ~Notify /\ ~Remove /\ ~DiscFlush /\ ~ConnFlush
    <2>1. /\ UNCHANGED <<core0, item1, report_queue, last_sent, evicted_under_send>>
          /\ pc1' = "Notify" <=> pc1 = "Notify"
      BY <1>2
         DEF Core1, RunSetup, RunSendRequest, request_can_send_now_on_btstack_thread,
             RequestCanSend, ClearPending, CanSendNow, typing_can_send_now, CompletedPackets,
             hci_packet_handler, StackWorking, Advertise, Disconnection, DiscEncrypted,
             ConnectionComplete, ConnHandle, ConnEncrypted, EncryptionChange, EncryptionFailed,
             sm_packet_handler, PairingConfirm, PairingComplete, core1, history
    <2>2. Waiting' = Waiting
      BY <2>1, HeldSame, WaitingSame
    <2>3. Overflow' <=> Overflow
      BY <2>1 DEF Overflow, core0
    <2> QED
      BY <2>1, <2>2, <2>3, StepConnection
  <1> QED
    BY <1>1, <1>2, RefineNotify, RefineRemove, RefineFlush

\* The reports on their way through the two cores are a channel, whatever the sizes of the
\* queue and the controller and however the cores interleave: each is delivered at most once,
\* in the order of arrival, and given up only without a connection, in an overflow that began
\* with the queue's size of reports waiting, or for want of a characteristic.
THEOREM CoresImplementChannel == Spec => ImplementsChannel
  <1>1. Init => Channel!Init
    <2> SUFFICES ASSUME Init PROVE Channel!Init
      OBVIOUS
    <2>1. Waiting = {}
      BY DEF Init, Waiting, Sending
    <2>2. (con_handle # Invalid) = FALSE
      BY DEF Init
    <2>3. (pc0 \in {"Evict", "EnqueueAgain"} \/ evicted_under_send) = FALSE
      BY DEF Init
    <2> QED
      BY <2>1, <2>2, <2>3 DEF Init, Channel!Init
  <1>2. RefInv /\ [Next]_vars => [Channel!Next]_(Channel!vars)
    <2> SUFFICES ASSUME RefInv, [Next]_vars PROVE ChannelStep
      BY DEF ChannelStep
    <2>1. CASE UNCHANGED vars
      <3>1. UNCHANGED <<core0, item1, pc1, report_queue, last_sent, evicted_under_send>>
        BY <2>1 DEF vars, core1, history
      <3>2. Waiting' = Waiting
        BY <3>1, HeldSame, WaitingSame
      <3>3. Overflow' <=> Overflow
        BY <3>1 DEF Overflow, core0
      <3> QED
        BY <3>1, <3>2, <3>3, StepConnection
    <2> QED
      BY <2>1, RefineCore0, RefineCore1 DEF Next
  <1> QED
    BY RefInvariant, <1>1, <1>2, PTL DEF Spec, ImplementsChannel, Channel!Spec
=============================================================================
