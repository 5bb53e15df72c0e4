------------------------------ MODULE BootProofs ------------------------------
(***************************************************************************)
(* Proofs about Boot: what the order of the start-up ensures, for any      *)
(* number of DMA channels and any blink interval.                          *)
(***************************************************************************)
EXTENDS Boot, FiniteSetTheorems, WellFoundedInduction, TLAPS

\* How far one core can be while the other is where it is: Core 1 starts with the launch,
\* after Core 0 has made itself pausable, and is in its run loop once the semaphore has a
\* permit or Core 0 has taken it.
OrderInv ==
    /\ pc1 = "off" <=> pc0 \in {"reset", "lockout", "launch"}
    /\ lockout <=> pc0 \notin {"reset", "lockout"}
    /\ bt_init_sem > 0 => pc1 = "run"
    /\ pc0 \in {"clock", "pio", "dma", "init", "loop"} => pc1 = "run"
    /\ bt_init_sem \in Nat

BootInv == OrderInv /\ ClockExact /\ BondsWritable

LEMMA BootInit == Init => BootInv
BY DEF Init, BootInv, OrderInv, ClockExact, BondsWritable

\* The steps that touch neither where the cores are nor what the invariant speaks of.
LEMMA BootQuiet == ASSUME BootInv, UNCHANGED <<cores, lockout, refused>> PROVE BootInv'
BY DEF BootInv, OrderInv, ClockExact, BondsWritable, cores

LEMMA BootCore0 == ASSUME BootInv, Core0 PROVE BootInv'
<1> USE DEF BootInv, OrderInv, ClockExact, BondsWritable, Step0, flash
<1>1. CASE set_sys_clock_khz BY <1>1 DEF set_sys_clock_khz
<1>2. CASE flash_safe_execute_core_init BY <1>2 DEF flash_safe_execute_core_init
<1>3. CASE multicore_launch_core1 BY <1>3 DEF multicore_launch_core1
<1>4. CASE sem_acquire_blocking BY <1>4 DEF sem_acquire_blocking
<1>5. CASE ReassertClock BY <1>5 DEF ReassertClock
<1>6. CASE ChoosePio BY <1>6 DEF ChoosePio
<1>7. CASE ChooseChannel BY <1>7 DEF ChooseChannel
<1>8. CASE tuh_init BY <1>8 DEF tuh_init
<1> QED BY <1>1, <1>2, <1>3, <1>4, <1>5, <1>6, <1>7, <1>8 DEF Core0

\* A flash write is refused only before flash_safe_execute_core_init.
LEMMA WriteAccepted == ASSUME lockout, WriteFlash PROVE UNCHANGED refused
BY DEF WriteFlash

LEMMA BootCore1 == ASSUME BootInv, Core1 PROVE BootInv'
<1> USE DEF BootInv, OrderInv, ClockExact, BondsWritable
<1>1. CASE cyw43_arch_init BY <1>1 DEF cyw43_arch_init, Step1, flash
<1>2. CASE ble_hid_periph_init_flash
  <2>1. UNCHANGED <<pc0, bt_init_sem, clock, lockout>> /\ pc1 = "flash" /\ pc1' = "timer"
    BY <1>2 DEF ble_hid_periph_init_flash, Step1
  <2>2. UNCHANGED refused
    BY <1>2, <2>1, WriteAccepted DEF ble_hid_periph_init_flash
  <2> QED BY <2>1, <2>2
<1>3. CASE sem_release BY <1>3 DEF sem_release, Step1, flash
<1>4. CASE SaveBond
  <2>1. UNCHANGED <<cores, lockout>> /\ pc1 = "run" /\ WriteFlash
    BY <1>4 DEF SaveBond
  <2>2. UNCHANGED refused
    BY <2>1, WriteAccepted
  <2> QED BY <2>1, <2>2, BootQuiet
<1>5. CASE FlashWritten BY <1>5, BootQuiet DEF FlashWritten
<1>6. CASE LinkChange \/ led_timer_handler
  BY <1>6, BootQuiet DEF LinkChange, led_timer_handler, flash
<1> QED BY <1>1, <1>2, <1>3, <1>4, <1>5, <1>6 DEF Core1

LEMMA BootNext == BootInv /\ [Next]_vars => BootInv'
<1> SUFFICES ASSUME BootInv, [Next]_vars PROVE BootInv'
  OBVIOUS
<1>1. CASE Tick BY <1>1, BootQuiet DEF Tick, flash
<1>2. CASE UNCHANGED vars BY <1>2, BootQuiet DEF vars, flash
<1> QED BY <1>1, <1>2, BootCore0, BootCore1 DEF Next

LEMMA BootInvariant == Spec => []BootInv
BY BootInit, BootNext, PTL DEF Spec

\* PIO USB runs with the exact clock, although the radio driver, started on the other core,
\* may have changed it: main sets it again when the driver is done.
THEOREM ClockStaysExact == Spec => []ClockExact
<1>1. BootInv => ClockExact BY DEF BootInv
<1> QED BY <1>1, BootInvariant, PTL

\* Whenever core 1 writes flash, core 0 has declared itself pausable.
THEOREM FlashNeverRefused == Spec => []BondsWritable
<1>1. BootInv => BondsWritable BY DEF BootInv
<1> QED BY <1>1, BootInvariant, PTL

-----------------------------------------------------------------------------
\* A set of channels has a lowest one.
LEMMA LowestExists == ASSUME NEW S \in SUBSET Nat, S # {} PROVE Lowest(S) \in S
<1> DEFINE R == OpToRel(<, Nat)
<1>1. PICK n \in S : \A m \in S : ~(<<m, n>> \in R)
  BY NatLessThanWellFounded, WFMin
<1>2. ASSUME NEW m \in S PROVE n <= m
  <2>1. m \in Nat /\ n \in Nat OBVIOUS
  <2>2. ~(<<m, n>> \in OpToRel(<, Nat)) BY <1>1 DEF R
  <2>3. ~(m < n) BY <2>1, <2>2 DEF OpToRel
  <2> HIDE DEF R
  <2> QED BY <2>1, <2>3
<1> QED BY <1>2 DEF Lowest

\* What the radio driver holds, and what main has chosen so far: the lowest state machine
\* of PIO0, two channels at most, and from then on a channel and a block apart from them.
ClaimInv ==
    /\ radio_sms \subseteq {<<0, m>> : m \in Nat}
    /\ radio_dma \in SUBSET Channels /\ Channels \ radio_dma # {}
    /\ pc0 \in {"dma", "init", "loop"} => pio = 1
    /\ pc0 = "init" => tx_ch \notin radio_dma
    /\ ~panicked

\* The radio driver leaves a channel free.
LEMMA ChannelsLeft ==
    ASSUME Cardinality(Channels) > 2, NEW taken \in RadioChannels
    PROVE  taken \in SUBSET Channels /\ Channels \ taken # {}
<1>1. taken \in SUBSET Channels /\ Cardinality(taken) \in 1..2
  BY DEF RadioChannels
<1>2. ASSUME Channels \ taken = {} PROVE FALSE
  <2>1. taken = Channels BY <1>1, <1>2
  <2> QED BY <1>1, <2>1
<1> QED BY <1>1, <1>2

LEMMA ClaimNext ==
    ASSUME RadioPio = 0, Cardinality(Channels) > 2, BootInv, ClaimInv, [Next]_vars
    PROVE  ClaimInv'
<1> USE DEF ClaimInv
<1>1. CASE cyw43_arch_init
  <2>1. UNCHANGED <<pc0, pio, tx_ch, panicked>> /\ pc1 = "radio"
    BY <1>1 DEF cyw43_arch_init, Step1
  <2>2. pc0 \notin {"dma", "init", "loop"}
    BY <2>1 DEF BootInv, OrderInv
  <2>3. radio_sms' \subseteq {<<0, m>> : m \in Nat}
    <3>1. Lowest(0..3) \in Nat BY LowestExists
    <3> QED BY <1>1, <3>1 DEF cyw43_arch_init
  <2>4. radio_dma' \in SUBSET Channels /\ Channels \ radio_dma' # {}
    BY <1>1, ChannelsLeft DEF cyw43_arch_init
  <2> QED BY <2>1, <2>2, <2>3, <2>4
<1>2. CASE ChoosePio
  <2>1. 0 \in Unused(1) BY DEF Unused
  <2> QED BY <1>2, <2>1 DEF ChoosePio, ChosenPio, Step0
<1>3. CASE ChooseChannel
  <2> DEFINE unused == Channels \ radio_dma
  <2>1. unused \in SUBSET Nat /\ unused # {} BY BootAssumption
  <2>2. Lowest(unused) \in unused BY <2>1, LowestExists
  <2>3. tx_ch' = Lowest(unused) /\ panicked' = FALSE BY <1>3, <2>1 DEF ChooseChannel
  <2> QED BY <1>3, <2>2, <2>3 DEF ChooseChannel, Step0
<1>4. CASE tuh_init
  <2>1. pc0 = "init" /\ pc0' = "loop" /\ UNCHANGED <<radio_sms, radio_dma, pio>>
    BY <1>4 DEF tuh_init, Step0
  <2>2. \A m \in 0..2 : <<pio, m>> \notin radio_sms BY <2>1
  <2> QED BY <1>4, <2>1, <2>2 DEF tuh_init
<1>5. CASE \/ set_sys_clock_khz \/ flash_safe_execute_core_init \/ multicore_launch_core1
           \/ sem_acquire_blocking \/ ReassertClock
  <2>1. UNCHANGED claims /\ pc0' \notin {"dma", "init", "loop"}
    BY <1>5 DEF set_sys_clock_khz, flash_safe_execute_core_init, multicore_launch_core1,
                sem_acquire_blocking, ReassertClock, Step0
  <2> QED BY <2>1 DEF claims
<1>6. CASE \/ ble_hid_periph_init_flash \/ sem_release \/ SaveBond \/ FlashWritten
           \/ LinkChange \/ led_timer_handler \/ Tick \/ UNCHANGED vars
  <2>1. UNCHANGED <<claims, pc0>>
    BY <1>6 DEF ble_hid_periph_init_flash, sem_release, SaveBond, FlashWritten, LinkChange,
                led_timer_handler, Tick, vars, cores
  <2> QED BY <2>1 DEF claims
<1> QED BY <1>1, <1>2, <1>3, <1>4, <1>5, <1>6 DEF Next, Core0, Core1

\* The driver being on PIO0, as main.c:128 says, and the chip having more than two DMA
\* channels, no claim of USB finds what the radio driver holds.
THEOREM ClaimsSucceed ==
    ASSUME RadioPio = 0, Cardinality(Channels) > 2
    PROVE  Spec => []NoPanic
<1>1. Init => ClaimInv
  <2>1. Channels # {} /\ Channels \ {} = Channels
    <3>1. Channels = {} => Cardinality(Channels) = 0 BY FS_EmptySet
    <3> QED BY <3>1
  <2> QED BY <2>1 DEF Init, ClaimInv
<1>2. BootInv /\ ClaimInv /\ [Next]_vars => ClaimInv'
  BY ClaimNext
<1>3. ClaimInv => NoPanic
  BY DEF ClaimInv, NoPanic
<1> QED BY <1>1, <1>2, <1>3, BootInvariant, PTL DEF Spec

-----------------------------------------------------------------------------
\* The parts of TypeOK: what belongs to the cores, to the claims, to the LED.
CoreTypes ==
    /\ pc0 \in {"reset", "lockout", "launch", "wait", "clock", "pio", "dma", "init", "loop"}
    /\ pc1 \in {"off", "radio", "returned", "flash", "timer", "run"}
    /\ bt_init_sem \in 0..1 /\ clock \in {"reset", "usb", "radio"}
FlashTypes == lockout \in BOOLEAN /\ paused \in BOOLEAN /\ refused \in BOOLEAN
ClaimTypes ==
    /\ radio_sms \subseteq Machines /\ radio_dma \subseteq Channels
    /\ pio \in {0, 1} /\ tx_ch \in Channels \cup {None} /\ panicked \in BOOLEAN
LampTypes ==
    /\ connected \in BOOLEAN /\ led_state \in BOOLEAN /\ was_connected \in BOOLEAN /\ led \in BOOLEAN
    /\ led_timer \in 0..BlinkTicks /\ steady \in 0..Long /\ unchanged \in 0..Long

LEMMA TypeParts == TypeOK <=> CoreTypes /\ FlashTypes /\ ClaimTypes /\ LampTypes
BY DEF TypeOK, CoreTypes, FlashTypes, ClaimTypes, LampTypes

LEMMA CoreTypesKept == ASSUME CoreTypes, [Next]_vars PROVE CoreTypes'
<1> USE DEF CoreTypes
<1>1. CASE Core0
  BY <1>1 DEF Core0, set_sys_clock_khz, flash_safe_execute_core_init, multicore_launch_core1,
              sem_acquire_blocking, ReassertClock, ChoosePio, ChooseChannel, tuh_init, Step0
<1>2. CASE cyw43_arch_init \/ ble_hid_periph_init_flash \/ sem_release
  BY <1>2 DEF cyw43_arch_init, ble_hid_periph_init_flash, sem_release, Step1
<1>3. CASE SaveBond \/ FlashWritten \/ LinkChange \/ led_timer_handler \/ Tick \/ UNCHANGED vars
  BY <1>3 DEF SaveBond, FlashWritten, LinkChange, led_timer_handler, Tick, vars, cores
<1> QED BY <1>1, <1>2, <1>3 DEF Next, Core1

LEMMA FlashTypesKept == ASSUME FlashTypes, [Next]_vars PROVE FlashTypes'
<1> USE DEF FlashTypes
<1>1. CASE flash_safe_execute_core_init
  BY <1>1 DEF flash_safe_execute_core_init
<1>2. CASE ble_hid_periph_init_flash \/ SaveBond \/ FlashWritten
  BY <1>2 DEF ble_hid_periph_init_flash, SaveBond, FlashWritten, WriteFlash
<1>3. CASE UNCHANGED flash
  BY <1>3 DEF flash
<1>4. Next /\ ~flash_safe_execute_core_init /\ ~(ble_hid_periph_init_flash \/ SaveBond \/ FlashWritten)
         => UNCHANGED flash
  BY DEF Next, Core0, Core1, set_sys_clock_khz, multicore_launch_core1, sem_acquire_blocking,
         ReassertClock, ChoosePio, ChooseChannel, tuh_init, cyw43_arch_init, sem_release,
         LinkChange, led_timer_handler, Tick
<1> QED BY <1>1, <1>2, <1>3, <1>4 DEF vars

LEMMA ClaimTypesKept == ASSUME ClaimTypes, [Next]_vars PROVE ClaimTypes'
<1> USE DEF ClaimTypes
<1>1. CASE cyw43_arch_init
  <2>1. CASE UNCHANGED <<radio_sms, radio_dma>>
    BY <1>1, <2>1 DEF cyw43_arch_init
  <2>2. CASE radio_sms' = {<<RadioPio, Lowest(0..3)>>} /\ radio_dma' \in RadioChannels
    <3>1. Lowest(0..3) \in 0..3 BY LowestExists
    <3>2. radio_sms' \subseteq Machines BY <2>2, <3>1, BootAssumption DEF Machines
    <3>3. radio_dma' \subseteq Channels BY <2>2 DEF RadioChannels
    <3> QED BY <1>1, <3>2, <3>3 DEF cyw43_arch_init
  <2> QED BY <1>1, <2>1, <2>2 DEF cyw43_arch_init
<1>2. CASE ChoosePio
  BY <1>2 DEF ChoosePio, ChosenPio
<1>3. CASE ChooseChannel
  <2> DEFINE unused == Channels \ radio_dma
  <2>1. unused # {} => Lowest(unused) \in Channels
    BY BootAssumption, LowestExists
  <2>2. tx_ch' \in Channels \cup {None}
    BY <1>3, <2>1 DEF ChooseChannel
  <2>3. panicked' \in BOOLEAN
    BY <1>3 DEF ChooseChannel
  <2> QED BY <1>3, <2>2, <2>3 DEF ChooseChannel
<1>4. CASE tuh_init
  BY <1>4 DEF tuh_init
<1>5. CASE UNCHANGED claims
  <2>1. UNCHANGED <<radio_sms, radio_dma, pio, tx_ch, panicked>> BY <1>5 DEF claims
  <2> QED BY <2>1
<1>6. Next /\ ~(cyw43_arch_init \/ ChoosePio \/ ChooseChannel \/ tuh_init) => UNCHANGED claims
  BY DEF Next, Core0, Core1, set_sys_clock_khz, flash_safe_execute_core_init,
         multicore_launch_core1, sem_acquire_blocking, ReassertClock, ble_hid_periph_init_flash,
         sem_release, SaveBond, FlashWritten, LinkChange, led_timer_handler, Tick
<1> QED BY <1>1, <1>2, <1>3, <1>4, <1>5, <1>6 DEF vars

LEMMA LampTypesKept == ASSUME LampTypes, [Next]_vars PROVE LampTypes'
<1> USE DEF LampTypes
<1>1. CASE sem_release
  BY <1>1, BootAssumption DEF sem_release
<1>2. CASE LinkChange
  BY <1>2, BootAssumption DEF LinkChange, lamp, Long
<1>3. CASE led_timer_handler
  <2>1. led' \in BOOLEAN /\ led_state' \in BOOLEAN /\ was_connected' \in BOOLEAN
    BY <1>3 DEF led_timer_handler, ShowConnected, Blink
  <2>2. led_timer' \in 0..BlinkTicks
    BY <1>3, BootAssumption DEF led_timer_handler, ShowConnected, Blink
  <2>3. unchanged' \in 0..Long
    BY <1>3, BootAssumption DEF led_timer_handler, Long
  <2> QED BY <1>3, <2>1, <2>2, <2>3 DEF led_timer_handler
<1>4. CASE Tick
  <2>1. steady' \in 0..Long /\ unchanged' \in 0..Long
    BY <1>4, BootAssumption DEF Tick, Count, Long
  <2> QED BY <1>4, <2>1, BootAssumption DEF Tick
<1>5. CASE UNCHANGED blink
  <2>1. UNCHANGED <<led_timer, led_state, was_connected, led, unchanged, connected, steady>>
    BY <1>5 DEF blink, lamp
  <2> QED BY <2>1
<1>6. Next /\ ~(sem_release \/ LinkChange \/ led_timer_handler \/ Tick) => UNCHANGED blink
  BY DEF Next, Core0, Core1, set_sys_clock_khz, flash_safe_execute_core_init,
         multicore_launch_core1, sem_acquire_blocking, ReassertClock, ChoosePio, ChooseChannel,
         tuh_init, cyw43_arch_init, ble_hid_periph_init_flash, SaveBond, FlashWritten
<1> QED BY <1>1, <1>2, <1>3, <1>4, <1>5, <1>6 DEF vars

\* Every variable keeps its type: the semaphore has one permit at most, the radio driver only
\* holds what the chip has, and the LED's timer is never set beyond its interval.
THEOREM BootTypeCorrect == Spec => []TypeOK
<1>1. Init => TypeOK
  <2> SUFFICES ASSUME Init PROVE TypeOK OBVIOUS
  <2>1. CoreTypes BY DEF Init, CoreTypes
  <2>2. FlashTypes BY DEF Init, FlashTypes
  <2>3. ClaimTypes BY DEF Init, ClaimTypes
  <2>4. connected \in BOOLEAN /\ led_state \in BOOLEAN /\ was_connected \in BOOLEAN /\ led \in BOOLEAN
    BY DEF Init
  <2>5. led_timer \in 0..BlinkTicks /\ steady \in 0..Long /\ unchanged \in 0..Long
    BY BootAssumption DEF Init, Long
  <2> QED BY <2>1, <2>2, <2>3, <2>4, <2>5, TypeParts DEF LampTypes
<1>2. TypeOK /\ [Next]_vars => TypeOK'
  <2>1. TypeOK' <=> CoreTypes' /\ FlashTypes' /\ ClaimTypes' /\ LampTypes'
    BY DEF TypeOK, CoreTypes, FlashTypes, ClaimTypes, LampTypes
  <2> QED BY <2>1, TypeParts, CoreTypesKept, FlashTypesKept, ClaimTypesKept, LampTypesKept
<1> QED BY <1>1, <1>2, PTL DEF Spec

-----------------------------------------------------------------------------
\* What the LED timer leaves behind: was_connected tells which branch of the handler ran last,
\* hence what the next run will make of the LED and how far away it is.
ShownInv ==
    /\ pc1 # "run" => ~connected /\ ~was_connected
    /\ was_connected => led
    /\ ~was_connected => (led <=> led_state)
DueInv ==
    /\ pc1 # "run" => unchanged = 0 /\ led_timer = 0
    /\ was_connected => led_timer <= CheckTicks
    /\ ~was_connected => unchanged + led_timer <= BlinkTicks
    /\ connected /\ ~was_connected => steady + led_timer <= BlinkTicks
    /\ ~connected /\ was_connected => steady + led_timer <= CheckTicks
LampInv == LampTypes /\ ShownInv /\ DueInv

LEMMA CountBound == ASSUME NEW n \in 0..Long PROVE Count(n) \in 0..Long /\ Count(n) <= n + 1
BY BootAssumption DEF Count, Long

LEMMA LampInit == Init => LampInv
<1> SUFFICES ASSUME Init PROVE LampInv OBVIOUS
<1>1. ShownInv BY DEF Init, ShownInv
<1>2. /\ unchanged = 0 /\ led_timer = 0 /\ steady = 0
      /\ connected = FALSE /\ was_connected = FALSE /\ led_state = FALSE /\ led = FALSE
  BY DEF Init
<1>3. DueInv BY <1>2, BootAssumption DEF DueInv
<1>4. connected \in BOOLEAN /\ led_state \in BOOLEAN /\ was_connected \in BOOLEAN /\ led \in BOOLEAN
  BY <1>2
<1>5. led_timer \in 0..BlinkTicks /\ steady \in 0..Long /\ unchanged \in 0..Long
  BY <1>2, BootAssumption DEF Long
<1>6. LampTypes BY <1>4, <1>5 DEF LampTypes
<1> QED BY <1>1, <1>3, <1>6 DEF LampInv

LEMMA LampNext == BootInv /\ LampInv /\ [Next]_vars => LampInv'
<1> SUFFICES ASSUME BootInv, LampInv, [Next]_vars PROVE ShownInv' /\ DueInv'
  BY LampTypesKept DEF LampInv
<1> USE DEF LampInv
<1>1. /\ led_timer \in 0..BlinkTicks /\ steady \in 0..Long /\ unchanged \in 0..Long
      /\ BlinkTicks \in Nat /\ CheckTicks \in Nat /\ CheckTicks <= BlinkTicks /\ Long = BlinkTicks + CheckTicks
  BY BootAssumption DEF LampTypes, Long
<1>2. CASE sem_release
  <2>1. /\ pc1 # "run" /\ pc1' = "run" /\ led_timer' = BlinkTicks
        /\ UNCHANGED <<connected, led_state, was_connected, led, steady, unchanged>>
    BY <1>2 DEF sem_release, Step1
  <2>2. ~connected /\ ~was_connected /\ unchanged = 0 BY <2>1 DEF ShownInv, DueInv
  <2>3. ShownInv' BY <2>1, <2>2 DEF ShownInv
  <2>4. DueInv' BY <1>1, <2>1, <2>2 DEF DueInv
  <2> QED BY <2>3, <2>4
<1>3. CASE LinkChange
  <2>1. /\ pc1 = "run" /\ pc1' = "run" /\ connected' = ~connected /\ steady' = 0
        /\ UNCHANGED <<led_timer, led_state, was_connected, led, unchanged>>
    BY <1>3 DEF LinkChange, lamp, cores
  <2>2. ShownInv' BY <2>1 DEF ShownInv
  <2>3. DueInv' BY <1>1, <2>1 DEF DueInv
  <2> QED BY <2>2, <2>3
<1>4. CASE led_timer_handler
  <2>1. /\ pc1 = "run" /\ pc1' = "run" /\ led_timer = 0 /\ UNCHANGED <<connected, steady>>
        /\ unchanged' = IF led' = led THEN unchanged ELSE 0
    BY <1>4 DEF led_timer_handler, cores
  <2>2. CASE connected /\ ShowConnected
    <3>1. was_connected' /\ led_timer' = CheckTicks /\ connected' = connected
      BY <2>1, <2>2 DEF ShowConnected
    <3>2. led' BY <2>2 DEF ShowConnected, ShownInv
    <3>3. ShownInv' BY <2>1, <3>1, <3>2 DEF ShownInv
    <3>4. DueInv' BY <1>1, <2>1, <2>2, <3>1 DEF DueInv
    <3> QED BY <3>3, <3>4
  <2>3. CASE ~connected /\ Blink
    <3>1. ~was_connected' /\ led_timer' = BlinkTicks /\ connected' = connected /\ led' = led_state'
      BY <2>1, <2>3 DEF Blink
    <3>2. led' # led
      <4>1. led' = (~was_connected /\ ~led_state) BY <2>3 DEF Blink
      <4>2. led \in BOOLEAN /\ led_state \in BOOLEAN BY DEF LampTypes
      <4> QED BY <4>1, <4>2 DEF ShownInv
    <3>3. unchanged' = 0 BY <2>1, <3>2
    <3>4. ShownInv' BY <2>1, <3>1 DEF ShownInv
    <3>5. DueInv' BY <1>1, <2>1, <2>3, <3>1, <3>3 DEF DueInv
    <3> QED BY <3>4, <3>5
  <2> QED BY <1>4, <2>2, <2>3 DEF led_timer_handler
<1>5. CASE Tick
  <2>1. /\ pc1 = "run" /\ pc1' = "run" /\ led_timer > 0 /\ led_timer' = led_timer - 1
        /\ steady' = Count(steady) /\ unchanged' = Count(unchanged)
        /\ UNCHANGED <<connected, led_state, was_connected, led>>
    BY <1>5 DEF Tick, cores
  <2>2. /\ steady' \in 0..Long /\ steady' <= steady + 1
        /\ unchanged' \in 0..Long /\ unchanged' <= unchanged + 1
    BY <1>1, <2>1, CountBound
  <2>3. ShownInv' BY <2>1 DEF ShownInv
  <2>4. DueInv' BY <1>1, <2>1, <2>2 DEF DueInv
  <2> QED BY <2>3, <2>4
<1>6. CASE UNCHANGED blink /\ (pc1' = "run" <=> pc1 = "run")
  <2>1. UNCHANGED <<led_timer, led_state, was_connected, led, unchanged, connected, steady>>
    BY <1>6 DEF blink, lamp
  <2> QED BY <1>6, <2>1 DEF ShownInv, DueInv
<1>7. Next /\ ~(sem_release \/ LinkChange \/ led_timer_handler \/ Tick)
        => UNCHANGED blink /\ (pc1' = "run" <=> pc1 = "run")
  <2>1. Core0 => UNCHANGED blink /\ (pc1' = "run" <=> pc1 = "run")
    BY DEF Core0, set_sys_clock_khz, flash_safe_execute_core_init, multicore_launch_core1,
           sem_acquire_blocking, ReassertClock, ChoosePio, ChooseChannel, tuh_init, Step0, BootInv, OrderInv
  <2>2. cyw43_arch_init \/ ble_hid_periph_init_flash \/ SaveBond \/ FlashWritten
          => UNCHANGED blink /\ (pc1' = "run" <=> pc1 = "run")
    BY DEF cyw43_arch_init, ble_hid_periph_init_flash, SaveBond, FlashWritten, Step1, cores
  <2> QED BY <2>1, <2>2 DEF Next, Core1
<1> QED BY <1>2, <1>3, <1>4, <1>5, <1>6, <1>7 DEF vars, cores

\* The LED never shows the wrong state of the link for longer than the handler's interval: it
\* is on with a connection that has lasted one, it changes at every one without, whatever the
\* two intervals, as long as the check is not the longer one.  (led_timer_handler)
THEOREM LedTellsLink == Spec => []LedShowsLink
<1>1. LampInv => LedShowsLink
  <2> SUFFICES ASSUME LampInv, led_timer > 0
               PROVE  /\ connected /\ steady >= BlinkTicks => led
                      /\ pc1 = "run" /\ ~connected /\ steady >= Long => unchanged <= BlinkTicks
    BY DEF LedShowsLink
  <2>1. /\ led_timer \in 0..BlinkTicks /\ steady \in 0..Long /\ unchanged \in 0..Long
        /\ BlinkTicks \in Nat /\ CheckTicks \in Nat /\ Long = BlinkTicks + CheckTicks
    BY BootAssumption DEF LampInv, LampTypes, Long
  <2>2. connected /\ steady >= BlinkTicks => was_connected BY <2>1 DEF LampInv, DueInv
  <2>3. ~connected /\ steady >= Long => ~was_connected BY <2>1 DEF LampInv, DueInv
  <2>4. ~was_connected => unchanged <= BlinkTicks BY <2>1 DEF LampInv, DueInv
  <2> QED BY <2>2, <2>3, <2>4 DEF LampInv, ShownInv
<1> QED BY <1>1, LampInit, LampNext, BootInvariant, PTL DEF Spec
=============================================================================
