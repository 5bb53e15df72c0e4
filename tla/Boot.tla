-------------------------------- MODULE Boot --------------------------------
(***************************************************************************)
(* Start-up of the two cores and the status LED, src/src/main.c.           *)
(*                                                                         *)
(* Core 0 sets the clock, makes itself pausable for flash writes, starts   *)
(* Core 1 and waits at a semaphore; then it sets the clock again, chooses  *)
(* a PIO block and a DMA channel for USB and starts TinyUSB.  Core 1       *)
(* initialises the radio and the flash bank, arms the LED timer, releases  *)
(* the semaphore and enters the BTstack run loop.                          *)
(*                                                                         *)
(* The SDK and the radio driver are external: what they claim and that     *)
(* they may disturb the clock is taken from the comments of main.c.        *)
(***************************************************************************)
EXTENDS Naturals, FiniteSets

CONSTANTS
    Channels,           \* DMA channels, numbered from 0
    RadioPio,           \* the PIO block the radio driver uses, 0 by main.c:128
    BlinkTicks,         \* LED_BLINK_INTERVAL_MS, in ticks of 100 ms
    CheckTicks          \* LED_CONNECTED_CHECK_INTERVAL_MS

ASSUME BootAssumption ==
    /\ Channels \subseteq Nat /\ RadioPio \in {0, 1}
    /\ BlinkTicks \in Nat \ {0} /\ CheckTicks \in Nat \ {0} /\ CheckTicks <= BlinkTicks

VARIABLES
    pc0, pc1,           \* where main and core1_entry are
    bt_init_sem,        \* permits
    clock,              \* "reset", "usb" (SYS_CLOCK_KHZ), or "radio": disturbed by the radio driver
    lockout,            \* Core 0 can be paused for a flash write
    paused,             \* it is
    refused,            \* history: a flash write was refused
    radio_sms, radio_dma, \* what the radio driver has claimed
    pio, tx_ch,         \* pio_cfg: what main has chosen
    panicked,           \* a claim found its state machine or channel taken
    connected,          \* ble_hid_is_connected()
    led_timer,          \* ticks until it is due
    led_state, was_connected, \* statics of led_timer_handler
    led,                \* the LED itself
    steady, unchanged   \* history: ticks since the connection, since the LED, changed

cores == <<pc0, pc1, bt_init_sem, clock>>
flash == <<lockout, paused, refused>>
claims == <<radio_sms, radio_dma, pio, tx_ch, panicked>>
lamp == <<led_timer, led_state, was_connected, led, unchanged>>
blink == <<lamp, connected, steady>>
vars == <<cores, flash, claims, blink>>

Machines == {0, 1} \X (0..3)        \* state machines of the two PIO blocks
None == Cardinality(Channels)       \* no channel chosen
Long == BlinkTicks + CheckTicks     \* bound: ticks are counted up to here
Lowest(S) == CHOOSE n \in S : \A m \in S : n <= m
Count(n) == IF n < Long THEN n + 1 ELSE Long

Init ==
    /\ pc0 = "reset" /\ pc1 = "off" /\ bt_init_sem = 0 /\ clock = "reset"
    /\ lockout = FALSE /\ paused = FALSE /\ refused = FALSE
    /\ radio_sms = {} /\ radio_dma = {} /\ pio = 0 /\ tx_ch = None /\ panicked = FALSE
    /\ connected = FALSE /\ led_timer = 0 /\ led_state = FALSE /\ was_connected = FALSE
    /\ led = FALSE /\ steady = 0 /\ unchanged = 0

-----------------------------------------------------------------------------
(***************************************************************************)
(* Core 0: main                                                            *)
(***************************************************************************)
Step0(from, to) == pc0 = from /\ ~paused /\ ~panicked /\ pc0' = to

\* The clock is set, the semaphore has no permit.
set_sys_clock_khz ==
    /\ Step0("reset", "lockout") /\ clock' = "usb" /\ bt_init_sem' = 0
    /\ UNCHANGED <<pc1, flash, claims, blink>>

flash_safe_execute_core_init ==
    /\ Step0("lockout", "launch") /\ lockout' = TRUE
    /\ UNCHANGED <<pc1, bt_init_sem, clock, paused, refused, claims, blink>>

\* Fault: Core 1 is started first.
LaunchEarly ==
    /\ Step0("lockout", "wait") /\ pc1' = "radio"
    /\ UNCHANGED <<bt_init_sem, clock, flash, claims, blink>>

multicore_launch_core1 ==
    /\ Step0("launch", "wait") /\ pc1' = "radio"
    /\ UNCHANGED <<bt_init_sem, clock, flash, claims, blink>>

\* Fault: Core 0 goes on at once.
NotWaiting ==
    /\ Step0("wait", "clock")
    /\ UNCHANGED <<pc1, clock, bt_init_sem, flash, claims, blink>>

sem_acquire_blocking ==
    /\ bt_init_sem > 0 /\ Step0("wait", "clock") /\ bt_init_sem' = bt_init_sem - 1
    /\ UNCHANGED <<pc1, clock, flash, claims, blink>>

\* Fault: the clock is not set again.
ClockLeft ==
    /\ Step0("clock", "pio")
    /\ UNCHANGED <<pc1, clock, bt_init_sem, flash, claims, blink>>

\* cyw43_arch_init may have changed it.
ReassertClock ==
    /\ Step0("clock", "pio") /\ clock' = "usb"
    /\ UNCHANGED <<pc1, bt_init_sem, flash, claims, blink>>

Unused(block) == {m \in 0..3 : <<block, m>> \notin radio_sms}

\* PIO1 while a state machine of it is unused.
ChosenPio == IF Unused(1) # {} THEN 1 ELSE 0

\* pio_claim_unused_sm and its undoing: only the block is remembered.
ChoosePio ==
    /\ Step0("pio", "dma") /\ pio' = ChosenPio
    /\ UNCHANGED <<pc1, clock, bt_init_sem, flash, radio_sms, radio_dma, tx_ch, panicked, blink>>

\* dma_claim_unused_channel takes the lowest, or panics; then it is given back.
ChooseChannel ==
    LET unused == Channels \ radio_dma
    IN  /\ Step0("dma", "init")
        /\ panicked' = (unused = {}) /\ tx_ch' = IF unused = {} THEN None ELSE Lowest(unused)
        /\ UNCHANGED <<pc1, clock, bt_init_sem, flash, radio_sms, radio_dma, pio, blink>>

\* pio_usb_bus_init claims the channel and state machines 0, 1 and 2 of the block.
tuh_init ==
    /\ Step0("init", "loop")
    /\ panicked' = (tx_ch \in radio_dma \/ \E m \in 0..2 : <<pio, m>> \in radio_sms)
    /\ UNCHANGED <<pc1, clock, bt_init_sem, flash, radio_sms, radio_dma, pio, tx_ch, blink>>

Core0 ==
    \/ set_sys_clock_khz \/ flash_safe_execute_core_init \/ multicore_launch_core1
    \/ sem_acquire_blocking \/ ReassertClock \/ ChoosePio \/ ChooseChannel \/ tuh_init

-----------------------------------------------------------------------------
(***************************************************************************)
(* Core 1: core1_entry                                                     *)
(***************************************************************************)
Step1(from, to) == pc1 = from /\ pc1' = to

\* The driver claims the lowest one or two channels that are free.
RadioChannels ==
    LET free == Channels \ (IF pc0 = "loop" THEN {tx_ch} ELSE {})
    IN  {taken \in SUBSET free : /\ Cardinality(taken) \in 1..2
                                 /\ \A c \in taken, d \in free \ taken : c < d}

\* It claims a state machine, too, or fails: then core1_entry returns.
cyw43_arch_init ==
    /\ \/ Step1("radio", "returned") /\ UNCHANGED <<radio_sms, radio_dma, clock>>
       \/ /\ Step1("radio", "flash") /\ clock' \in {clock, "radio"}
          /\ radio_sms' = {<<RadioPio, Lowest(0..3)>>}
          /\ radio_dma' \in RadioChannels
    /\ UNCHANGED <<pc0, bt_init_sem, flash, pio, tx_ch, panicked, blink>>

\* flash_safe_execute: refused unless Core 0 can be paused, else the write begins.
WriteFlash ==
    IF lockout THEN paused' = TRUE /\ UNCHANGED refused ELSE refused' = TRUE /\ UNCHANGED paused

\* BTstack may have the flash bank set up on its first start.
ble_hid_periph_init_flash ==
    /\ Step1("flash", "timer")
    /\ WriteFlash \/ UNCHANGED <<paused, refused>>
    /\ UNCHANGED <<pc0, bt_init_sem, clock, lockout, claims, blink>>

\* Fault: the permit is forgotten.
NoRelease ==
    /\ ~paused /\ Step1("timer", "run")
    /\ led_timer' = BlinkTicks
    /\ UNCHANGED <<pc0, clock, bt_init_sem, flash, claims, connected, led_state, was_connected, led, steady, unchanged>>

\* The timer is armed and Core 0 released.
sem_release ==
    /\ ~paused /\ Step1("timer", "run")
    /\ bt_init_sem' = 1 /\ led_timer' = BlinkTicks
    /\ UNCHANGED <<pc0, clock, flash, claims, connected, led_state, was_connected, led, steady, unchanged>>

\* In the run loop BTstack saves the keys of a bond.
SaveBond ==
    /\ pc1 = "run" /\ ~paused /\ WriteFlash
    /\ UNCHANGED <<cores, lockout, claims, blink>>

FlashWritten ==
    /\ paused /\ paused' = FALSE
    /\ UNCHANGED <<cores, lockout, refused, claims, blink>>

\* A host's connection becomes encrypted, or ends.
LinkChange ==
    /\ pc1 = "run" /\ connected' = ~connected /\ steady' = 0
    /\ UNCHANGED <<cores, flash, claims, lamp>>

\* Fault: a new connection does not switch the LED on.
ConnectedUnlit ==
    /\ was_connected' = TRUE /\ led_timer' = CheckTicks
    /\ UNCHANGED <<led, led_state>>

\* Solid while connected; looked at again soon.
ShowConnected ==
    /\ led' = (~was_connected \/ led) /\ was_connected' = TRUE
    /\ led_timer' = CheckTicks /\ UNCHANGED led_state

\* Off first, then blinking.
Blink ==
    /\ led_state' = (~was_connected /\ ~led_state) /\ was_connected' = FALSE
    /\ led' = led_state' /\ led_timer' = BlinkTicks

led_timer_handler ==
    /\ pc1 = "run" /\ ~paused /\ led_timer = 0
    /\ IF connected THEN ShowConnected ELSE Blink
    /\ unchanged' = IF led' = led THEN unchanged ELSE 0
    /\ UNCHANGED <<cores, flash, claims, connected, steady>>

Core1 ==
    \/ cyw43_arch_init \/ ble_hid_periph_init_flash \/ sem_release
    \/ SaveBond \/ FlashWritten \/ LinkChange \/ led_timer_handler

-----------------------------------------------------------------------------
\* 100 ms pass; a timer that is due has run by then, and a flash write has ended.
Tick ==
    /\ pc1 = "run" /\ led_timer > 0 /\ ~paused
    /\ led_timer' = led_timer - 1
    /\ steady' = Count(steady) /\ unchanged' = Count(unchanged)
    /\ UNCHANGED <<cores, flash, claims, connected, led_state, was_connected, led>>

Next == Core0 \/ Core1 \/ Tick

\* Each core runs on, Core 0 between two flash writes, too; what the radio, the host and the
\* user do is not promised.
Spec ==
    /\ Init /\ [][Next]_vars
    /\ SF_vars(Core0) /\ WF_vars(cyw43_arch_init) /\ WF_vars(ble_hid_periph_init_flash)
    /\ WF_vars(sem_release) /\ WF_vars(FlashWritten)
    /\ SF_vars(Tick) /\ SF_vars(led_timer_handler)

-----------------------------------------------------------------------------
(***************************************************************************)
(* Properties                                                              *)
(***************************************************************************)

\* Variables keep their types, and the semaphore has one permit at most.  (sem_init)
TypeOK ==
    /\ pc0 \in {"reset", "lockout", "launch", "wait", "clock", "pio", "dma", "init", "loop"}
    /\ pc1 \in {"off", "radio", "returned", "flash", "timer", "run"}
    /\ bt_init_sem \in 0..1 /\ clock \in {"reset", "usb", "radio"}
    /\ {lockout, paused, refused, panicked, connected, led_state, was_connected, led} \subseteq BOOLEAN
    /\ radio_sms \subseteq Machines /\ radio_dma \subseteq Channels
    /\ pio \in {0, 1} /\ tx_ch \in Channels \cup {None}
    /\ led_timer \in 0..BlinkTicks /\ steady \in 0..Long /\ unchanged \in 0..Long

\* USB is only started and run with the exact clock, whatever the radio driver did to it
\* before.  (set_sys_clock_khz after sem_acquire_blocking)
ClockExact == pc0 \in {"pio", "dma", "init", "loop"} => clock = "usb"

\* What USB claims is not what the radio driver holds: no claim panics.  (pio1 preferred,
\* the channel asked for after the radio has its own)
NoPanic == ~panicked

\* No flash write is refused for a Core 0 that cannot be paused.
\* (flash_safe_execute_core_init before multicore_launch_core1)
BondsWritable == ~refused

\* The main loop is entered unless the radio fails to start.  (the semaphore)
LoopEntered == <>(pc0 = "loop" \/ pc1 = "returned")

\* The LED shows the link: a connection that has lasted a blink interval keeps it on; without
\* one it changes at least every blink interval, from the next check on.  (led_timer_handler)
LedShowsLink ==
    led_timer > 0 =>
        /\ (connected /\ steady >= BlinkTicks) => led
        /\ (pc1 = "run" /\ ~connected /\ steady >= Long) => unchanged <= BlinkTicks
=============================================================================
