---------------------------- MODULE NodeStartup ----------------------------
(***************************************************************************)
(* From reset to the application's main loop: SystemInit of each image     *)
(* (platform/system_clock.c, the same text in both), the bootloader's      *)
(* SysTick, ApplicationJump_Execute with its assembly helper, and the      *)
(* application's main up to its loop, one register write per step.  The    *)
(* clock hardware and the interrupts run in between; the node may be reset *)
(* at any time.                                                            *)
(***************************************************************************)
EXTENDS StdPeriph

CONSTANTS MaxResets     \* bound of the resets after power on

VARIABLES
    image,              \* whose code runs
    pc,                 \* the next statement
    at,                 \* its place in a list of writes
    rcc,
    crystal,            \* whether the external oscillator ever starts
    latency,            \* wait states of the flash, FLASH->ACR
    SystemCoreClock,
    vtor,               \* whose vector table the core uses
    primask,
    systick,            \* on, load
    enabled,            \* NVIC: interrupts enabled
    pending,            \* interrupts pending, each with the image that caused it
    priority,           \* their priorities, a smaller number is served first
    taken,              \* the interrupt served last
    resets

core == <<vtor, primask, systick, enabled, pending, priority, taken>>
vars == <<image, pc, at, rcc, crystal, latency, SystemCoreClock, core, resets>>

NoInterrupt == [source |-> "none", owner |-> "none", table |-> "none", by |-> "none"]

(* What a reset leaves.                                                    *)
ResetState ==
    /\ image' = "bootloader" /\ pc' = "init" /\ at' = 1
    /\ rcc' = ResetRcc /\ latency' = 0 /\ SystemCoreClock' = HSI_VALUE
    /\ vtor' = "bootloader" /\ primask' = FALSE /\ systick' = [on |-> FALSE, load |-> 0]
    /\ enabled' = {} /\ pending' = {}
    /\ priority' = [SysTick |-> 0, USART1 |-> 0] /\ taken' = NoInterrupt

Init ==
    /\ image = "bootloader" /\ pc = "init" /\ at = 1
    /\ rcc = ResetRcc /\ latency = 0 /\ SystemCoreClock = HSI_VALUE
    /\ vtor = "bootloader" /\ primask = FALSE /\ systick = [on |-> FALSE, load |-> 0]
    /\ enabled = {} /\ pending = {}
    /\ priority = [SysTick |-> 0, USART1 |-> 0] /\ taken = NoInterrupt
    /\ crystal \in {"good", "dead"}
    /\ resets = 0

-----------------------------------------------------------------------------
(* The clock hardware.                                                     *)

Sws(r) == Field(r.CFGR, 2, 3)
Sw(r) == Field(r.CFGR, 0, 1)

(* Bits a write does not change: flags, an oscillator that is in use, the  *)
(* configuration of a running PLL.                                         *)
HeldCR(r) ==
    {HSIRDY, HSERDY, PLLRDY}
      \cup IF Sws(r) = 2 THEN {PLLON} \cup IF 16 \in r.CFGR THEN {HSEON} ELSE {} ELSE {}
HeldCFGR(r) == {2, 3} \cup IF PLLON \in r.CR THEN 16..21 ELSE {}
Written(r, w) ==
    LET new == Stored(r, w)
    IN  [new EXCEPT !.CR = (@ \ HeldCR(r)) \cup (r.CR \cap HeldCR(r)),
                    !.CFGR = (@ \ HeldCFGR(r)) \cup (r.CFGR \cap HeldCFGR(r))]

HseFlag ==
    rcc' = [rcc EXCEPT !.CR = IF HSEON \in @ THEN @ \cup {HSERDY} ELSE @ \ {HSERDY}]
PllFlag ==
    rcc' = [rcc EXCEPT !.CR = IF PLLON \in @ THEN @ \cup {PLLRDY} ELSE @ \ {PLLRDY}]
SwitchFollows ==
    /\ Sw(rcc) = 2 => PLLRDY \in rcc.CR
    /\ rcc' = [rcc EXCEPT !.CFGR = (@ \ {2, 3}) \cup {i + 2 : i \in @ \cap {0, 1}}]
Hardware ==
    /\ \/ (HSEON \in rcc.CR => crystal = "good") /\ HseFlag
       \/ (PLLON \in rcc.CR => HSERDY \in rcc.CR) /\ PllFlag
       \/ SwitchFollows
    /\ rcc' # rcc
    /\ UNCHANGED <<image, pc, at, crystal, latency, SystemCoreClock, core, resets>>

-----------------------------------------------------------------------------
(* SystemInit.                                                             *)

SystemInitWrites ==
    <<Store("CR", AllBits, {HSION}),
      Store("CFGR", Hex(\hF8FF, 0), {}),
      Store("CR", Hex(\hFEF6, \hFFFF), {}),
      Store("CR", Hex(\hFFFB, \hFFFF), {}),
      Store("CFGR", Hex(\hFF80, \hFFFF), {}),
      Store("CIR", {}, {})>>

(* The clock tree for 72 MHz: HPRE, PPRE1, PPRE2, ADCPRE, PLLSRC,          *)
(* PLLXTPRE, PLLMULL and SW are cleared, then set.                         *)
TreeWrites ==
    <<Store("CFGR", AllBits \ ((4..21) \cup {0, 1}), {}),
      Store("CFGR", AllBits, HCLK_Div(2) \cup PCLK2_Div(6) \cup {16} \cup PLLMul(9))>>

Goto(label) == pc' = label /\ at' = 1

Write(label, w, next) ==
    /\ pc = label
    /\ rcc' = Written(rcc, w)
    /\ Goto(next)
    /\ UNCHANGED <<image, crystal, latency, SystemCoreClock, core, resets>>

(* A list of writes, one per step.                                         *)
Writes(label, list, next) ==
    /\ pc = label
    /\ rcc' = Written(rcc, list[at])
    /\ IF at = Len(list) THEN Goto(next) ELSE at' = at + 1 /\ UNCHANGED pc
    /\ UNCHANGED <<image, crystal, latency, SystemCoreClock, core, resets>>

Branch(label, next) ==
    /\ pc = label
    /\ Goto(next)
    /\ UNCHANGED <<image, rcc, crystal, latency, SystemCoreClock, core, resets>>

SetLatency(label, next) ==
    /\ pc = label
    /\ latency' = 2
    /\ Goto(next)
    /\ UNCHANGED <<image, rcc, crystal, SystemCoreClock, core, resets>>

SetCoreClock(label, value, next) ==
    /\ pc = label
    /\ SystemCoreClock' = value
    /\ Goto(next)
    /\ UNCHANGED <<image, rcc, crystal, latency, core, resets>>

(* Mutant: it waits for the crystal as long as it takes.                   *)
NoTimeout ==
    \/ Write("hse_on", Store("CR", AllBits, {HSEON}), "hse_wait")
    \/ HSERDY \in rcc.CR /\ Branch("hse_wait", "latency")
    \/ SetLatency("latency", "tree")
    \/ Writes("tree", TreeWrites, "pll_on")
    \/ Write("pll_on", Store("CR", AllBits, {PLLON}), "pll_wait")
    \/ PLLRDY \in rcc.CR /\ Branch("pll_wait", "switch")
    \/ Write("switch", Store("CFGR", AllBits \ {0, 1}, {1}), "switch_wait")
    \/ Sws(rcc) = 2 /\ Branch("switch_wait", "ok")

(* The wait for the crystal ends when it is ready or the count runs out,   *)
(* long after a clock switch has been done.                                *)
SystemClock_TryConfigure72MHz ==
    \/ Write("hse_on", Store("CR", AllBits, {HSEON}), "hse_wait")
    \/ HSERDY \in rcc.CR /\ Branch("hse_wait", "latency")
    \/ HSERDY \notin rcc.CR /\ Sws(rcc) = Sw(rcc) /\ Branch("hse_wait", "hse_check")
    \/ HSERDY \in rcc.CR /\ Branch("hse_check", "latency")
    \/ HSERDY \notin rcc.CR /\ Branch("hse_check", "fallback")
    \/ SetLatency("latency", "tree")
    \/ Writes("tree", TreeWrites, "pll_on")
    \/ Write("pll_on", Store("CR", AllBits, {PLLON}), "pll_wait")
    \/ PLLRDY \in rcc.CR /\ Branch("pll_wait", "switch")
    \/ Write("switch", Store("CFGR", AllBits \ {0, 1}, {1}), "switch_wait")
    \/ Sws(rcc) = 2 /\ Branch("switch_wait", "ok")

SetVtor(label, table, next) ==
    /\ pc = label
    /\ vtor' = table
    /\ Goto(next)
    /\ UNCHANGED <<image, rcc, crystal, latency, SystemCoreClock, primask, systick, enabled,
                   pending, priority, taken, resets>>

SystemInit ==
    \/ Writes("init", SystemInitWrites, "hse_on")
    \/ SystemClock_TryConfigure72MHz
    \/ SetCoreClock("ok", 72000000, "vtor")
    \/ Write("fallback", Store("CFGR", AllBits \ {0, 1}, {}), "fallback_clock")
    \/ SetCoreClock("fallback_clock", HSI_VALUE, "vtor")
    \/ SetVtor("vtor", image, "main")

SystemCoreClockUpdate(r) ==
    CASE Sws(r) = 2 -> 72000000 [] Sws(r) = 1 -> HSE_VALUE [] OTHER -> HSI_VALUE

-----------------------------------------------------------------------------
(* Interrupts.                                                             *)

SysTick_LOAD_RELOAD_Msk == 2 ^ 24 - 1

(* core_cm3.h: a reload that does not fit its 24 bits is refused, and the  *)
(* result is 1.                                                            *)
SysTick_ConfigResult(ticks) == IF ticks > SysTick_LOAD_RELOAD_Msk THEN 1 ELSE 0
SysTick_Config(ticks) ==
    IF SysTick_ConfigResult(ticks) = 1 THEN UNCHANGED <<systick, priority>>
    ELSE /\ systick' = [on |-> TRUE, load |-> (ticks - 1) % 2 ^ 24]
         /\ priority' = [priority EXCEPT !.SysTick = (2 ^ 4 - 1) * 2 ^ 4]

(* Both mains start the tick and stop for good when they cannot.           *)
StartTick(next) ==
    LET ticks == SystemCoreClock \div 1000
    IN  /\ pc = "main"
        /\ SysTick_Config(ticks)
        /\ Goto(IF SysTick_ConfigResult(ticks) = 0 THEN next ELSE "fatal")
        /\ UNCHANGED <<image, rcc, crystal, latency, SystemCoreClock, vtor, primask, enabled,
                       pending, taken, resets>>

(* misc.c.  The group of AIRCR is never set, so it is 0 and the shift is   *)
(* by 4 - 7: the core's shift by such a register gives 0.                  *)
NVIC_InitPriority(group, preemption, sub) ==
    LET bits == 7 - group
        shift == 4 - bits
    IN  16 * ((IF shift < 0 THEN 0 ELSE (preemption * 2 ^ shift) % 256)
              + (sub % 2 ^ (IF bits > 4 THEN 0 ELSE 4 - bits)))

NVIC_Init(label, irq, next) ==
    /\ pc = label
    /\ priority' = [priority EXCEPT ![irq] = NVIC_InitPriority(0, 2, 0)]
    /\ enabled' = enabled \cup {irq}
    /\ Goto(next)
    /\ UNCHANGED <<image, rcc, crystal, latency, SystemCoreClock, vtor, primask, systick,
                   pending, taken, resets>>

Pend(source) ==
    /\ \A p \in pending : p.source # source
    /\ pending' = pending \cup {[source |-> source, owner |-> image]}
    /\ UNCHANGED <<image, pc, at, rcc, crystal, latency, SystemCoreClock, vtor, primask,
                   systick, enabled, priority, taken, resets>>
Tick == systick.on /\ Pend("SysTick")
Received == "USART1" \in enabled /\ Pend("USART1")

Ready == {p \in pending : p.source = "SysTick" \/ p.source \in enabled}

(* Dispatch through the vector table, highest priority first.              *)
Take(source) ==
    /\ ~primask
    /\ \E p \in Ready :
         /\ p.source = source
         /\ \A q \in Ready : priority[p.source] <= priority[q.source]
         /\ taken' = [source |-> p.source, owner |-> p.owner, table |-> vtor, by |-> image]
         /\ pending' = pending \ {p}
    /\ UNCHANGED <<image, pc, at, rcc, crystal, latency, SystemCoreClock, vtor, primask,
                   systick, enabled, priority, resets>>
TakeInterrupt == Take("SysTick") \/ Take("USART1")

-----------------------------------------------------------------------------
(* ApplicationJump_Execute, from the boot manager's loop.                  *)

StopSystemTick ==
    /\ image = "bootloader" /\ pc = "loop"
    /\ systick' = [on |-> FALSE, load |-> 0]
    /\ Goto("mask")
    /\ UNCHANGED <<image, rcc, crystal, latency, SystemCoreClock, vtor, primask, enabled,
                   pending, priority, taken, resets>>

(* Mutant: what is pending is left pending.                                *)
LeavePending ==
    \/ /\ pc = "mask" /\ primask' = TRUE /\ Goto("clear_nvic")
       /\ UNCHANGED <<image, rcc, crystal, latency, SystemCoreClock, vtor, systick, enabled,
                      pending, priority, taken, resets>>
    \/ /\ pc = "clear_nvic" /\ enabled' = {} /\ Goto("deinit")
       /\ UNCHANGED <<image, rcc, crystal, latency, SystemCoreClock, vtor, primask, systick,
                      pending, priority, taken, resets>>

DisableAndClearInterrupts ==
    \/ /\ pc = "mask" /\ primask' = TRUE /\ Goto("clear_nvic")
       /\ UNCHANGED <<image, rcc, crystal, latency, SystemCoreClock, vtor, systick, enabled,
                      pending, priority, taken, resets>>
    \/ /\ pc = "clear_nvic"
       /\ enabled' = {}
       /\ pending' = {p \in pending : p.source = "SysTick"}
       /\ Goto("clear_tick")
       /\ UNCHANGED <<image, rcc, crystal, latency, SystemCoreClock, vtor, primask, systick,
                      priority, taken, resets>>
    \/ /\ pc = "clear_tick"
       /\ pending' = {p \in pending : p.source # "SysTick"}
       /\ Goto("deinit")
       /\ UNCHANGED <<image, rcc, crystal, latency, SystemCoreClock, vtor, primask, systick,
                      enabled, priority, taken, resets>>

(* application_handoff.s, and the application's Reset_Handler, which       *)
(* copies .data.                                                           *)
SetStackAndBranch ==
    /\ pc = "branch"
    /\ primask' = FALSE
    /\ image' = "application"
    /\ SystemCoreClock' = HSI_VALUE
    /\ Goto("init")
    /\ UNCHANGED <<rcc, crystal, latency, vtor, systick, enabled, pending, priority, taken,
                   resets>>

ApplicationJump_Execute ==
    \/ StopSystemTick
    \/ DisableAndClearInterrupts
    \/ Writes("deinit", RCC_DeInitWrites, "jump_vtor")
    \/ SetVtor("jump_vtor", "application", "branch")
    \/ SetStackAndBranch

-----------------------------------------------------------------------------
(* Both mains.                                                             *)

BootMain == image = "bootloader" /\ StartTick("loop")

ApplicationMain ==
    /\ image = "application"
    /\ \/ IF vtor # "application" THEN Branch("main", "fatal")
          ELSE StartTick("uart")
       \/ NVIC_Init("uart", "USART1", "loop")

(* A watchdog, a pin or a power reset; the crystal may have died or come   *)
(* back.                                                                   *)
Reset ==
    /\ resets < MaxResets
    /\ resets' = resets + 1
    /\ crystal' \in {"good", "dead"}
    /\ ResetState

(* A busy wait that finds nothing new.                                     *)
Poll == pc \in {"hse_wait", "pll_wait", "switch_wait", "loop", "fatal"} /\ UNCHANGED vars

Cpu == SystemInit \/ ApplicationJump_Execute \/ BootMain \/ ApplicationMain

Next ==
    \/ SystemInit
    \/ ApplicationJump_Execute
    \/ BootMain
    \/ ApplicationMain
    \/ Hardware
    \/ Tick
    \/ Received
    \/ TakeInterrupt
    \/ Poll
    \/ Reset

Spec == Init /\ [][Next]_vars

-----------------------------------------------------------------------------
(* Properties.                                                             *)

(* The clock in use is one that is on and stable, and the flash has the    *)
(* wait states of 72 MHz whenever the PLL drives the core, through both    *)
(* initialisations, the de-initialisation and resets.                      *)
ClockIsSafe ==
    /\ HSION \in rcc.CR
    /\ Sws(rcc) = 2 => /\ {PLLON, PLLRDY, HSEON} \subseteq rcc.CR
                       /\ latency = 2

(* While SysTick counts, it counts milliseconds of the clock the core      *)
(* really has, SystemCoreClock is that clock and PCLK1 is within its limit *)
(* of 36 MHz: with the crystal or without, and in each image.              *)
TickIsMillisecond ==
    systick.on =>
        /\ 1000 * (systick.load + 1) = RCC_GetClocksFreq(rcc).HCLK_Frequency
        /\ SystemCoreClock = RCC_GetClocksFreq(rcc).HCLK_Frequency
        /\ SystemCoreClockUpdate(rcc) = SystemCoreClock
        /\ RCC_GetClocksFreq(rcc).PCLK1_Frequency <= 36000000

(* docs/boot-jump.md: no stale bootloader interrupt executes in the        *)
(* application, and each interrupt is served through the vector table of   *)
(* the image that runs.                                                    *)
NoStaleInterrupt == taken.table = taken.by /\ taken.owner = taken.by

(* The clock comes up or is given up, the jump is made, and the            *)
(* application ends in its loop with its tick interrupt arriving, not in   *)
(* the fatal blink.                                                        *)
ApplicationTicks ==
    /\ <>[](image = "application" /\ pc = "loop")
    /\ []<>(taken.source = "SysTick" /\ taken.by = "application")
=============================================================================
