------------------------------- MODULE MCBoard -------------------------------
(***************************************************************************)
(* From reset to a running application, for TLC.  A behaviour is one of    *)
(* three units:                                                            *)
(*   "vector"    an image and the two checks of its first words, with the  *)
(*               memory map of the STM32F103C8 and words on both sides of  *)
(*               every bound that the checks compare them with;            *)
(*   "start-up"  the clocks, the interrupts and the jump (NodeStartup);    *)
(*   "set-up"    the pins, the buses and the watchdog (BoardSetup).        *)
(***************************************************************************)
EXTENDS ImageVector

CONSTANTS MaxResets     \* bound of the resets in a behaviour of the second unit

VARIABLES
    unit,
    running, label, at, clocks, crystal, latency, SystemCoreClock, vtor, primask, systick,
    enabled, pending, priority, taken, resets,                          \* of NodeStartup
    rcc, ports, spi, usart, iwdg, pc, trial, ill, spent, ready          \* of BoardSetup

Around(S) == {n + d : n \in S, d \in -2..2} \cap Nat

MCSramBase == 536870912                  \* 0x20000000
MCSramEnd == MCSramBase + 20 * 1024
MCApplicationStart == 134242304          \* 0x08006000
MCMaxSize == 38 * 1024
MCMetadata == 134281216                  \* 0x0800F800

MCStackPointers ==
    Around({0, MCSramBase, MCSramBase + 8, MCSramBase + 1024, MCSramEnd - 8, MCSramEnd,
            MCSramEnd + 8})
MCResetHandlers ==
    Around({0, MCApplicationStart, MCApplicationStart + 8, MCApplicationStart + 4096,
            MCMetadata, MCSramBase})
MCSizes == Around({0, 8, 4096, MCMaxSize})

Startup == INSTANCE NodeStartup WITH
    HSI_VALUE <- 8000000, HSE_VALUE <- 8000000,
    image <- running, pc <- label, rcc <- clocks

Setup == INSTANCE BoardSetup WITH
    HSI_VALUE <- 8000000, HSE_VALUE <- 8000000, UART_OTA_BAUD_RATE <- 115200,
    TRIAL_IWDG_RELOAD <- 3000, TRIAL_CONFIRM_DELAY_MS <- 750,
    LsiMax <- 60, UnitMs <- 50, SetupUnits <- 10, CommitUnits <- 3

startVars == <<running, label, at, clocks, crystal, latency, SystemCoreClock, vtor, primask,
               systick, enabled, pending, priority, taken, resets>>
setupVars == <<rcc, ports, spi, usart, iwdg, pc, trial, ill, spent, ready>>
boardVars == <<unit, image, place, startVars, setupVars>>

BoardInit ==
    /\ unit \in {"vector", "start-up", "set-up"}
    /\ IF unit = "vector" THEN Init ELSE image = <<>> /\ place = "offered"
    /\ Startup!Init /\ (unit # "start-up" => crystal = "good")
    /\ Setup!Init /\ (unit # "set-up" => rcc.CFGR = {})

InStartup(A) == unit = "start-up" /\ A /\ UNCHANGED <<unit, image, place, setupVars>>
InSetup(A) == unit = "set-up" /\ A /\ UNCHANGED <<unit, image, place, startVars>>

BoardNext ==
    \/ unit = "vector" /\ Next /\ UNCHANGED <<unit, startVars, setupVars>>
    \/ InStartup(Startup!Next)
    \/ InSetup(Setup!Next)

(* Start-up: the core runs, the hardware does what it was told in finite   *)
(* time, the timer counts and an interrupt that may be served is served;   *)
(* bytes come more slowly than their handler runs, so they leave room for  *)
(* the tick.  Set-up: code runs, time passes, and a watchdog that has run  *)
(* out resets.                                                             *)
BoardFairness ==
    /\ WF_boardVars(InStartup(Startup!Cpu)) /\ WF_boardVars(InStartup(Startup!Hardware))
    /\ WF_boardVars(InStartup(Startup!Tick)) /\ WF_boardVars(InStartup(Startup!Take("USART1")))
    /\ SF_boardVars(InStartup(Startup!Take("SysTick")))
    /\ WF_boardVars(InSetup(Setup!Bootloader)) /\ WF_boardVars(InSetup(Setup!Application))
    /\ WF_boardVars(InSetup(Setup!Confirm)) /\ WF_boardVars(InSetup(Setup!Tick))
    /\ WF_boardVars(InSetup(Setup!WatchdogReset))

BoardSpec == BoardInit /\ [][BoardNext]_boardVars /\ BoardFairness

-----------------------------------------------------------------------------
(* Start-up: the clock in use is on and stable, with the wait states of    *)
(* its frequency (system_clock.c); while SysTick counts, it counts         *)
(* milliseconds of the clock the core really has, in each image; no stale  *)
(* bootloader interrupt executes in the application, and each interrupt is *)
(* served through the vector table of the image that runs                  *)
(* (application_jump.c, docs/boot-jump.md).                                *)
StartupIsSafe ==
    Startup!ClockIsSafe /\ Startup!TickIsMillisecond /\ Startup!NoStaleInterrupt

(* Set-up: the external flash is never selected by it (spi_flash.c); in    *)
(* the main loop everything is as the protocol and the flash need it,      *)
(* whatever the bootloader left; and a trial that starts up and confirms   *)
(* in time is never reset by the watchdog, at the fastest oscillator       *)
(* (trial_boot.c).                                                         *)
SetupIsSafe ==
    Setup!SelectStaysHigh /\ Setup!MainLoopIsSetUp /\ Setup!HealthyIsInTime

(* The clock comes up or is given up, the jump is made, and the            *)
(* application ends in its loop with its tick interrupt arriving, not in   *)
(* the fatal blink.  A trial that hangs, or cannot store its confirmation, *)
(* ends in the bootloader again.                                           *)
BoardComesUp ==
    (unit = "start-up" => Startup!ApplicationTicks) /\ Setup!HungTrialIsReset

=============================================================================
