---------------------------- MODULE BoardSetup ----------------------------
(***************************************************************************)
(* What the two images do to the pins, the buses and the watchdog between  *)
(* a reset and a running application.  A peripheral whose clock is off     *)
(* ignores writes.  Time passes in units of UnitMs.                        *)
(***************************************************************************)
EXTENDS StdPeriph

CONSTANTS
    UART_OTA_BAUD_RATE,
    TRIAL_IWDG_RELOAD, TRIAL_CONFIRM_DELAY_MS,
    LsiMax,             \* fastest watchdog oscillator, in kHz
    UnitMs,             \* milliseconds in a unit of time
    SetupUnits,         \* bound of the units a healthy set-up takes
    CommitUnits         \* bound of the units a metadata commit takes

VARIABLES
    rcc, ports, spi, usart,     \* registers
    iwdg,                       \* the watchdog
    pc,                         \* next piece of set-up
    trial,                      \* the application was started as a trial
    ill,                        \* it hangs, or its commit failed
    spent,                      \* units since the watchdog was started
    ready                       \* units spent when the main loop was entered

vars == <<rcc, ports, spi, usart, iwdg, pc, trial, ill, spent, ready>>

-----------------------------------------------------------------------------
(* The independent watchdog: its driver (spl/src/stm32f10x_iwdg.c) and the *)
(* device behind the key register.                                         *)

(* After reset: stopped, protected, divider 4, reload 0xFFF.               *)
ResetIwdg ==
    [on |-> FALSE, access |-> FALSE, divider |-> 4, reload |-> 4095, counter |-> 4095]

KeyEnable == "CCCC"
KeyReload == "AAAA"
WriteAccess_Enable == "5555"

(* Writing the key register; any key but 0x5555 protects again.            *)
WriteKey(w, key) ==
    [w EXCEPT !.access = key = WriteAccess_Enable,
        !.on = @ \/ key = KeyEnable,
        !.counter = IF key = KeyReload THEN w.reload ELSE @]

IWDG_WriteAccessCmd(w, key) == WriteKey(w, key)
IWDG_SetPrescaler(w, divider) == IF w.access THEN [w EXCEPT !.divider = divider] ELSE w
IWDG_SetReload(w, reload) == IF w.access THEN [w EXCEPT !.reload = reload] ELSE w
IWDG_ReloadCounter(w) == WriteKey(w, KeyReload)
IWDG_Enable(w) == WriteKey(w, KeyEnable)

-----------------------------------------------------------------------------
Ports == {"A", "B", "C"}
ClockOf == [A |-> 2, B |-> 3, C |-> 4]
ClockSpi1 == 12
ClockUsart1 == 14

(* SystemInit: the crystal at 72 MHz, or HSI when it does not start; the   *)
(* clock gates stay as they are.                                           *)
ClockChoices(gates) ==
    LET fast == RCC_SYSCLKConfig(RCC_PLLConfig(RCC_PCLK1Config(ResetRcc, 2), "HSE_Div1", 9),
                                   "PLL")
    IN  {[ResetRcc EXCEPT !.APB2ENR = gates],
         [fast EXCEPT !.CFGR = @ \cup {3}, !.APB2ENR = gates]}

Fresh ==
    /\ rcc' \in ClockChoices({})
    /\ ports' = [x \in Ports |-> ResetPort]
    /\ spi' = ResetSpi
    /\ usart' = ResetUsart
    /\ iwdg' = ResetIwdg
    /\ pc' = "boot"
    /\ trial' = FALSE /\ ill' = FALSE /\ spent' = 0 /\ ready' = 0

Init ==
    /\ rcc \in ClockChoices({})
    /\ ports = [x \in Ports |-> ResetPort]
    /\ spi = ResetSpi
    /\ usart = ResetUsart
    /\ iwdg = ResetIwdg
    /\ pc = "boot"
    /\ trial = FALSE /\ ill = FALSE /\ spent = 0 /\ ready = 0

-----------------------------------------------------------------------------
(* Pieces of set-up.                                                       *)

Clocked(position) == position \in rcc.APB2ENR
EnableClocks(positions) == rcc' = RCC_APB2PeriphClockCmd(rcc, positions, TRUE)
SetPort(x, port) == ports' = [ports EXCEPT ![x] = IF Clocked(ClockOf[x]) THEN port ELSE @]

Goes(from, to) == pc = from /\ pc' = to
Keep(rest) == UNCHANGED <<trial, ill, spent, ready>> /\ UNCHANGED rest

(* BootManager_LedInit and Application_LedInit: the clock, then the pin.   *)
LedClock(from, to) ==
    /\ Goes(from, to) /\ EnableClocks({ClockOf["C"]})
    /\ Keep(<<ports, spi, usart, iwdg>>)
LedPin(from, to) ==
    /\ Goes(from, to)
    /\ SetPort("C", GPIO_SetBits(GPIO_Init(ports["C"],
                        [GPIO_StructInit EXCEPT !.pins = {13}, !.mode = "Out_PP"]), {13}))
    /\ Keep(<<rcc, spi, usart, iwdg>>)

(* SpiFlash_Init, piece by piece.                                          *)
SpiClocks(from, to) ==
    /\ Goes(from, to) /\ EnableClocks({ClockOf["A"], ClockOf["B"], ClockSpi1})
    /\ Keep(<<ports, spi, usart, iwdg>>)

SelectHigh(from, to) ==
    /\ Goes(from, to) /\ SetPort("B", GPIO_SetBits(ports["B"], {0}))
    /\ Keep(<<rcc, spi, usart, iwdg>>)
SpiPins(from, to) ==
    /\ Goes(from, to)
    /\ SetPort("A", GPIO_Init(GPIO_Init(ports["A"],
                        [pins |-> {5, 7}, speed |-> "MHz50", mode |-> "AF_PP"]),
                        [pins |-> {6}, speed |-> "MHz50", mode |-> "IN_FLOATING"]))
    /\ Keep(<<rcc, spi, usart, iwdg>>)
SelectPin(from, to) ==
    /\ Goes(from, to)
    /\ SetPort("B", GPIO_Init(ports["B"], [pins |-> {0}, speed |-> "MHz50", mode |-> "Out_PP"]))
    /\ Keep(<<rcc, spi, usart, iwdg>>)
SpiBus(from, to) ==
    /\ Goes(from, to)
    /\ SetPort("B", GPIO_SetBits(ports["B"], {0}))
    /\ LET init == [SPI_StructInit EXCEPT !.direction = "FullDuplex", !.mode = "Master",
                        !.nss = "Soft", !.prescaler = 4]
           bus == SPI_Cmd(SPI_NSSInternalSoftwareConfig(SPI_Init(ResetSpi, init), TRUE), TRUE)
       IN  spi' = IF Clocked(ClockSpi1) THEN bus ELSE spi
    /\ Keep(<<rcc, usart, iwdg>>)

(* Uart_Init, piece by piece; NVIC_Init is in NodeStartup.                 *)
UartClocks ==
    /\ Goes("uartClocks", "uartPins") /\ EnableClocks({ClockOf["A"], ClockUsart1})
    /\ Keep(<<ports, spi, usart, iwdg>>)

UartPins ==
    /\ Goes("uartPins", "uart")
    /\ SetPort("A", GPIO_Init(GPIO_Init(ports["A"],
                        [pins |-> {9}, speed |-> "MHz50", mode |-> "AF_PP"]),
                        [pins |-> {10}, speed |-> "MHz50", mode |-> "IN_FLOATING"]))
    /\ Keep(<<rcc, spi, usart, iwdg>>)
UartOn ==
    /\ Goes("uart", "appSpiClocks")
    /\ LET init == [USART_StructInit EXCEPT !.baud = UART_OTA_BAUD_RATE]
           set == USART_Init(usart, "USART1", init, RCC_GetClocksFreq(rcc))
           on == USART_Cmd(USART_ITConfig(set, UsartIT["RXNE"], TRUE), TRUE)
       IN  usart' = IF Clocked(ClockUsart1) THEN on ELSE usart
    /\ Keep(<<rcc, ports, spi, iwdg>>)

-----------------------------------------------------------------------------
(* The bootloader.                                                         *)

(* The manager touches the external flash for an update only.              *)
Decide ==
    /\ pc = "decide"
    /\ pc' \in {"spiClocks", "start"}
    /\ Keep(<<rcc, ports, spi, usart, iwdg>>)

(* Mutant: the divider and the reload are written without the key.         *)
WatchdogWithoutAccess(w) ==
    IWDG_Enable(IWDG_ReloadCounter(IWDG_SetReload(IWDG_SetPrescaler(w, 64), TRIAL_IWDG_RELOAD)))

TrialBoot_StartWatchdog(w) ==
    IWDG_Enable(IWDG_ReloadCounter(IWDG_SetReload(IWDG_SetPrescaler(
        IWDG_WriteAccessCmd(w, WriteAccess_Enable), 64), TRIAL_IWDG_RELOAD)))

(* A trial starts with the watchdog; the jump leaves the peripherals and   *)
(* their clock gates as they are, the application sets the clocks again.   *)
(* The reload may still meet the old limit, which is the larger one.       *)
Start ==
    /\ pc = "start" /\ pc' = "appLed"
    /\ rcc' \in ClockChoices(rcc.APB2ENR)
    /\ \/ /\ iwdg' \in {TrialBoot_StartWatchdog(iwdg),
                        [TrialBoot_StartWatchdog(iwdg) EXCEPT !.counter = ResetIwdg.reload]}
          /\ trial' = TRUE
       \/ UNCHANGED <<iwdg, trial>>
    /\ UNCHANGED <<ports, spi, usart, ill, spent, ready>>

-----------------------------------------------------------------------------
(* The application and time.                                               *)

(* OtaAgent_Init is done: TrialConfirmation_Init notes the time.           *)
MainLoop ==
    /\ Goes("enter", "main")
    /\ ready' = spent
    /\ UNCHANGED <<rcc, ports, spi, usart, iwdg, trial, ill, spent>>

InApplication == pc \notin {"boot", "bootLed", "decide", "start", "spiClocks", "selectHigh",
                            "spiPins", "selectPin", "spiBus"}

(* It hangs somewhere on the way.                                          *)
Hang ==
    /\ InApplication /\ ~ill
    /\ ill' = TRUE
    /\ UNCHANGED <<rcc, ports, spi, usart, iwdg, pc, trial, spent, ready>>

DelayUnits == (TRIAL_CONFIRM_DELAY_MS + UnitMs - 1) \div UnitMs

(* TrialConfirmation_Process: committed, and reset; or the commit failed,  *)
(* and the loop tries on.                                                  *)
Confirm ==
    /\ pc = "main" /\ trial /\ ~ill /\ spent - ready >= DelayUnits
    /\ \/ Fresh
       \/ ill' = TRUE /\ UNCHANGED <<rcc, ports, spi, usart, iwdg, pc, trial, spent, ready>>

(* Counts in a unit, at the fastest.                                       *)
CountsPerUnit(w) == (UnitMs * LsiMax + w.divider - 1) \div w.divider

(* Time passes in a trial; a healthy one makes progress in time.           *)
Tick ==
    /\ trial /\ InApplication
    /\ iwdg.on => iwdg.counter > 0
    /\ ~ill => IF pc = "main" THEN spent - ready < DelayUnits + CommitUnits
                              ELSE spent < SetupUnits
    /\ spent' = IF ill THEN spent ELSE spent + 1
    /\ iwdg' = [iwdg EXCEPT !.counter =
                  IF ~iwdg.on THEN @
                  ELSE IF @ > CountsPerUnit(iwdg) THEN @ - CountsPerUnit(iwdg) ELSE 0]
    /\ UNCHANGED <<rcc, ports, spi, usart, pc, trial, ill, ready>>

WatchdogReset == iwdg.on /\ iwdg.counter = 0 /\ Fresh

PowerCut == Fresh

Application ==
    /\ ~ill
    /\ \/ LedClock("appLed", "appPin")
       \/ LedPin("appPin", "uartClocks")
       \/ UartClocks \/ UartPins \/ UartOn
       \/ SpiClocks("appSpiClocks", "appSelectHigh")
       \/ SelectHigh("appSelectHigh", "appSpiPins")
       \/ SpiPins("appSpiPins", "appSelectPin")
       \/ SelectPin("appSelectPin", "appSpiBus")
       \/ SpiBus("appSpiBus", "enter")
       \/ MainLoop

Bootloader ==
    \/ LedClock("boot", "bootLed")
    \/ LedPin("bootLed", "decide")
    \/ Decide
    \/ SpiClocks("spiClocks", "selectHigh")
    \/ SelectHigh("selectHigh", "spiPins")
    \/ SpiPins("spiPins", "selectPin")
    \/ SelectPin("selectPin", "spiBus")
    \/ SpiBus("spiBus", "start")
    \/ Start

Next ==
    \/ Bootloader
    \/ Application
    \/ Hang
    \/ Confirm
    \/ Tick
    \/ WatchdogReset
    \/ PowerCut

Spec == Init /\ [][Next]_vars

-----------------------------------------------------------------------------
(* Properties.                                                             *)

PinBits(x, p) ==
    IF p < 8 THEN Field(ports[x].CRL, 4 * p, 4 * p + 3)
    ELSE Field(ports[x].CRH, 4 * (p - 8), 4 * (p - 8) + 3)

OutputPushPull == 3
AlternatePushPull == 11
FloatingInput == 4

(* Setting up never selects the external flash: its select line is not     *)
(* driven low, and the bus is on only once the line is driven              *)
(* (spi_flash.c sets the latch before the pin becomes an output).          *)
SelectStaysHigh ==
    /\ PinBits("B", 0) = OutputPushPull => 0 \in ports["B"].ODR
    /\ 6 \in spi.CR1 => PinBits("B", 0) = OutputPushPull

(* In the main loop everything is as the protocol and the flash need it,   *)
(* whichever oscillator runs and whatever the bootloader left: two drivers *)
(* have configured pins of the same port, and every write was clocked.     *)
MainLoopIsSetUp ==
    pc = "main" =>
        LET f == RCC_GetClocksFreq(rcc)
            off == usart.BRR * UART_OTA_BAUD_RATE - f.PCLK2_Frequency
        IN  /\ (IF off < 0 THEN -off ELSE off) <= f.PCLK2_Frequency \div 125
            /\ {2, 3, 5, 13} \subseteq usart.CR1 /\ usart.CR1 \cap {9, 10, 12} = {}
            /\ PinBits("A", 9) = AlternatePushPull /\ PinBits("A", 10) = FloatingInput
            /\ \A p \in {5, 7} : PinBits("A", p) = AlternatePushPull
            /\ PinBits("A", 6) = FloatingInput
            /\ PinBits("B", 0) = OutputPushPull
            /\ {2, 6, 8, 9} \subseteq spi.CR1 /\ spi.CR1 \cap {0, 1, 7, 10, 11, 15} = {}
            /\ PinBits("C", 13) = 2

(* A trial that starts up and confirms in time is never reset by the       *)
(* watchdog, at the fastest oscillator (the comment of                     *)
(* TrialBoot_StartWatchdog).                                               *)
HealthyIsInTime == (trial /\ ~ill) => ~(iwdg.on /\ iwdg.counter = 0)

(* A trial that hangs, or cannot store its confirmation, ends in the       *)
(* bootloader again.                                                       *)
HungTrialIsReset == (trial /\ ill) ~> (pc = "boot")
=============================================================================
