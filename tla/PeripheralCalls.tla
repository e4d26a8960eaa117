-------------------------- MODULE PeripheralCalls --------------------------
(***************************************************************************)
(* Sequences of calls of one of the peripheral drivers, with the device    *)
(* behind it: clocks that get ready, bytes and frames that come and go.    *)
(* What the callers asked for last is what the registers say.  The driver  *)
(* of the timers (stm32f10x_tim.c), which only these calls use, is here.   *)
(***************************************************************************)
EXTENDS StdPeriph

CONSTANTS
    MaxCalls,           \* bound of the calls in a behaviour
    BaudRates           \* rates asked for

VARIABLES
    device,             \* the driver that is called
    rcc, ports, afio, usarts, spis, tims,   \* registers
    asked,              \* the settings asked for
    calls               \* calls made

-----------------------------------------------------------------------------
(* The clocks.                                                             *)

RccNothingAsked ==
    [sys |-> "HSI", hpre |-> 1, ppre1 |-> 1, ppre2 |-> 1, adc |-> 2, pllsrc |-> "HSI_Div2",
     pllmul |-> 2, mco |-> 0, usb |-> FALSE, trim |-> 16, hsi |-> TRUE, hse |-> "OFF",
     pll |-> FALSE, css |-> FALSE, lsi |-> FALSE, lse |-> "OFF", rtc |-> 0, rtcen |-> FALSE,
     backup |-> FALSE, its |-> {}, AHBENR |-> {2, 4}, APB2ENR |-> {}, APB1ENR |-> {},
     APB2RSTR |-> {}, APB1RSTR |-> {}]

(* A busy configuration to start from, so that a lost bit shows.           *)
BusyRcc ==
    LET clocks == RCC_ADCCLKConfig(RCC_PCLK2Config(RCC_PCLK1Config(RCC_HCLKConfig(
                    RCC_SYSCLKConfig(RCC_PLLConfig(ResetRcc, "HSE_Div2", 9), "PLL"),
                    512), 16), 4), 8)
        oscillators == RCC_ClockSecuritySystemCmd(RCC_PLLCmd(RCC_HSEConfig(
                    RCC_LSEConfig(clocks, "Bypass"), "Bypass"), TRUE), TRUE)
    IN  RCC_APB2PeriphClockCmd(RCC_ITConfig(RCC_MCOConfig(oscillators, 7), {2, 4}, TRUE),
                               {2, 14}, TRUE)
BusyAsked ==
    [RccNothingAsked EXCEPT !.sys = "PLL", !.hpre = 512, !.ppre1 = 16, !.ppre2 = 4, !.adc = 8,
        !.pllsrc = "HSE_Div2", !.pllmul = 9, !.mco = 7, !.hse = "Bypass", !.pll = TRUE,
        !.css = TRUE, !.lse = "Bypass", !.its = {2, 4}, !.APB2ENR = {2, 14}]

RccInit ==
    /\ calls = 0
    /\ \/ rcc = ResetRcc /\ asked = RccNothingAsked
       \/ rcc = BusyRcc /\ asked = BusyAsked

RccCall(registers, settings) ==
    /\ calls < MaxCalls
    /\ rcc' = registers
    /\ asked' = settings
    /\ calls' = calls + 1

RccDeInit ==
    RccCall(RCC_DeInit(rcc),
         [asked EXCEPT !.sys = "HSI", !.hpre = 1, !.ppre1 = 1, !.ppre2 = 1, !.adc = 2,
             !.pllsrc = "HSI_Div2", !.pllmul = 2, !.mco = 0, !.usb = FALSE, !.hsi = TRUE,
             !.hse = "OFF", !.pll = FALSE, !.css = FALSE, !.its = {}])

Oscillators ==
    \/ \E s \in {"OFF", "ON", "Bypass"} :
         \/ RccCall(RCC_HSEConfig(rcc, s), [asked EXCEPT !.hse = s])
         \/ RccCall(RCC_LSEConfig(rcc, s), [asked EXCEPT !.lse = s])
    \/ \E on \in BOOLEAN :
         \/ RccCall(RCC_HSICmd(rcc, on), [asked EXCEPT !.hsi = on])
         \/ RccCall(RCC_PLLCmd(rcc, on), [asked EXCEPT !.pll = on])
         \/ RccCall(RCC_ClockSecuritySystemCmd(rcc, on), [asked EXCEPT !.css = on])
         \/ RccCall(RCC_LSICmd(rcc, on), [asked EXCEPT !.lsi = on])
    \/ \E n \in {0, 21, 31} :
         RccCall(RCC_AdjustHSICalibrationValue(rcc, n), [asked EXCEPT !.trim = n])

ClockTree ==
    \/ \E source \in DOMAIN PLLSource, mul \in {2, 9, 16} :
         RccCall(RCC_PLLConfig(rcc, source, mul),
              [asked EXCEPT !.pllsrc = source, !.pllmul = mul])
    \/ \E source \in DOMAIN SYSCLKSource :
         /\ source = "HSE" => RCC_WaitForHSEStartUp(rcc)
         /\ RccCall(RCC_SYSCLKConfig(rcc, source), [asked EXCEPT !.sys = source])
    \/ \E n \in {1, 2, 64, 512} : RccCall(RCC_HCLKConfig(rcc, n), [asked EXCEPT !.hpre = n])
    \/ \E n \in {1, 2, 16} :
         \/ RccCall(RCC_PCLK1Config(rcc, n), [asked EXCEPT !.ppre1 = n])
         \/ RccCall(RCC_PCLK2Config(rcc, n), [asked EXCEPT !.ppre2 = n])
    \/ \E n \in {2, 6, 8} : RccCall(RCC_ADCCLKConfig(rcc, n), [asked EXCEPT !.adc = n])
    \/ \E n \in {0, 4, 7} : RccCall(RCC_MCOConfig(rcc, n), [asked EXCEPT !.mco = n])
    \/ \E on \in BOOLEAN : RccCall(RCC_USBCLKConfig(rcc, on), [asked EXCEPT !.usb = on])

(* The RTC's clock is chosen once, until the backup domain is reset.       *)
BackupDomain ==
    \/ /\ asked.rtc = 0
       /\ \E n \in 1..3 : RccCall(RCC_RTCCLKConfig(rcc, n), [asked EXCEPT !.rtc = n])
    \/ \E on \in BOOLEAN :
         \/ RccCall(RCC_RTCCLKCmd(rcc, on), [asked EXCEPT !.rtcen = on])
         \/ RccCall(RCC_BackupResetCmd(rcc, on), [asked EXCEPT !.backup = on])

RccInterrupts ==
    \/ \E its \in {{0}, {2, 3}}, on \in BOOLEAN :
         RccCall(RCC_ITConfig(rcc, its, on),
              [asked EXCEPT !.its = IF on THEN @ \cup its ELSE @ \ its])
    \/ \E its \in {{3}, {4, 7}} :
         RCC_GetITStatus(rcc, its) /\ RccCall(RCC_ClearITPendingBit(rcc, its), asked)

Peripherals ==
    \E periph \in {{0}, {2, 14}}, on \in BOOLEAN :
        LET With(register) ==
                [asked EXCEPT ![register] = IF on THEN @ \cup periph ELSE @ \ periph]
        IN  \/ RccCall(RCC_AHBPeriphClockCmd(rcc, periph, on), With("AHBENR"))
            \/ RccCall(RCC_APB2PeriphClockCmd(rcc, periph, on), With("APB2ENR"))
            \/ RccCall(RCC_APB1PeriphClockCmd(rcc, periph, on), With("APB1ENR"))
            \/ RccCall(RCC_APB2PeriphResetCmd(rcc, periph, on), With("APB2RSTR"))
            \/ RccCall(RCC_APB1PeriphResetCmd(rcc, periph, on), With("APB1RSTR"))

ClearFlag == RccCall(RCC_ClearFlag(rcc), asked)

(* The hardware: SWS follows SW; oscillators get ready and pend their      *)
(* interrupt when it is enabled.                                           *)
SwitchFollows ==
    /\ rcc' = [rcc EXCEPT !.CFGR = Modify(@, AllBits \ {2, 3}, {i + 2 : i \in @ \cap {0, 1}})]
    /\ rcc' # rcc
    /\ UNCHANGED <<asked, calls>>

OscillatorReady ==
    /\ \/ HSEON \in rcc.CR /\ rcc' = [rcc EXCEPT !.CR = @ \cup {HSERDY},
                                        !.CIR = @ \cup (IF 11 \in @ THEN {3} ELSE {})]
       \/ PLLON \in rcc.CR /\ rcc' = [rcc EXCEPT !.CR = @ \cup {PLLRDY},
                                        !.CIR = @ \cup (IF 12 \in @ THEN {4} ELSE {})]
    /\ rcc' # rcc
    /\ UNCHANGED <<asked, calls>>

RccNext ==
    \/ RccDeInit
    \/ Oscillators
    \/ ClockTree
    \/ BackupDomain
    \/ RccInterrupts
    \/ Peripherals
    \/ ClearFlag
    \/ SwitchFollows
    \/ OscillatorReady

-----------------------------------------------------------------------------
(* The pins.                                                               *)

Ports == {"A", "B"}
PinSets == {{0}, {7, 8}, {9, 13}, Pin}
Floating == [mode |-> "IN_FLOATING", speed |-> "MHz2"]

(* The remaps by the function they move: one setting per function.         *)
Function(remap) ==
    CASE remap \in {"PartialUSART3", "FullUSART3"} -> "USART3"
      [] remap \in {"PartialTIM1", "FullTIM1"} -> "TIM1"
      [] remap \in {"Partial1TIM2", "Partial2TIM2", "FullTIM2"} -> "TIM2"
      [] remap \in {"PartialTIM3", "FullTIM3"} -> "TIM3"
      [] remap \in {"Remap1CAN1", "Remap2CAN1"} -> "CAN1"
      [] OTHER -> remap
DebugRemaps == {"SWJ_NoJTRST", "SWJ_JTAGDisable", "SWJ_Disable"}
Functions == {Function(r) : r \in DOMAIN Remap \ DebugRemaps}

GpioNothingAsked ==
    [pins |-> [x \in Ports |-> [p \in Pin |-> Floating]], latch |-> [x \in Ports |-> {}],
     locked |-> [x \in Ports |-> {}], isLocked |-> [x \in Ports |-> FALSE],
     remaps |-> [f \in Functions |-> "None"], debug |-> "Full",
     lines |-> [l \in Pin |-> 0], event |-> <<0, 0>>, eventOn |-> FALSE]

GpioInit ==
    /\ ports = [x \in Ports |-> ResetPort]
    /\ afio = ResetAfio
    /\ asked = GpioNothingAsked
    /\ calls = 0

GpioCall == calls < MaxCalls /\ calls' = calls + 1

OnPort(x, port, settings) ==
    /\ GpioCall
    /\ ports' = [ports EXCEPT ![x] = port]
    /\ asked' = settings
    /\ UNCHANGED afio

Configure ==
    \E x \in Ports, pins \in PinSets, mode \in {"IN_FLOATING", "IPD", "IPU", "Out_PP", "AF_PP"} :
        LET init == [pins |-> pins, mode |-> mode, speed |-> "MHz50"]
            setting == [mode |-> mode, speed |-> "MHz50"]
        IN  OnPort(x, GPIO_Init(ports[x], init),
                   [asked EXCEPT
                      !.pins[x] = [p \in Pin |-> IF p \in pins \ asked.locked[x]
                                                 THEN setting ELSE @[p]],
                      !.latch[x] = CASE mode = "IPU" -> @ \cup pins
                                     [] mode = "IPD" -> @ \ pins
                                     [] OTHER -> @])

Default ==
    \E x \in Ports :
        OnPort(x, GPIO_Init(ports[x], GPIO_StructInit),
               [asked EXCEPT !.pins[x] = [p \in Pin |-> IF p \in asked.locked[x]
                                                       THEN @[p] ELSE Floating]])

GpioDeInit ==
    /\ GpioCall
    /\ \E x \in Ports :
         /\ ports' = GPIO_DeInit(ports, x)
         /\ asked' = [asked EXCEPT !.pins[x] = GpioNothingAsked.pins[x], !.latch[x] = {},
                        !.locked[x] = {}, !.isLocked[x] = FALSE]
    /\ UNCHANGED afio

(* The first lock of a port holds; a later one has no effect.              *)
Lock ==
    \E x \in Ports, pins \in PinSets :
        OnPort(x, GPIO_PinLockConfig(ports[x], pins),
               IF asked.isLocked[x] THEN asked
               ELSE [asked EXCEPT !.locked[x] = pins, !.isLocked[x] = TRUE])

GpioData ==
    \E x \in Ports, pins \in PinSets :
        \/ OnPort(x, GPIO_SetBits(ports[x], pins), [asked EXCEPT !.latch[x] = @ \cup pins])
        \/ OnPort(x, GPIO_ResetBits(ports[x], pins), [asked EXCEPT !.latch[x] = @ \ pins])
        \/ OnPort(x, GPIO_Write(ports[x], pins), [asked EXCEPT !.latch[x] = pins])

(* The toggle of the error blink: read the latch, write its complement.    *)
Toggle ==
    \E x \in Ports, pin \in {13} :
        LET on == ~GPIO_ReadOutputDataBit(ports[x], pin)
        IN  OnPort(x, GPIO_WriteBit(ports[x], pin, on),
                   [asked EXCEPT !.latch[x] = IF pin \in @ THEN @ \ {pin} ELSE @ \cup {pin}])

OnAfio(registers, settings) ==
    GpioCall /\ afio' = registers /\ asked' = settings /\ UNCHANGED ports

MovePins ==
    \E remap \in DOMAIN Remap \ DebugRemaps, on \in BOOLEAN :
        OnAfio(GPIO_PinRemapConfig(afio, Remap[remap], on),
               [asked EXCEPT !.remaps[Function(remap)] = IF on THEN remap ELSE "None"])

DebugPort ==
    \E remap \in DebugRemaps, on \in BOOLEAN :
        OnAfio(GPIO_PinRemapConfig(afio, Remap[remap], on),
               [asked EXCEPT !.debug = CASE ~on -> "Full"
                                         [] remap = "SWJ_NoJTRST" -> "NoJTRST"
                                         [] remap = "SWJ_JTAGDisable" -> "SwOnly"
                                         [] remap = "SWJ_Disable" -> "Off"])

Lines ==
    \/ \E source \in {0, 3, 4}, line \in {0, 6, 15} :
         \/ OnAfio(GPIO_EXTILineConfig(afio, source, line), [asked EXCEPT !.lines[line] = source])
         \/ OnAfio(GPIO_EventOutputConfig(afio, source, line), [asked EXCEPT !.event = <<source, line>>])
    \/ \E on \in BOOLEAN : OnAfio(GPIO_EventOutputCmd(afio, on), [asked EXCEPT !.eventOn = on])

AfioDeInit ==
    OnAfio(GPIO_AFIODeInit,
           [asked EXCEPT !.remaps = GpioNothingAsked.remaps, !.debug = "Full",
              !.lines = GpioNothingAsked.lines, !.event = <<0, 0>>, !.eventOn = FALSE])

GpioNext ==
    \/ Configure \/ Default \/ GpioDeInit \/ Lock \/ GpioData \/ Toggle
    \/ MovePins \/ DebugPort \/ Lines \/ AfioDeInit

-----------------------------------------------------------------------------
(* The USARTs and the lines.                                               *)

Usarts == {"USART1", "USART2"}

UsartNothingAsked ==
    [init |-> [USART_StructInit EXCEPT !.baud = 0], over8 |-> FALSE, clockOf |-> 0,
     clock |-> USART_ClockStructInit,
     on |-> {}, its |-> {}, dma |-> {}, address |-> 0, mark |-> FALSE, long |-> FALSE,
     low |-> FALSE, guard |-> 0, prescaler |-> 0]

(* The clocks of the images: 72 MHz from the crystal, or HSI at 8 MHz.     *)
CrystalClocks ==
    LET fast == RCC_SYSCLKConfig(RCC_PLLConfig(RCC_PCLK1Config(ResetRcc, 2), "HSE_Div1", 9), "PLL")
    IN  [fast EXCEPT !.CFGR = @ \cup {3}]

UsartInit ==
    /\ usarts = [x \in Usarts |-> ResetUsart]
    /\ rcc \in {ResetRcc, CrystalClocks}
    /\ asked = [x \in Usarts |-> [UsartNothingAsked EXCEPT !.init.mode = "Tx"]]
    /\ calls = 0

UsartCall(x, registers, settings) ==
    /\ calls < MaxCalls
    /\ usarts' = [usarts EXCEPT ![x] = registers]
    /\ asked' = [asked EXCEPT ![x] = settings]
    /\ calls' = calls + 1
    /\ UNCHANGED rcc

Bus(x) ==
    LET clocks == RCC_GetClocksFreq(rcc)
    IN  IF x = "USART1" THEN clocks.PCLK2_Frequency ELSE clocks.PCLK1_Frequency

UsartInitialise(x) ==
    \E baud \in BaudRates, shape \in {<<"bits8", "one", "No", "RxTx", "None">>,
                                      <<"bits9", "oneHalf", "Odd", "Rx", "RTS_CTS">>} :
        LET init == [baud |-> baud, word |-> shape[1], stop |-> shape[2], parity |-> shape[3],
                     mode |-> shape[4], flow |-> shape[5]]
        IN  UsartCall(x, USART_Init(usarts[x], x, init, RCC_GetClocksFreq(rcc)),
                 [asked[x] EXCEPT !.init = init, !.clockOf = Bus(x),
                    !.over8 = "over8" \in asked[x].on])

UsartDeInit(x) ==
    /\ calls < MaxCalls
    /\ usarts' = USART_DeInit(usarts, x)
    /\ asked' = [asked EXCEPT ![x] = [UsartNothingAsked EXCEPT !.init.mode = "Tx"]]
    /\ calls' = calls + 1
    /\ UNCHANGED rcc

UsartCommands(x) ==
    \E on \in BOOLEAN :
        LET u == usarts[x]
            With(what) == [asked[x] EXCEPT !.on = IF on THEN @ \cup {what} ELSE @ \ {what}]
        IN  \/ UsartCall(x, USART_Cmd(u, on), With("enable"))
            \/ UsartCall(x, USART_ReceiverWakeUpCmd(u, on), With("mute"))
            \/ UsartCall(x, USART_OverSampling8Cmd(u, on), With("over8"))
            \/ UsartCall(x, USART_LINCmd(u, on), With("lin"))
            \/ UsartCall(x, USART_SmartCardCmd(u, on), With("smartcard"))
            \/ UsartCall(x, USART_SmartCardNACKCmd(u, on), With("nack"))
            \/ UsartCall(x, USART_HalfDuplexCmd(u, on), With("half"))
            \/ UsartCall(x, USART_OneBitMethodCmd(u, on), With("onebit"))
            \/ UsartCall(x, USART_IrDACmd(u, on), With("irda"))

Fields(x) ==
    LET u == usarts[x]
    IN  \/ \E n \in {0, 15} : UsartCall(x, USART_SetAddress(u, n), [asked[x] EXCEPT !.address = n])
        \/ \E n \in {0, 255} :
             \/ UsartCall(x, USART_SetGuardTime(u, n), [asked[x] EXCEPT !.guard = n])
             \/ UsartCall(x, USART_SetPrescaler(u, n), [asked[x] EXCEPT !.prescaler = n])
        \/ \E b \in BOOLEAN :
             \/ UsartCall(x, USART_WakeUpConfig(u, b), [asked[x] EXCEPT !.mark = b])
             \/ UsartCall(x, USART_LINBreakDetectLengthConfig(u, b), [asked[x] EXCEPT !.long = b])
             \/ UsartCall(x, USART_IrDAConfig(u, b), [asked[x] EXCEPT !.low = b])
             \/ UsartCall(x, USART_DMACmd(u, {6, 7}, b), [asked[x] EXCEPT !.dma = IF b THEN {6, 7} ELSE {}])
             \/ LET init == [clock |-> b, cpol |-> b, cpha |-> TRUE, last |-> ~b]
                IN  UsartCall(x, USART_ClockInit(u, init), [asked[x] EXCEPT !.clock = init])

UsartInterrupts(x) ==
    \/ \E it \in DOMAIN UsartIT \ {"ORE", "NE", "FE"}, on \in BOOLEAN :
         UsartCall(x, USART_ITConfig(usarts[x], UsartIT[it], on),
              [asked[x] EXCEPT !.its = IF on THEN @ \cup {it} ELSE @ \ {it}])
    \/ \E it \in {"TC", "RXNE", "LBD", "CTS"} :
         UsartCall(x, USART_ClearITPendingBit(usarts[x], UsartIT[it]), asked[x])
    \/ \E flag \in {5, 6} : UsartCall(x, USART_ClearFlag(usarts[x], {flag}), asked[x])

UsartData(x) ==
    \/ UsartCall(x, USART_SendData(usarts[x], 1023), asked[x])
    \/ /\ 5 \in usarts[x].SR
       /\ \E seen \in {{}, usarts[x].SR} : UsartCall(x, USART_ReceiveData(usarts[x], seen), asked[x])
    \/ UsartCall(x, USART_SendBreak(usarts[x]), asked[x])

(* The line: a byte arrives, over one that was not read; one is sent; the  *)
(* break character is sent and its request cleared.                        *)
Line(x) ==
    /\ UNCHANGED <<rcc, asked, calls>>
    /\ LET u == usarts[x]
           Becomes(registers) == usarts' = [usarts EXCEPT ![x] = registers]
       IN  \/ {2, CR1_UE} \subseteq u.CR1 /\ 3 \notin u.SR
                /\ Becomes([u EXCEPT !.SR = @ \cup (IF 5 \in @ THEN {3} ELSE {5})])
           \/ 7 \notin u.SR /\ Becomes([u EXCEPT !.SR = @ \cup {6, 7}])
           \/ 0 \in u.CR1 /\ Becomes([u EXCEPT !.CR1 = @ \ {0}])

UsartNext ==
    \E x \in Usarts :
        \/ UsartInitialise(x)
        \/ UsartDeInit(x)
        \/ UsartCommands(x)
        \/ Fields(x)
        \/ UsartInterrupts(x)
        \/ UsartData(x)
        \/ Line(x)

-----------------------------------------------------------------------------
(* The SPIs and the bus.                                                   *)

Spis == {"SPI1", "SPI2"}

SpiNothingAsked ==
    [init |-> SPI_StructInit, on |-> {}, its |-> {}, ssi |-> FALSE, tx |-> FALSE]

SpiInit ==
    /\ spis = [x \in Spis |-> ResetSpi]
    /\ asked = [x \in Spis |-> SpiNothingAsked]
    /\ calls = 0

(* The driver's settings for the external flash, and their opposites.      *)
FlashSettings ==
    {SPI_StructInit,
     [direction |-> "FullDuplex", mode |-> "Master", wide |-> FALSE, cpol |-> FALSE,
      cpha |-> FALSE, nss |-> "Soft", prescaler |-> 8, lsb |-> FALSE, polynomial |-> 7],
     [direction |-> "Line1Rx", mode |-> "Master", wide |-> TRUE, cpol |-> TRUE,
      cpha |-> TRUE, nss |-> "Hard", prescaler |-> 256, lsb |-> TRUE, polynomial |-> 9]}

SpiCall(x, registers, settings) ==
    /\ calls < MaxCalls
    /\ spis' = [spis EXCEPT ![x] = registers]
    /\ asked' = [asked EXCEPT ![x] = settings]
    /\ calls' = calls + 1

SpiInitialise(x) ==
    \E init \in FlashSettings :
        SpiCall(x, SPI_Init(spis[x], init),
             [asked[x] EXCEPT !.init = init, !.ssi = init.mode = "Master",
                !.tx = init.direction = "Line1Tx"])

SpiDeInit(x) ==
    /\ calls < MaxCalls
    /\ spis' = SPI_I2S_DeInit(spis, x)
    /\ asked' = [asked EXCEPT ![x] = SpiNothingAsked]
    /\ calls' = calls + 1

SpiCommands(x) ==
    \E on \in BOOLEAN :
        LET s == spis[x]
            With(what) == [asked[x] EXCEPT !.on = IF on THEN @ \cup {what} ELSE @ \ {what}]
        IN  \/ SpiCall(x, SPI_Cmd(s, on), With("enable"))
            \/ SpiCall(x, SPI_CalculateCRC(s, on), With("crc"))
            \/ SpiCall(x, SPI_SSOutputCmd(s, on), With("ssoutput"))
            \/ SpiCall(x, SPI_I2S_DMACmd(s, {0, 1}, on), With("dma"))
            \/ SpiCall(x, SPI_NSSInternalSoftwareConfig(s, on), [asked[x] EXCEPT !.ssi = on])
            \/ SpiCall(x, SPI_BiDirectionalLineConfig(s, on), [asked[x] EXCEPT !.tx = on])
            \/ SpiCall(x, SPI_DataSizeConfig(s, on), [asked[x] EXCEPT !.init.wide = on])

(* CRC next is dropped by the device once the CRC is sent.                 *)
SpiData(x) ==
    \/ SpiCall(x, SPI_TransmitCRC(spis[x]), asked[x])
    \/ SPI_I2S_GetFlagStatus(spis[x], TXE) /\ SpiCall(x, SPI_I2S_SendData(spis[x]), asked[x])
    \/ SPI_I2S_GetFlagStatus(spis[x], RXNE) /\ SpiCall(x, SPI_I2S_ReceiveData(spis[x]), asked[x])

SpiInterrupts(x) ==
    \/ \E it \in {"TXE", "RXNE", "ERR"}, on \in BOOLEAN :
         SpiCall(x, SPI_I2S_ITConfig(spis[x], SpiIT[it], on),
              [asked[x] EXCEPT !.its = IF on THEN @ \cup {it} ELSE @ \ {it}])
    \/ \E it \in {"CRCERR", "RXNE"} : SpiCall(x, SPI_I2S_ClearITPendingBit(spis[x], SpiIT[it]), asked[x])
    \/ \E flag \in {CRCERR, RXNE} : SpiCall(x, SPI_I2S_ClearFlag(spis[x], flag), asked[x])

(* The bus: a frame ends, over one that was not read or with a bad CRC.    *)
Frame(x) ==
    /\ BSY \in spis[x].SR
    /\ \E bad \in {{}, {CRCERR}} :
         spis' = [spis EXCEPT ![x].SR =
                     (@ \ {BSY}) \cup {TXE, RXNE} \cup (IF RXNE \in @ THEN {OVR} ELSE {}) \cup bad]
    /\ UNCHANGED <<asked, calls>>

SpiNext ==
    \E x \in Spis :
        SpiInitialise(x) \/ SpiDeInit(x) \/ SpiCommands(x) \/ SpiData(x) \/ SpiInterrupts(x) \/ Frame(x)

-----------------------------------------------------------------------------
(* The timer driver, stm32f10x_tim.c.  A timer has four channels; channel  *)
(* c has a byte of CCMR1 or CCMR2, four bits of CCER and two of CR2.       *)

Channel == 1..4
Ccmr(c) == IF c \in {1, 2} THEN "CCMR1" ELSE "CCMR2"
Up(bits, shift) == {i + shift : i \in bits} \cap (0..15)
InCcmr(bits, c) == Up(bits, 8 * ((c - 1) % 2))
InCcer(bits, c) == Up(bits, 4 * (c - 1))
InCr2(bits, c) == Up(bits, 2 * (c - 1))
When(on, position) == IF on THEN {position} ELSE {}
Put(bits, field, value) == (bits \ field) \cup value

ResetTim ==
    [CR1 |-> {}, CR2 |-> {}, SMCR |-> {}, DIER |-> {}, SR |-> {}, CCMR1 |-> {}, CCMR2 |-> {},
     CCER |-> {}, BDTR |-> {}, DCR |-> {}, CNT |-> 0, PSC |-> 0, ARR |-> 65535, RCR |-> 0,
     CCR |-> [c \in Channel |-> 0]]

GeneralTimers == {"TIM1", "TIM2", "TIM3", "TIM4", "TIM5", "TIM8"}

(* The device: the selection of a channel is written only while the        *)
(* channel is off.                                                         *)
WriteCcmr(t, register, value) ==
    LET on == {c \in Channel : Ccmr(c) = register /\ InCcer({0}, c) \subseteq t.CCER}
        kept == UNION {InCcmr({0, 1}, c) : c \in on}
    IN  [t EXCEPT ![register] = (@ \cap kept) \cup (value \ kept)]

(* The device: an event raises its flag; the update event restarts the     *)
(* counter and, in the automatic mode, sets MOE; UDIS and URS keep its     *)
(* flag down; a break drops MOE.                                           *)
Automatic(t) == When(14 \in t.BDTR /\ 1 \notin t.CR1, 15)
WriteEgr(t, events) ==
    [t EXCEPT !.SR = @ \cup (events \cap (1..7)) \cup When(0 \in events /\ {1, 2} \cap t.CR1 = {}, 0),
        !.CNT = IF 0 \notin events THEN @ ELSE IF 4 \in t.CR1 THEN t.ARR ELSE 0,
        !.BDTR = (@ \cup (IF 0 \in events THEN Automatic(t) ELSE {})) \ When(7 \in events, 15)]

(* A reset through RCC_APB1RSTR or RCC_APB2RSTR.                           *)
TIM_DeInit(timers, x) == [timers EXCEPT ![x] = ResetTim]

-----------------------------------------------------------------------------
(* The time base.                                                          *)

CounterMode ==
    [Up |-> {}, Down |-> {4}, CenterAligned1 |-> {5}, CenterAligned2 |-> {6}, CenterAligned3 |-> {5, 6}]
ClockDivision(n) == CASE n = 1 -> {} [] n = 2 -> {8} [] n = 4 -> {9}

TIM_TimeBaseStructInit ==
    [period |-> 65535, prescaler |-> 0, division |-> 1, mode |-> "Up", repetition |-> 0]
TIM_TimeBaseInit(t, x, init) ==
    LET mode == IF x \in GeneralTimers THEN Put(t.CR1, {4, 5, 6}, CounterMode[init.mode]) ELSE t.CR1
        cr1 == IF x \notin {"TIM6", "TIM7"} THEN Put(mode, {8, 9}, ClockDivision(init.division)) ELSE mode
    IN  WriteEgr([t EXCEPT !.CR1 = cr1, !.ARR = init.period, !.PSC = init.prescaler,
                     !.RCR = IF x \in {"TIM1", "TIM8", "TIM15", "TIM16", "TIM17"}
                             THEN init.repetition ELSE @], {0})

TIM_PrescalerConfig(t, prescaler, immediate) ==
    WriteEgr([t EXCEPT !.PSC = prescaler], When(immediate, 0))
TIM_CounterModeConfig(t, mode) == [t EXCEPT !.CR1 = Put(@, {4, 5, 6}, CounterMode[mode])]
TIM_SetClockDivision(t, n) == [t EXCEPT !.CR1 = Put(@, {8, 9}, ClockDivision(n))]
TIM_SetCounter(t, n) == [t EXCEPT !.CNT = n]
TIM_SetAutoreload(t, n) == [t EXCEPT !.ARR = n]
TIM_GetCounter(t) == t.CNT
TIM_GetPrescaler(t) == t.PSC

TIM_Cmd(t, on) == [t EXCEPT !.CR1 = Switch(@, 0, on)]
TIM_ARRPreloadConfig(t, on) == [t EXCEPT !.CR1 = Switch(@, 7, on)]
TIM_UpdateDisableConfig(t, on) == [t EXCEPT !.CR1 = Switch(@, 1, on)]
TIM_UpdateRequestConfig(t, regular) == [t EXCEPT !.CR1 = Switch(@, 2, regular)]
TIM_SelectOnePulseMode(t, single) == [t EXCEPT !.CR1 = Put(@, {3}, When(single, 3))]
TIM_SelectCOM(t, on) == [t EXCEPT !.CR2 = Switch(@, 2, on)]
TIM_SelectCCDMA(t, on) == [t EXCEPT !.CR2 = Switch(@, 3, on)]
TIM_CCPreloadControl(t, on) == [t EXCEPT !.CR2 = Switch(@, 0, on)]
TIM_SelectHallSensor(t, on) == [t EXCEPT !.CR2 = Switch(@, 7, on)]

-----------------------------------------------------------------------------
(* Output channels.                                                        *)

PutCcmr(t, c, field, value) ==
    WriteCcmr(t, Ccmr(c), Put(t[Ccmr(c)], InCcmr(field, c), InCcmr(value, c)))
PutCcer(t, c, field, value) == [t EXCEPT !.CCER = Put(@, InCcer(field, c), InCcer(value, c))]
Off(t, c) == PutCcer(t, c, {0}, {})

OCMode == [Timing |-> {}, Active |-> {4}, Inactive |-> {5}, Toggle |-> {4, 5}, PWM1 |-> {5, 6}, PWM2 |-> {4, 5, 6}]
ForcedAction == [Active |-> {4, 6}, InActive |-> {6}]

TIM_OCStructInit ==
    [mode |-> "Timing", output |-> FALSE, outputN |-> FALSE, pulse |-> 0, low |-> FALSE,
     lowN |-> FALSE, idle |-> FALSE, idleN |-> FALSE]

(* The timers whose channel c has a complementary output and idle states;  *)
(* the fourth channel has one idle state and no complementary output.      *)
Advanced(c) == {"TIM1", "TIM8"} \cup (IF c = 1 THEN {"TIM15", "TIM16", "TIM17"} ELSE {})

(* The channel is switched off first; preload, fast and clear enable are   *)
(* left as they are.                                                       *)
OCxInit(t, x, c, init) ==
    LET off == Off(t, c)
        complement == x \in Advanced(c) /\ c # 4
        idles == IF c = 4 THEN {8} ELSE {8, 9}
        moded == PutCcmr([off EXCEPT !.CR2 =
                     IF x \in Advanced(c)
                     THEN Put(@, InCr2(idles, c),
                              InCr2((When(init.idle, 8) \cup When(init.idleN, 9)) \cap idles, c))
                     ELSE @], c, {0, 1, 4, 5, 6}, OCMode[init.mode])
    IN  PutCcer([moded EXCEPT !.CCR[c] = init.pulse], c, {1} \cup (IF complement THEN {2, 3} ELSE {}),
                When(init.low, 1) \cup When(init.output, 0)
                  \cup (IF complement THEN When(init.lowN, 3) \cup When(init.outputN, 2) ELSE {}))
TIM_OC1Init(t, x, init) == OCxInit(t, x, 1, init)
TIM_OC2Init(t, x, init) == OCxInit(t, x, 2, init)
TIM_OC3Init(t, x, init) == OCxInit(t, x, 3, init)
TIM_OC4Init(t, x, init) == OCxInit(t, x, 4, init)

TIM_ForcedOCxConfig(t, c, action) == PutCcmr(t, c, {4, 5, 6}, ForcedAction[action])
TIM_OCxPreloadConfig(t, c, on) == PutCcmr(t, c, {3}, When(on, 3))
TIM_OCxFastConfig(t, c, on) == PutCcmr(t, c, {2}, When(on, 2))
TIM_ClearOCxRef(t, c, on) == PutCcmr(t, c, {7}, When(on, 7))
TIM_OCxPolarityConfig(t, c, low) == PutCcer(t, c, {1}, When(low, 1))
TIM_OCxNPolarityConfig(t, c, low) == PutCcer(t, c, {3}, When(low, 3))
TIM_CCxCmd(t, c, on) == PutCcer(t, c, {0}, When(on, 0))
TIM_CCxNCmd(t, c, on) == PutCcer(t, c, {2}, When(on, 2))
TIM_SelectOCxM(t, c, mode) == PutCcmr(Off(t, c), c, {4, 5, 6}, OCMode[mode])
TIM_SetComparex(t, c, n) == [t EXCEPT !.CCR[c] = n]
TIM_GetCapturex(t, c) == t.CCR[c]

(* Break and dead time: the whole register, the main output enable too.    *)
TIM_BDTRStructInit ==
    [ossr |-> FALSE, ossi |-> FALSE, lock |-> 0, deadTime |-> 0, break |-> FALSE, high |-> FALSE,
     automatic |-> FALSE]
TIM_BDTRConfig(t, init) ==
    [t EXCEPT !.BDTR = When(init.ossr, 11) \cup When(init.ossi, 10) \cup Shifted(init.lock, 8)
                         \cup Ones(init.deadTime) \cup When(init.break, 12) \cup When(init.high, 13)
                         \cup When(init.automatic, 14)]
TIM_CtrlPWMOutputs(t, on) == [t EXCEPT !.BDTR = Switch(@, 15, on)]

-----------------------------------------------------------------------------
(* Input channels.                                                         *)

ICPolarity == [Rising |-> {}, Falling |-> {1}, BothEdge |-> {1, 3}]
ICSelection == [DirectTI |-> {0}, IndirectTI |-> {1}, TRC |-> {0, 1}]
ICPrescaler(n) == CASE n = 1 -> {} [] n = 2 -> {2} [] n = 4 -> {3} [] n = 8 -> {2, 3}

(* The channel is off while its selection and filter change and on after.  *)
(* For the small timers, which this device does not have, the polarity     *)
(* is written at the place of the first channel, whatever the channel is,  *)
(* and the fourth clears the polarity of the third.                        *)
TIx_Config(t, x, c, polarity, selection, filter) ==
    LET input == PutCcmr(Off(t, c), c, {0, 1} \cup (4..7), ICSelection[selection] \cup Shifted(filter, 4))
        cleared == IF c = 4 THEN {9, 15} ELSE InCcer({1, 3}, c)
    IN  IF x \in GeneralTimers THEN PutCcer(input, c, {1}, ICPolarity[polarity] \cup {0})
        ELSE [input EXCEPT !.CCER = Put(@, cleared, ICPolarity[polarity] \cup InCcer({0}, c))]
TI1_Config(t, x, polarity, selection, filter) == TIx_Config(t, x, 1, polarity, selection, filter)
TI2_Config(t, x, polarity, selection, filter) == TIx_Config(t, x, 2, polarity, selection, filter)
TI3_Config(t, x, polarity, selection, filter) == TIx_Config(t, x, 3, polarity, selection, filter)
TI4_Config(t, x, polarity, selection, filter) == TIx_Config(t, x, 4, polarity, selection, filter)

TIM_SetICxPrescaler(t, c, n) == PutCcmr(t, c, {2, 3}, ICPrescaler(n))
TIM_ICStructInit ==
    [channel |-> 1, polarity |-> "Rising", selection |-> "DirectTI", prescaler |-> 1, filter |-> 0]
TIM_ICInit(t, x, init) ==
    LET input == CASE init.channel = 1 -> TI1_Config(t, x, init.polarity, init.selection, init.filter)
                   [] init.channel = 2 -> TI2_Config(t, x, init.polarity, init.selection, init.filter)
                   [] init.channel = 3 -> TI3_Config(t, x, init.polarity, init.selection, init.filter)
                   [] init.channel = 4 -> TI4_Config(t, x, init.polarity, init.selection, init.filter)
    IN  TIM_SetICxPrescaler(input, init.channel, init.prescaler)

(* One signal on two channels: the other edge on the other of the two.     *)
OtherEdge(init) ==
    [init EXCEPT !.channel = 3 - @, !.polarity = IF @ = "Rising" THEN "Falling" ELSE "Rising",
        !.selection = IF @ = "DirectTI" THEN "IndirectTI" ELSE "DirectTI"]
TIM_PWMIConfig(t, x, init) ==
    LET one == [init EXCEPT !.channel = IF @ = 1 THEN 1 ELSE 2]
    IN  TIM_ICInit(TIM_ICInit(t, x, one), x, OtherEdge(one))

-----------------------------------------------------------------------------
(* Triggers and the slave mode.                                            *)

TS(n) == Shifted(n, 4)
ETRF == 7

TIM_SelectInputTrigger(t, n) == [t EXCEPT !.SMCR = Put(@, {4, 5, 6}, TS(n))]
TIM_SelectOutputTrigger(t, n) == [t EXCEPT !.CR2 = Put(@, {4, 5, 6}, Shifted(n, 4))]
TIM_SelectSlaveMode(t, n) == [t EXCEPT !.SMCR = Put(@, {0, 1, 2}, Ones(n))]
TIM_SelectMasterSlaveMode(t, on) == [t EXCEPT !.SMCR = Put(@, {7}, When(on, 7))]
External1(t) == [t EXCEPT !.SMCR = @ \cup {0, 1, 2}]
TIM_InternalClockConfig(t) == [t EXCEPT !.SMCR = @ \ {0, 1, 2}]
TIM_ITRxExternalClockConfig(t, n) == External1(TIM_SelectInputTrigger(t, n))
TIM_TIxExternalClockConfig(t, x, source, polarity, filter) ==
    LET input == IF source = 6 THEN TI2_Config(t, x, polarity, "DirectTI", filter)
                 ELSE TI1_Config(t, x, polarity, "DirectTI", filter)
    IN  External1(TIM_SelectInputTrigger(input, source))

(* The upper half of SMCR is replaced: the second external mode ends.      *)
TIM_ETRConfig(t, prescaler, inverted, filter) ==
    [t EXCEPT !.SMCR = Modify(@, Hex(0, \h00FF),
                              Shifted(prescaler, 12) \cup When(inverted, 15) \cup Shifted(filter, 8))]
TIM_ETRClockMode1Config(t, prescaler, inverted, filter) ==
    LET etr == TIM_ETRConfig(t, prescaler, inverted, filter)
    IN  [etr EXCEPT !.SMCR = Put(Put(@, {0, 1, 2}, Ones(7)), {4, 5, 6}, TS(ETRF))]
TIM_ETRClockMode2Config(t, prescaler, inverted, filter) ==
    [TIM_ETRConfig(t, prescaler, inverted, filter) EXCEPT !.SMCR = @ \cup {14}]

(* Both channels become inputs, if they are off.                           *)
TIM_EncoderInterfaceConfig(t, n, polarity1, polarity2) ==
    LET slave == [t EXCEPT !.SMCR = Put(@, {0, 1, 2}, Ones(n))]
        inputs == WriteCcmr(slave, "CCMR1", Put(t.CCMR1, {0, 1, 8, 9}, {0, 8}))
    IN  [inputs EXCEPT !.CCER = Put(@, {1, 5}, ICPolarity[polarity1] \cup Up(ICPolarity[polarity2], 4))]

-----------------------------------------------------------------------------
(* Requests, events and flags.                                             *)

TIM_ITConfig(t, its, on) == [t EXCEPT !.DIER = IF on THEN @ \cup its ELSE @ \ its]
TIM_DMACmd(t, sources, on) == [t EXCEPT !.DIER = IF on THEN @ \cup sources ELSE @ \ sources]
TIM_DMAConfig(t, base, length) == [t EXCEPT !.DCR = Ones(base) \cup Shifted(length - 1, 8)]
TIM_GenerateEvent(t, events) == WriteEgr(t, events)

(* SR is written with zeros for the named flags; a one leaves a flag.      *)
TIM_GetFlagStatus(t, flags) == t.SR \cap flags # {}
TIM_ClearFlag(t, flags) == [t EXCEPT !.SR = @ \cap ((0..15) \ flags)]
TIM_GetITStatus(t, its) == t.SR \cap its # {} /\ t.DIER \cap its # {}
TIM_ClearITPendingBit(t, its) == [t EXCEPT !.SR = @ \cap ((0..15) \ its)]

-----------------------------------------------------------------------------
(* The timers: an advanced one and a general purpose one.                  *)

Timers == {"TIM1", "TIM3"}

(* A channel by the fields of its byte: the selection, the two bits that   *)
(* are prescaler or fast and preload, the four that are filter or mode and *)
(* clear enable.                                                           *)
ChannelNothingAsked ==
    [selection |-> 0, low |-> 0, high |-> 0, on |-> FALSE, inverted |-> FALSE, onN |-> FALSE,
     invertedN |-> FALSE, idle |-> FALSE, idleN |-> FALSE, compare |-> 0]

TimNothingAsked ==
    [on |-> {}, mode |-> "Up", division |-> 1, period |-> 65535, prescaler |-> 0, repetition |-> 0,
     trgo |-> 0, slave |-> 0, trigger |-> 0, etr |-> <<0, FALSE, 0>>, its |-> {}, dma |-> {},
     burst |-> <<0, 1>>, bdtr |-> TIM_BDTRStructInit,
     channel |-> [c \in Channel |-> ChannelNothingAsked]]

TimInit ==
    /\ \E x \in Timers : tims = [y \in {x} |-> ResetTim] /\ asked = TimNothingAsked
    /\ calls = 0

TimCall(x, registers, settings) ==
    /\ calls < MaxCalls
    /\ tims' = [tims EXCEPT ![x] = registers]
    /\ asked' = settings
    /\ calls' = calls + 1

TimDeInit(x) ==
    /\ calls < MaxCalls
    /\ tims' = TIM_DeInit(tims, x)
    /\ asked' = TimNothingAsked
    /\ calls' = calls + 1

TimeBase(x) ==
    LET t == tims[x]
    IN  \/ \E init \in {TIM_TimeBaseStructInit,
                        [period |-> 999, prescaler |-> 71, division |-> 4, mode |-> "CenterAligned2",
                         repetition |-> 3]} :
             TimCall(x, TIM_TimeBaseInit(t, x, init),
                  [asked EXCEPT !.period = init.period, !.prescaler = init.prescaler,
                     !.division = init.division, !.mode = init.mode,
                     !.repetition = IF x = "TIM1" THEN init.repetition ELSE @])
        \/ \E mode \in {"Down", "CenterAligned3"} :
             TimCall(x, TIM_CounterModeConfig(t, mode), [asked EXCEPT !.mode = mode])
        \/ TimCall(x, TIM_SetClockDivision(t, 2), [asked EXCEPT !.division = 2])
        \/ TimCall(x, TIM_SetAutoreload(t, 9), [asked EXCEPT !.period = 9])
        \/ TimCall(x, TIM_SetCounter(t, 5), asked)
        \/ \E b \in BOOLEAN : TimCall(x, TIM_PrescalerConfig(t, 7, b), [asked EXCEPT !.prescaler = 7])

TimCommands(x) ==
    \E on \in BOOLEAN :
        LET t == tims[x]
            With(what) == [asked EXCEPT !.on = IF on THEN @ \cup {what} ELSE @ \ {what}]
        IN  \/ TimCall(x, TIM_Cmd(t, on), With("enable"))
            \/ TimCall(x, TIM_ARRPreloadConfig(t, on), With("preload"))
            \/ TimCall(x, TIM_UpdateDisableConfig(t, on), With("noupdate"))
            \/ TimCall(x, TIM_UpdateRequestConfig(t, on), With("regular"))
            \/ TimCall(x, TIM_SelectOnePulseMode(t, on), With("onepulse"))
            \/ TimCall(x, TIM_SelectCOM(t, on), With("com"))
            \/ TimCall(x, TIM_SelectCCDMA(t, on), With("ccdma"))
            \/ TimCall(x, TIM_CCPreloadControl(t, on), With("ccpreload"))
            \/ TimCall(x, TIM_SelectHallSensor(t, on), With("hall"))
            \/ TimCall(x, TIM_SelectMasterSlaveMode(t, on), With("master"))
            \/ TimCall(x, TIM_CtrlPWMOutputs(t, on), With("outputs"))

(* Fast and preload, mode and clear enable keep each other's bits.         *)
OutputChannel(x, c) ==
    LET t == tims[x]
        Becomes(registers, channel) == TimCall(x, registers, [asked EXCEPT !.channel[c] = channel])
        a == asked.channel[c]
        One(on) == IF on THEN 1 ELSE 0
    IN  \/ \E init \in {TIM_OCStructInit,
                        [mode |-> "PWM1", output |-> TRUE, outputN |-> TRUE, pulse |-> 499, low |-> TRUE,
                         lowN |-> TRUE, idle |-> TRUE, idleN |-> TRUE]} :
             Becomes(CASE c = 1 -> TIM_OC1Init(t, x, init) [] c = 2 -> TIM_OC2Init(t, x, init)
                       [] c = 3 -> TIM_OC3Init(t, x, init) [] c = 4 -> TIM_OC4Init(t, x, init),
                  LET output == [a EXCEPT !.selection = 0, !.on = init.output, !.inverted = init.low,
                                   !.compare = init.pulse,
                                   !.high = 8 * (@ \div 8) + (IF init.mode = "PWM1" THEN 6 ELSE 0)]
                  IN  CASE x = "TIM1" /\ c # 4 -> [output EXCEPT !.onN = init.outputN, !.invertedN = init.lowN,
                                                     !.idle = init.idle, !.idleN = init.idleN]
                        [] x = "TIM1" /\ c = 4 -> [output EXCEPT !.idle = init.idle]
                        [] OTHER -> output)
        \/ Becomes(TIM_ForcedOCxConfig(t, c, "Active"), [a EXCEPT !.high = 8 * (@ \div 8) + 5])
        \/ Becomes(TIM_SelectOCxM(t, c, "Toggle"), [a EXCEPT !.high = 8 * (@ \div 8) + 3, !.on = FALSE])
        \/ Becomes(TIM_SetComparex(t, c, 77), [a EXCEPT !.compare = 77])
        \/ \E on \in BOOLEAN :
             \/ Becomes(TIM_OCxPreloadConfig(t, c, on), [a EXCEPT !.low = (@ % 2) + 2 * One(on)])
             \/ Becomes(TIM_OCxFastConfig(t, c, on), [a EXCEPT !.low = 2 * (@ \div 2) + One(on)])
             \/ Becomes(TIM_ClearOCxRef(t, c, on), [a EXCEPT !.high = (@ % 8) + 8 * One(on)])
             \/ Becomes(TIM_OCxPolarityConfig(t, c, on), [a EXCEPT !.inverted = on])
             \/ Becomes(TIM_CCxCmd(t, c, on), [a EXCEPT !.on = on])
             \/ c # 4 /\ Becomes(TIM_OCxNPolarityConfig(t, c, on), [a EXCEPT !.invertedN = on])
             \/ c # 4 /\ Becomes(TIM_CCxNCmd(t, c, on), [a EXCEPT !.onN = on])

(* A channel that captures is on.                                          *)
Capturing(channel, init) ==
    [channel EXCEPT !.selection = CASE init.selection = "DirectTI" -> 1 [] init.selection = "IndirectTI" -> 2,
        !.low = CASE init.prescaler = 1 -> 0 [] init.prescaler = 8 -> 3,
        !.high = init.filter, !.on = TRUE, !.inverted = init.polarity = "Falling"]
Inputs ==
    {[TIM_ICStructInit EXCEPT !.channel = c] : c \in Channel}
    \cup {[channel |-> c, polarity |-> "Falling", selection |-> "IndirectTI", prescaler |-> 8, filter |-> 10]
            : c \in Channel}

InputChannel(x) ==
    LET t == tims[x]
    IN  \E init \in Inputs :
          \/ TimCall(x, TIM_ICInit(t, x, init),
                  [asked EXCEPT !.channel[init.channel] = Capturing(@, init)])
          \/ /\ init.channel \in {1, 2}
             /\ LET other == OtherEdge(init)
                IN  TimCall(x, TIM_PWMIConfig(t, x, init),
                         [asked EXCEPT !.channel[init.channel] = Capturing(@, init),
                             !.channel[other.channel] = Capturing(@, other)])
          \/ /\ init.prescaler = 8
             /\ TimCall(x, TIM_SetICxPrescaler(t, init.channel, 8),
                     [asked EXCEPT !.channel[init.channel].low = 3])

(* The encoder's channels are off when it is configured: its caller sees   *)
(* to it, the function does not.                                           *)
Trigger(x) ==
    LET t == tims[x]
        Direct(c, inverted) ==
            [asked.channel[c] EXCEPT !.selection = 1, !.high = 12, !.on = TRUE, !.inverted = inverted]
    IN  \/ \E n \in {2, 5} :
             \/ TimCall(x, TIM_SelectInputTrigger(t, n), [asked EXCEPT !.trigger = n])
             \/ TimCall(x, TIM_SelectOutputTrigger(t, n), [asked EXCEPT !.trgo = n])
             \/ TimCall(x, TIM_SelectSlaveMode(t, n), [asked EXCEPT !.slave = n])
        \/ TimCall(x, TIM_InternalClockConfig(t), [asked EXCEPT !.slave = 0])
        \/ TimCall(x, TIM_ITRxExternalClockConfig(t, 3), [asked EXCEPT !.trigger = 3, !.slave = 7])
        \/ TimCall(x, TIM_TIxExternalClockConfig(t, x, 6, "Falling", 12),
                [asked EXCEPT !.trigger = 6, !.slave = 7, !.channel[2] = Direct(2, TRUE)])
        \/ TimCall(x, TIM_TIxExternalClockConfig(t, x, 5, "Rising", 12),
                [asked EXCEPT !.trigger = 5, !.slave = 7, !.channel[1] = Direct(1, FALSE)])
        \/ TimCall(x, TIM_ETRConfig(t, 2, TRUE, 9), [asked EXCEPT !.etr = <<2, TRUE, 9>>, !.on = @ \ {"external2"}])
        \/ TimCall(x, TIM_ETRClockMode1Config(t, 1, FALSE, 6),
                [asked EXCEPT !.etr = <<1, FALSE, 6>>, !.slave = 7, !.trigger = 7, !.on = @ \ {"external2"}])
        \/ TimCall(x, TIM_ETRClockMode2Config(t, 3, TRUE, 15),
                [asked EXCEPT !.etr = <<3, TRUE, 15>>, !.on = @ \cup {"external2"}])
        \/ /\ ~asked.channel[1].on /\ ~asked.channel[2].on
           /\ TimCall(x, TIM_EncoderInterfaceConfig(t, 3, "Falling", "Rising"),
                   [asked EXCEPT !.slave = 3,
                       !.channel[1].selection = 1, !.channel[1].inverted = TRUE,
                       !.channel[2].selection = 1, !.channel[2].inverted = FALSE])

(* The break register holds the main output enable too: it is dropped.     *)
TimRequests(x) ==
    LET t == tims[x]
    IN  \/ \E its \in {{0}, {2, 6}}, on \in BOOLEAN :
             TimCall(x, TIM_ITConfig(t, its, on), [asked EXCEPT !.its = IF on THEN @ \cup its ELSE @ \ its])
        \/ \E on \in BOOLEAN :
             TimCall(x, TIM_DMACmd(t, {8, 14}, on), [asked EXCEPT !.dma = IF on THEN {8, 14} ELSE {}])
        \/ TimCall(x, TIM_DMAConfig(t, 13, 18), [asked EXCEPT !.burst = <<13, 18>>])
        \/ \E events \in {{0}, {2, 6}, {7}} :
             TimCall(x, TIM_GenerateEvent(t, events),
                  [asked EXCEPT !.on = IF 7 \in events THEN @ \ {"outputs"} ELSE @])
        \/ \E flag \in {0, 2} :
             /\ TIM_GetFlagStatus(t, {flag})
             /\ TimCall(x, TIM_ClearFlag(t, {flag}), asked) \/ TimCall(x, TIM_ClearITPendingBit(t, {flag}), asked)
        \/ \E init \in {TIM_BDTRStructInit,
                        [ossr |-> TRUE, ossi |-> TRUE, lock |-> 0, deadTime |-> 171, break |-> TRUE,
                         high |-> TRUE, automatic |-> TRUE]} :
             TimCall(x, TIM_BDTRConfig(t, init), [asked EXCEPT !.bdtr = init, !.on = @ \ {"outputs"}])

(* The counter reaches its end, once in the one pulse mode; an edge is     *)
(* captured, over one whose flag is still up.                              *)
Count(x) ==
    /\ UNCHANGED calls
    /\ LET t == tims[x]
       IN  \/ /\ 0 \in t.CR1
              /\ tims' = [tims EXCEPT ![x].SR = @ \cup When(1 \notin t.CR1, 0),
                            ![x].CR1 = @ \ When(3 \in t.CR1, 0), ![x].BDTR = @ \cup Automatic(t)]
              /\ asked' = [asked EXCEPT !.on = IF "onepulse" \in @ THEN @ \ {"enable"} ELSE @]
           \/ \E c \in Channel :
                /\ asked.channel[c].on /\ asked.channel[c].selection # 0
                /\ tims' = [tims EXCEPT ![x].SR = @ \cup {c} \cup When(c \in @, c + 8),
                              ![x].CCR[c] = TIM_GetCounter(t)]
                /\ asked' = [asked EXCEPT !.channel[c].compare = TIM_GetCapturex(tims'[x], c)]
    /\ <<tims, asked>>' # <<tims, asked>>

TimNext ==
    \E x \in DOMAIN tims :
        \/ TimDeInit(x)
        \/ TimeBase(x)
        \/ TimCommands(x)
        \/ \E c \in Channel : OutputChannel(x, c)
        \/ InputChannel(x)
        \/ Trigger(x)
        \/ TimRequests(x)
        \/ Count(x)

-----------------------------------------------------------------------------
Init ==
    \/ /\ device = "RCC" /\ RccInit
       /\ ports = {} /\ afio = {} /\ usarts = {} /\ spis = {} /\ tims = {}
    \/ /\ device = "GPIO" /\ GpioInit
       /\ rcc = {} /\ usarts = {} /\ spis = {} /\ tims = {}
    \/ /\ device = "USART" /\ UsartInit
       /\ ports = {} /\ afio = {} /\ spis = {} /\ tims = {}
    \/ /\ device = "SPI" /\ SpiInit
       /\ rcc = {} /\ ports = {} /\ afio = {} /\ usarts = {} /\ tims = {}
    \/ /\ device = "TIM" /\ TimInit
       /\ rcc = {} /\ ports = {} /\ afio = {} /\ usarts = {} /\ spis = {}

Next ==
    \/ device = "RCC" /\ RccNext /\ UNCHANGED <<device, ports, afio, usarts, spis, tims>>
    \/ device = "GPIO" /\ GpioNext /\ UNCHANGED <<device, rcc, usarts, spis, tims>>
    \/ device = "USART" /\ UsartNext /\ UNCHANGED <<device, ports, afio, spis, tims>>
    \/ device = "SPI" /\ SpiNext /\ UNCHANGED <<device, rcc, ports, afio, usarts, tims>>
    \/ device = "TIM" /\ TimNext /\ UNCHANGED <<device, rcc, ports, afio, usarts, spis>>

Spec == Init /\ [][Next]_<<device, rcc, ports, afio, usarts, spis, tims, asked, calls>>

-----------------------------------------------------------------------------
(* Properties.                                                             *)

(* The registers read back, by the fields of the reference manual: every   *)
(* setting is the one asked for last, whatever was called since for other  *)
(* settings (the masks and shifts of stm32f10x_rcc.c).                     *)
RccSettings ==
    LET Is(register, position) == position \in rcc[register]
        Code(low, high) == Field(rcc.CFGR, low, high)
    IN  /\ SYSCLKSource[asked.sys] = rcc.CFGR \cap {0, 1}
        /\ PLLSource[asked.pllsrc] = rcc.CFGR \cap {16, 17}
        /\ Code(18, 21) = asked.pllmul - 2
        /\ Code(24, 26) = asked.mco
        /\ Is("CFGR", 22) = asked.usb
        /\ Field(rcc.CR, 3, 7) = asked.trim
        /\ Is("CR", HSION) = asked.hsi
        /\ Is("CR", HSEON) = (asked.hse # "OFF")
        /\ Is("CR", HSEBYP) = (asked.hse = "Bypass")
        /\ Is("CR", PLLON) = asked.pll
        /\ Is("CR", CSSON) = asked.css
        /\ Is("CSR", 0) = asked.lsi
        /\ Is("BDCR", 0) = (asked.lse # "OFF")
        /\ Is("BDCR", 2) = (asked.lse = "Bypass")
        /\ Field(rcc.BDCR, 8, 9) = asked.rtc
        /\ Is("BDCR", 15) = asked.rtcen
        /\ Is("BDCR", 16) = asked.backup
        /\ rcc.CIR \cap (8..15) = {i + 8 : i \in asked.its}
        /\ \A register \in {"AHBENR", "APB2ENR", "APB1ENR", "APB2RSTR", "APB1RSTR"} :
              rcc[register] = asked[register]

(* Once the switch has followed, RCC_GetClocksFreq, from which the baud    *)
(* rate is derived, computes the frequencies of what was asked for.        *)
Frequencies ==
    LET f == RCC_GetClocksFreq(rcc)
        input == CASE asked.pllsrc = "HSI_Div2" -> HSI_VALUE \div 2
                   [] asked.pllsrc = "HSE_Div1" -> HSE_VALUE
                   [] asked.pllsrc = "HSE_Div2" -> HSE_VALUE \div 2
        sysclk == CASE asked.sys = "HSI" -> HSI_VALUE [] asked.sys = "HSE" -> HSE_VALUE
                    [] asked.sys = "PLL" -> input * asked.pllmul
        hclk == sysclk \div asked.hpre
    IN  ({i + 2 : i \in rcc.CFGR \cap {0, 1}} = rcc.CFGR \cap {2, 3})
          => f = [SYSCLK_Frequency |-> sysclk, HCLK_Frequency |-> hclk,
                  PCLK1_Frequency |-> hclk \div asked.ppre1,
                  PCLK2_Frequency |-> hclk \div asked.ppre2,
                  ADCCLK_Frequency |-> (hclk \div asked.ppre2) \div asked.adc]

(* The four bits of a pin in the reference manual.                         *)
Configuration(setting) ==
    CASE setting.mode = "IN_FLOATING" -> 4
      [] setting.mode \in {"IPD", "IPU"} -> 8
      [] setting.mode = "Out_PP" -> 3
      [] setting.mode = "AF_PP" -> 11

(* GPIO_Init leaves every pin it is not given alone, in both halves of the *)
(* port, and a locked pin keeps the configuration it was locked with.      *)
PinConfigurations ==
    \A x \in Ports, p \in Pin :
        LET bits == IF p < 8 THEN Field(ports[x].CRL, 4 * p, 4 * p + 3)
                    ELSE Field(ports[x].CRH, 4 * (p - 8), 4 * (p - 8) + 3)
        IN  bits = Configuration(asked.pins[x][p])

(* The output latch, which is also the pull direction of an input, changes *)
(* only for the pins a call names.                                         *)
PinLatches == \A x \in Ports : GPIO_ReadOutputData(ports[x]) = asked.latch[x]

(* Every alternate function is mapped as asked last, by the fields of the  *)
(* reference manual, and moving the pins of one function never touches     *)
(* another one or the debug port.                                          *)
Remaps ==
    LET Is(position, f) == (position \in afio.MAPR) = (asked.remaps[f] # "None")
        Two(low, f, one, two, three) ==
            Field(afio.MAPR, low, low + 1) =
                CASE asked.remaps[f] = "None" -> 0 [] asked.remaps[f] = one -> 1
                  [] asked.remaps[f] = two -> 2 [] asked.remaps[f] = three -> 3
    IN  /\ Is(0, "SPI1") /\ Is(1, "I2C1") /\ Is(2, "USART1") /\ Is(3, "USART2")
        /\ Is(12, "TIM4") /\ Is(15, "PD01") /\ Is(17, "ADC1_ETRGINJ")
        /\ Two(4, "USART3", "PartialUSART3", "", "FullUSART3")
        /\ Two(6, "TIM1", "PartialTIM1", "", "FullTIM1")
        /\ Two(8, "TIM2", "Partial1TIM2", "Partial2TIM2", "FullTIM2")
        /\ Two(10, "TIM3", "", "PartialTIM3", "FullTIM3")
        /\ Two(13, "CAN1", "", "Remap1CAN1", "Remap2CAN1")
        /\ afio.debug = asked.debug

(* The source of an interrupt line or event output is the one asked last.  *)
LineSources ==
    /\ \A l \in Pin : Field(afio.EXTICR[l \div 4], 4 * (l % 4), 4 * (l % 4) + 3) = asked.lines[l]
    /\ <<Field(afio.EVCR, 4, 6), Field(afio.EVCR, 0, 3)>> = asked.event
    /\ (7 \in afio.EVCR) = asked.eventOn

(* By the fields of the reference manual, every setting is the one asked   *)
(* for last, whatever was called since for the settings that share its     *)
(* register.                                                               *)
UsartSettings ==
    \A x \in Usarts :
        LET u == usarts[x]
            a == asked[x]
            Is(register, position, what) == (position \in u[register]) = (what \in a.on)
            It(register, position, it) == (position \in u[register]) = (it \in a.its)
        IN  /\ Is("CR1", 13, "enable") /\ Is("CR1", 1, "mute") /\ Is("CR1", 15, "over8")
            /\ Is("CR2", 14, "lin") /\ Is("CR3", 5, "smartcard") /\ Is("CR3", 4, "nack")
            /\ Is("CR3", 3, "half") /\ Is("CR3", 11, "onebit") /\ Is("CR3", 1, "irda")
            /\ It("CR1", 4, "IDLE") /\ It("CR1", 5, "RXNE") /\ It("CR1", 6, "TC")
            /\ It("CR1", 7, "TXE") /\ It("CR1", 8, "PE") /\ It("CR2", 6, "LBD")
            /\ It("CR3", 0, "ERR") /\ It("CR3", 10, "CTS")
            /\ (11 \in u.CR1) = a.mark /\ (5 \in u.CR2) = a.long /\ (2 \in u.CR3) = a.low
            /\ u.CR3 \cap {6, 7} = a.dma
            /\ Field(u.CR2, 0, 3) = a.address
            /\ Field(u.GTPR, 8, 15) = a.guard /\ Field(u.GTPR, 0, 7) = a.prescaler
            /\ (11 \in u.CR2) = a.clock.clock /\ (10 \in u.CR2) = a.clock.cpol
            /\ (9 \in u.CR2) = a.clock.cpha /\ (8 \in u.CR2) = a.clock.last
            /\ a.init.baud # 0 =>
                 /\ (12 \in u.CR1) = (a.init.word = "bits9")
                 /\ Field(u.CR2, 12, 13) = CASE a.init.stop = "one" -> 0 [] a.init.stop = "oneHalf" -> 3
                 /\ (10 \in u.CR1) = (a.init.parity # "No")
                 /\ (9 \in u.CR1) = (a.init.parity = "Odd")
                 /\ 2 \in u.CR1 /\ (3 \in u.CR1) = (a.init.mode = "RxTx")
                 /\ u.CR3 \cap {8, 9} = FlowControl[a.init.flow]

(* The divider the device uses, in sixteenths (eighths) of a clock, gives  *)
(* the rate asked for within one hundred-and-twenty-fifth: both ends of    *)
(* the link stay within the 2 % a receiver tolerates, on the crystal and   *)
(* on the internal oscillator, on both buses and for both oversamplings.   *)
RatesAreNear ==
    \A x \in Usarts :
        LET a == asked[x]
            brr == usarts[x].BRR
            divider == IF a.over8 THEN 8 * (brr \div 16) + (brr % 8) ELSE brr
            off == divider * a.init.baud - a.clockOf
        IN  a.init.baud # 0 => (IF off < 0 THEN -off ELSE off) <= a.clockOf \div 125

(* USART_GetITStatus reports exactly the interrupts that are enabled and   *)
(* whose flag is up.                                                       *)
UsartPending ==
    \A x \in Usarts :
        LET Reported(it, flag) ==
                USART_GetITStatus(usarts[x], UsartIT[it])
                    = (it \in asked[x].its /\ USART_GetFlagStatus(usarts[x], flag))
        IN  /\ Reported("RXNE", 5) /\ Reported("TC", 6) /\ Reported("TXE", 7)
            /\ Reported("IDLE", 4) /\ Reported("PE", 0) /\ Reported("LBD", 8) /\ Reported("CTS", 9)

(* A received byte's flag stays up until the byte is read or that flag     *)
(* alone is cleared: clearing another one does not lose it.                *)
ReceivedStays ==
    \A x \in Usarts :
      (5 \in usarts[x].SR /\ 5 \notin usarts'[x].SR)
        => \/ usarts'[x] = USART_ReceiveData(usarts[x], usarts[x].SR)
           \/ usarts'[x].SR = usarts[x].SR \ {5}
           \/ usarts'[x] = ResetUsart

(* By the fields of the reference manual every setting is the one asked    *)
(* for last: SPI_Init replaces all of them and keeps the enable bits.      *)
SpiSettings ==
    \A x \in Spis :
        LET s == spis[x]
            a == asked[x]
            Is(register, position, value) == (position \in s[register]) = value
        IN  /\ Is("CR1", 0, a.init.cpha) /\ Is("CR1", 1, a.init.cpol)
            /\ Is("CR1", 2, a.init.mode = "Master")
            /\ 2 ^ (Field(s.CR1, 3, 5) + 1) = a.init.prescaler
            /\ Is("CR1", 6, "enable" \in a.on) /\ Is("CR1", 7, a.init.lsb)
            /\ Is("CR1", 8, a.ssi) /\ Is("CR1", 9, a.init.nss = "Soft")
            /\ Is("CR1", 10, a.init.direction = "RxOnly") /\ Is("CR1", 11, a.init.wide)
            /\ Is("CR1", 13, "crc" \in a.on) /\ Is("CR1", 14, a.tx)
            /\ Is("CR1", 15, a.init.direction \in {"Line1Rx", "Line1Tx"})
            /\ Is("CR2", 2, "ssoutput" \in a.on) /\ s.CR2 \cap {0, 1} = IF "dma" \in a.on THEN {0, 1} ELSE {}
            /\ SPI_GetCRCPolynomial(s) = a.init.polynomial

(* SPI_I2S_GetITStatus reports exactly the interrupts that are enabled and *)
(* whose flag is up; the errors share one enable bit.                      *)
SpiPending ==
    \A x \in Spis :
        LET Reported(it, enable, flag) ==
                SPI_I2S_GetITStatus(spis[x], SpiIT[it]) = (enable \in asked[x].its /\ flag \in spis[x].SR)
        IN  /\ Reported("TXE", "TXE", TXE) /\ Reported("RXNE", "RXNE", RXNE)
            /\ Reported("OVR", "ERR", OVR) /\ Reported("CRCERR", "ERR", CRCERR)

(* By the fields of the reference manual every setting of a timer is the   *)
(* one asked for last: the functions of one channel, of the time base, the *)
(* triggers and the requests leave alone what shares their registers, and  *)
(* the selection of a channel, which the device takes only while it is     *)
(* off, is taken.                                                          *)
TimSettings ==
    \A x \in DOMAIN tims :
        LET t == tims[x]
            Is(register, position, what) == (position \in t[register]) = (what \in asked.on)
            Byte(c) == IF c < 3 THEN t.CCMR1 ELSE t.CCMR2
            Low(c) == IF c \in {2, 4} THEN 8 ELSE 0
        IN  /\ Is("CR1", 0, "enable") /\ Is("CR1", 7, "preload") /\ Is("CR1", 1, "noupdate")
            /\ Is("CR1", 2, "regular") /\ Is("CR1", 3, "onepulse") /\ Is("CR2", 2, "com")
            /\ Is("CR2", 3, "ccdma") /\ Is("CR2", 0, "ccpreload") /\ Is("CR2", 7, "hall")
            /\ Is("SMCR", 7, "master") /\ Is("SMCR", 14, "external2")
            /\ asked.bdtr.automatic \/ Is("BDTR", 15, "outputs")
            /\ <<Field(t.CR1, 5, 6), 4 \in t.CR1>> =
                 CASE asked.mode = "Up" -> <<0, FALSE>> [] asked.mode = "Down" -> <<0, TRUE>>
                   [] asked.mode = "CenterAligned2" -> <<2, FALSE>> [] asked.mode = "CenterAligned3" -> <<3, FALSE>>
            /\ 2 ^ Field(t.CR1, 8, 9) = asked.division
            /\ t.ARR = asked.period /\ TIM_GetPrescaler(t) = asked.prescaler /\ t.RCR = asked.repetition
            /\ Field(t.CR2, 4, 6) = asked.trgo
            /\ Field(t.SMCR, 0, 2) = asked.slave /\ Field(t.SMCR, 4, 6) = asked.trigger
            /\ <<Field(t.SMCR, 12, 13), 15 \in t.SMCR, Field(t.SMCR, 8, 11)>> = asked.etr
            /\ t.DIER = asked.its \cup asked.dma
            /\ <<Field(t.DCR, 0, 4), Field(t.DCR, 8, 12) + 1>> = asked.burst
            /\ Field(t.BDTR, 0, 9) = asked.bdtr.deadTime /\ (10 \in t.BDTR) = asked.bdtr.ossi
            /\ (11 \in t.BDTR) = asked.bdtr.ossr /\ (12 \in t.BDTR) = asked.bdtr.break
            /\ (13 \in t.BDTR) = asked.bdtr.high /\ (14 \in t.BDTR) = asked.bdtr.automatic
            /\ \A c \in Channel :
                 asked.channel[c] =
                   [selection |-> Field(Byte(c), Low(c), Low(c) + 1),
                    low |-> Field(Byte(c), Low(c) + 2, Low(c) + 3),
                    high |-> Field(Byte(c), Low(c) + 4, Low(c) + 7),
                    on |-> 4 * c - 4 \in t.CCER, inverted |-> 4 * c - 3 \in t.CCER,
                    onN |-> 4 * c - 2 \in t.CCER, invertedN |-> 4 * c - 1 \in t.CCER,
                    idle |-> 2 * c + 6 \in t.CR2, idleN |-> 2 * c + 7 \in t.CR2,
                    compare |-> t.CCR[c]]

(* TIM_GetITStatus reports exactly the interrupts that are enabled and     *)
(* whose flag is up; the DMA requests in the same register do not count.   *)
TimPending ==
    \A x \in DOMAIN tims, it \in 0..7 :
        TIM_GetITStatus(tims[x], {it}) = (it \in asked.its /\ TIM_GetFlagStatus(tims[x], {it}))

-----------------------------------------------------------------------------
(* Every setting of the clocks, the USARTs, the SPIs and the timers is the *)
(* one asked for last, whatever was called since for the settings that     *)
(* share its register.                                                     *)
SettingsAsAsked ==
    /\ device = "TIM" => TimSettings
    /\ device = "RCC" => RccSettings
    /\ device = "USART" => UsartSettings
    /\ device = "SPI" => SpiSettings

(* RCC_GetClocksFreq, from which the baud rate is derived, computes the    *)
(* frequencies of what was asked for.                                      *)
FrequenciesAsAsked == device = "RCC" => Frequencies

(* The divider USART_Init computes gives the rate asked for within what a  *)
(* receiver tolerates, on both oscillators and both buses.                 *)
BaudRateNear == device = "USART" => RatesAreNear

(* Every pin is configured, and its latch set, as the last call that named *)
(* it asked, unless the pin was locked before.                             *)
PinsAsAsked == device = "GPIO" => PinConfigurations /\ PinLatches

(* Every alternate function, interrupt line and event output is routed as  *)
(* asked last, and the debug port is where it was.                         *)
RoutesAsAsked == device = "GPIO" => Remaps /\ LineSources

(* The interrupt status is up for exactly the interrupts that are enabled  *)
(* and whose flag is up.                                                   *)
PendingIsExact ==
    /\ device = "USART" => UsartPending
    /\ device = "SPI" => SpiPending
    /\ device = "TIM" => TimPending
=============================================================================
