----------------------------- MODULE StdPeriph -----------------------------
(***************************************************************************)
(* The drivers of the standard peripheral library that the images use      *)
(* (spl/src: stm32f10x_rcc.c, stm32f10x_gpio.c, stm32f10x_usart.c,         *)
(* stm32f10x_spi.c) for a medium density device, on the bits of the        *)
(* registers.  A register is the set of its bits that are one, so `r &= m' *)
(* is an intersection and `r |= m' a union.                                *)
(***************************************************************************)
EXTENDS Integers, FiniteSets, Sequences

LOCAL INSTANCE SequencesExt

CONSTANTS HSI_VALUE, HSE_VALUE

Bit == 0..31
Register == SUBSET Bit

Ones(half) == {i \in 0..15 : (half \div 2 ^ i) % 2 = 1}

(* The 32-bit constant 0xhhhhllll, written as its two halves.              *)
Hex(high, low) == {i + 16 : i \in Ones(high)} \cup Ones(low)

(* The number in the bits from low to high of a register.                  *)
RECURSIVE FieldFrom(_, _, _)
FieldFrom(r, low, high) ==
    IF low > high THEN 0
    ELSE (IF low \in r THEN 1 ELSE 0) + 2 * FieldFrom(r, low + 1, high)

Field(r, low, high) == FieldFrom(r, low, high)

(* The register with a number in a field, all else zero.                   *)
Shifted(n, low) == {i + low : i \in Ones(n)} \cap Bit

(* Read, clear the bits outside the mask, set the value.                   *)
Modify(r, mask, value) == (r \cap mask) \cup value

-----------------------------------------------------------------------------
(* The clock driver, stm32f10x_rcc.c.                                      *)

AllBits == Bit

ResetRcc ==
    [CR |-> Hex(0, \h0083), CFGR |-> {}, CIR |-> {}, AHBENR |-> Hex(0, \h0014), APB2ENR |-> {},
     APB1ENR |-> {}, APB2RSTR |-> {}, APB1RSTR |-> {}, BDCR |-> {}, CSR |-> Hex(\h0C00, 0)]

HSION == 0
HSIRDY == 1
HSEON == 16
HSERDY == 17
HSEBYP == 18
CSSON == 19
PLLON == 24
PLLRDY == 25

-----------------------------------------------------------------------------
(* Constants of stm32f10x_rcc.h: a register value for each setting.        *)

SYSCLKSource == [HSI |-> Hex(0, 0), HSE |-> Hex(0, 1), PLL |-> Hex(0, 2)]
SYSCLK_Div(n) ==
    LET code == [d \in {1, 2, 4, 8, 16, 64, 128, 256, 512} |->
                   CASE d = 1 -> 0 [] d = 2 -> \h80 [] d = 4 -> \h90 [] d = 8 -> \hA0
                     [] d = 16 -> \hB0 [] d = 64 -> \hC0 [] d = 128 -> \hD0
                     [] d = 256 -> \hE0 [] d = 512 -> \hF0]
    IN  Hex(0, code[n])
HCLK_Div(n) ==
    Hex(0, CASE n = 1 -> 0 [] n = 2 -> \h0400 [] n = 4 -> \h0500 [] n = 8 -> \h0600
             [] n = 16 -> \h0700)
PCLK2_Div(n) == Hex(0, CASE n = 2 -> 0 [] n = 4 -> \h4000 [] n = 6 -> \h8000 [] n = 8 -> \hC000)
PLLSource == [HSI_Div2 |-> {}, HSE_Div1 |-> Hex(1, 0), HSE_Div2 |-> Hex(3, 0)]
PLLMul(n) == Shifted(n - 2, 18)

-----------------------------------------------------------------------------
(* Registers after a call.                                                 *)

(* One statement that writes a register: `reg = (reg & keep) | set'.       *)
Store(register, keep, set) == [register |-> register, keep |-> keep, set |-> set]
Stored(r, w) == [r EXCEPT ![w.register] = Modify(@, w.keep, w.set)]

(* Its statements, in order; writing CIR clears what is pending.           *)
RCC_DeInitWrites ==
    <<Store("CR", AllBits, {HSION}),
      Store("CFGR", Hex(\hF8FF, 0), {}),
      Store("CR", Hex(\hFEF6, \hFFFF), {}),
      Store("CR", Hex(\hFFFB, \hFFFF), {}),
      Store("CFGR", Hex(\hFF80, \hFFFF), {}),
      Store("CIR", {}, {})>>
RCC_DeInit(r) == FoldLeft(Stored, r, RCC_DeInitWrites)

RCC_HSEConfig(r, hse) ==
    [r EXCEPT !.CR = ((@ \cap Hex(\hFFFE, \hFFFF)) \cap Hex(\hFFFB, \hFFFF))
                       \cup CASE hse = "ON" -> {HSEON} [] hse = "Bypass" -> {HSEBYP, HSEON}
                              [] hse = "OFF" -> {}]

(* RCC_WaitForHSEStartUp looks until the flag is up or it gave up.         *)
RCC_GetFlagStatus(r, register, position) == position \in r[register]
RCC_WaitForHSEStartUp(r) == RCC_GetFlagStatus(r, "CR", HSERDY)

RCC_AdjustHSICalibrationValue(r, n) ==
    [r EXCEPT !.CR = Modify(@, Hex(\hFFFF, \hFF07), Shifted(n, 3))]

(* Single bits written through their alias.                                *)
Alias(bits, position, on) == IF on THEN bits \cup {position} ELSE bits \ {position}
RCC_HSICmd(r, on) == [r EXCEPT !.CR = Alias(@, HSION, on)]
RCC_PLLCmd(r, on) == [r EXCEPT !.CR = Alias(@, PLLON, on)]
RCC_ClockSecuritySystemCmd(r, on) == [r EXCEPT !.CR = Alias(@, CSSON, on)]
RCC_USBCLKConfig(r, on) == [r EXCEPT !.CFGR = Alias(@, 22, on)]
RCC_LSICmd(r, on) == [r EXCEPT !.CSR = Alias(@, 0, on)]
RCC_RTCCLKCmd(r, on) == [r EXCEPT !.BDCR = Alias(@, 15, on)]
RCC_BackupResetCmd(r, on) == [r EXCEPT !.BDCR = Alias(@, 16, on)]

RCC_PLLConfig(r, source, mul) ==
    [r EXCEPT !.CFGR = Modify(@, Hex(\hFFC0, \hFFFF), PLLSource[source] \cup PLLMul(mul))]
RCC_SYSCLKConfig(r, source) ==
    [r EXCEPT !.CFGR = Modify(@, Hex(\hFFFF, \hFFFC), SYSCLKSource[source])]
RCC_HCLKConfig(r, n) ==
    [r EXCEPT !.CFGR = Modify(@, Hex(\hFFFF, \hFF0F), SYSCLK_Div(n))]
RCC_PCLK1Config(r, n) ==
    [r EXCEPT !.CFGR = Modify(@, Hex(\hFFFF, \hF8FF), HCLK_Div(n))]

RCC_PCLK2Config(r, n) ==
    [r EXCEPT !.CFGR = Modify(@, Hex(\hFFFF, \hC7FF), {i + 3 : i \in HCLK_Div(n)})]
RCC_ADCCLKConfig(r, n) ==
    [r EXCEPT !.CFGR = Modify(@, Hex(\hFFFF, \h3FFF), PCLK2_Div(n))]
RCC_MCOConfig(r, mco) ==
    [r EXCEPT !.CFGR = Modify(@, Hex(\h00FF, \hFFFF), Shifted(mco, 24))]

(* Bytes 2 and 3 of CIR: enables, and pending bits to clear.               *)
RCC_ITConfig(r, its, on) ==
    LET enables == {i + 8 : i \in its}
    IN  [r EXCEPT !.CIR = IF on THEN @ \cup enables ELSE @ \ enables]
RCC_GetITStatus(r, its) == r.CIR \cap its # {}
RCC_ClearITPendingBit(r, its) == [r EXCEPT !.CIR = @ \ its]

(* LSEON and LSEBYP are cleared by a byte write, then set.                 *)
RCC_LSEConfig(r, lse) ==
    [r EXCEPT !.BDCR = (@ \ (0..7)) \cup CASE lse = "ON" -> {0} [] lse = "Bypass" -> {0, 2}
                                           [] lse = "OFF" -> {}]
RCC_RTCCLKConfig(r, source) == [r EXCEPT !.BDCR = @ \cup Shifted(source, 8)]

RCC_PeriphCmd(r, register, periph, on) ==
    [r EXCEPT ![register] = IF on THEN @ \cup periph ELSE @ \ periph]
RCC_AHBPeriphClockCmd(r, periph, on) == RCC_PeriphCmd(r, "AHBENR", periph, on)
RCC_APB2PeriphClockCmd(r, periph, on) == RCC_PeriphCmd(r, "APB2ENR", periph, on)
RCC_APB1PeriphClockCmd(r, periph, on) == RCC_PeriphCmd(r, "APB1ENR", periph, on)
RCC_APB2PeriphResetCmd(r, periph, on) == RCC_PeriphCmd(r, "APB2RSTR", periph, on)
RCC_APB1PeriphResetCmd(r, periph, on) == RCC_PeriphCmd(r, "APB1RSTR", periph, on)

(* Setting RMVF makes the device drop the reset flags.                     *)
RCC_ClearFlag(r) == [r EXCEPT !.CSR = @ \ (26..31)]

RCC_GetSYSCLKSource(r) == Field(r.CFGR, 2, 3)

-----------------------------------------------------------------------------
(* RCC_GetClocksFreq                                                       *)

APBAHBPrescTable == <<0, 0, 0, 0, 1, 2, 3, 4, 1, 2, 3, 4, 6, 7, 8, 9>>
ADCPrescTable == <<2, 4, 6, 8>>

PllFrequency(r) ==
    LET pllmull == Field(r.CFGR, 18, 21) + 2
    IN  IF 16 \notin r.CFGR THEN (HSI_VALUE \div 2) * pllmull
        ELSE IF 17 \in r.CFGR THEN (HSE_VALUE \div 2) * pllmull
        ELSE HSE_VALUE * pllmull

RCC_GetClocksFreq(r) ==
    LET source == RCC_GetSYSCLKSource(r)
        sysclk == CASE source = 1 -> HSE_VALUE [] source = 2 -> PllFrequency(r)
                    [] OTHER -> HSI_VALUE
        hclk == sysclk \div 2 ^ APBAHBPrescTable[Field(r.CFGR, 4, 7) + 1]
        pclk1 == hclk \div 2 ^ APBAHBPrescTable[Field(r.CFGR, 8, 10) + 1]
        pclk2 == hclk \div 2 ^ APBAHBPrescTable[Field(r.CFGR, 11, 13) + 1]
    IN  [SYSCLK_Frequency |-> sysclk, HCLK_Frequency |-> hclk, PCLK1_Frequency |-> pclk1,
         PCLK2_Frequency |-> pclk2,
         ADCCLK_Frequency |-> pclk2 \div ADCPrescTable[Field(r.CFGR, 14, 15) + 1]]

-----------------------------------------------------------------------------
(* The pin driver, stm32f10x_gpio.c.  A set of pins is a set of bit        *)
(* numbers.                                                                *)

Pin == 0..15
GPIO_Pin_All == Pin

ResetPort ==
    [CRL |-> Hex(\h4444, \h4444), CRH |-> Hex(\h4444, \h4444), ODR |-> {}, LCKR |-> {}]
ResetAfio == [EVCR |-> {}, MAPR |-> {}, EXTICR |-> [i \in 0..3 |-> {}], debug |-> "Full"]

(* GPIOMode_TypeDef and GPIOSpeed_TypeDef.                                 *)
Mode ==
    [AIN |-> \h00, IN_FLOATING |-> \h04, IPD |-> \h28, IPU |-> \h48,
     Out_OD |-> \h14, Out_PP |-> \h10, AF_OD |-> \h1C, AF_PP |-> \h18]
Speed == [MHz10 |-> 1, MHz2 |-> 2, MHz50 |-> 3]

-----------------------------------------------------------------------------
(* The device behind the registers of a port.                              *)

Nibble(position) == {4 * position + i : i \in 0..3}

(* After the key sequence a written configuration leaves locked pins out.  *)
LockedBits(port, first) ==
    IF 16 \in port.LCKR
    THEN UNION {Nibble(p - first) : p \in port.LCKR \cap (first..(first + 7))}
    ELSE {}
WriteConfig(port, register, first, value) ==
    [port EXCEPT ![register] =
        (@ \cap LockedBits(port, first)) \cup (value \ LockedBits(port, first))]

BSRR(port, pins) == [port EXCEPT !.ODR = @ \cup pins]
BRR(port, pins) == [port EXCEPT !.ODR = @ \ pins]

-----------------------------------------------------------------------------
(* Configuration.                                                          *)

GPIO_StructInit == [pins |-> GPIO_Pin_All, speed |-> "MHz2", mode |-> "IN_FLOATING"]

(* The four bits of a pin: CNF and MODE, the speed for an output only.     *)
ModeBits(init) ==
    LET mode == Ones(Mode[init.mode])
    IN  (mode \cap (0..3)) \cup (IF 4 \in mode THEN Ones(Speed[init.speed]) ELSE {})

(* One of the two halves of GPIO_Init: the pull direction through the      *)
(* output latch, pin by pin, then the configuration register once.         *)
InitHalf(port, register, first, init) ==
    LET pins == init.pins \cap (first..(first + 7))
        pulled == CASE init.mode = "IPD" -> BRR(port, pins)
                    [] init.mode = "IPU" -> BSRR(port, pins)
                    [] OTHER -> port
        kept == port[register] \ UNION {Nibble(p - first) : p \in pins}
        set == {4 * (p - first) + i : p \in pins, i \in ModeBits(init)}
    IN  IF pins = {} THEN port ELSE WriteConfig(pulled, register, first, kept \cup set)

GPIO_Init(port, init) ==
    InitHalf(InitHalf(port, "CRL", 0, init), "CRH", 8, init)

(* A reset of the port through RCC_APB2RSTR; of the AFIO as well.          *)
GPIO_DeInit(ports, x) == [ports EXCEPT ![x] = ResetPort]
GPIO_AFIODeInit == ResetAfio

(* Key, no key, key, all with the same pins: the device locks when the     *)
(* three writes agree, and only once.                                      *)
LockWrites(pins) == <<{16} \cup pins, pins, {16} \cup pins>>
GPIO_PinLockConfig(port, pins) ==
    LET w == LockWrites(pins)
        locks == 16 \in w[1] /\ 16 \notin w[2] /\ w[3] = w[1] /\ w[2] = w[1] \ {16}
    IN  IF 16 \in port.LCKR THEN port
        ELSE [port EXCEPT !.LCKR = IF locks THEN w[3] ELSE w[3] \ {16}]

-----------------------------------------------------------------------------
(* Data.                                                                   *)

GPIO_ReadOutputDataBit(port, pin) == pin \in port.ODR
GPIO_ReadOutputData(port) == port.ODR
GPIO_SetBits(port, pins) == BSRR(port, pins)
GPIO_ResetBits(port, pins) == BRR(port, pins)
GPIO_WriteBit(port, pin, on) == IF on THEN BSRR(port, {pin}) ELSE BRR(port, {pin})
GPIO_Write(port, value) == [port EXCEPT !.ODR = value]

-----------------------------------------------------------------------------
(* Alternate functions.                                                    *)

GPIO_EventOutputConfig(afio, source, pin) ==
    [afio EXCEPT !.EVCR = Modify(@, Hex(0, \hFF80), Shifted(source, 4) \cup Ones(pin))]
GPIO_EventOutputCmd(afio, on) ==
    [afio EXCEPT !.EVCR = IF on THEN @ \cup {7} ELSE @ \ {7}]

(* A GPIO_Remap constant: the value in its low half, the position of a     *)
(* two-bit field in bits 16 to 19, two bits or one in bit 20, and the half *)
(* of MAPR in bit 21.                                                      *)
Remap ==
    [SPI1 |-> Hex(0, \h0001), I2C1 |-> Hex(0, \h0002), USART1 |-> Hex(0, \h0004),
     USART2 |-> Hex(0, \h0008), PartialUSART3 |-> Hex(\h14, \h0010),
     FullUSART3 |-> Hex(\h14, \h0030), PartialTIM1 |-> Hex(\h16, \h0040),
     FullTIM1 |-> Hex(\h16, \h00C0), Partial1TIM2 |-> Hex(\h18, \h0100),
     Partial2TIM2 |-> Hex(\h18, \h0200), FullTIM2 |-> Hex(\h18, \h0300),
     PartialTIM3 |-> Hex(\h1A, \h0800), FullTIM3 |-> Hex(\h1A, \h0C00),
     TIM4 |-> Hex(0, \h1000), Remap1CAN1 |-> Hex(\h1D, \h4000),
     Remap2CAN1 |-> Hex(\h1D, \h6000), PD01 |-> Hex(0, \h8000),
     ADC1_ETRGINJ |-> Hex(\h20, \h0002), SWJ_NoJTRST |-> Hex(\h30, \h0100),
     SWJ_JTAGDisable |-> Hex(\h30, \h0200), SWJ_Disable |-> Hex(\h30, \h0400)]

SwjField == 24..26

(* The debug port field is write only; other values leave it as it is.     *)
WriteMapr(afio, value) ==
    LET swj == value \cap SwjField
    IN  [afio EXCEPT !.MAPR = value \ SwjField,
            !.debug = CASE swj = {} -> "Full" [] swj = {24} -> "NoJTRST"
                        [] swj = {25} -> "SwOnly" [] swj = {26} -> "Off" [] OTHER -> @]

(* What a read of the field returns is undefined, so both of its values    *)
(* are written over: by zero for a debug port remap, by ones otherwise.    *)
GPIO_PinRemapConfig(afio, remap, on) ==
    LET value == {i + (IF 21 \in remap THEN 16 ELSE 0) : i \in remap \cap (0..15)}
        position == Field(remap, 16, 19)
        set == IF on THEN value ELSE {}
    IN  IF {20, 21} \subseteq remap
        THEN WriteMapr(WriteMapr(afio, afio.MAPR \ (24..27)), (afio.MAPR \ (24..27)) \cup set)
        ELSE IF 20 \in remap
        THEN WriteMapr(afio, (afio.MAPR \ (position..(position + 1))) \cup (24..27) \cup set)
        ELSE WriteMapr(afio, (afio.MAPR \ value) \cup (24..27) \cup set)

GPIO_EXTILineConfig(afio, source, line) ==
    [afio EXCEPT !.EXTICR[line \div 4] =
        (@ \ Nibble(line % 4)) \cup Shifted(source, 4 * (line % 4))]

-----------------------------------------------------------------------------
(* The USART driver, stm32f10x_usart.c.                                    *)

(* After reset the transmitter is empty: TXE and TC.                       *)
ResetUsart ==
    [SR |-> {6, 7}, DR |-> 0, BRR |-> 0, CR1 |-> {}, CR2 |-> {}, CR3 |-> {}, GTPR |-> {}]

USART_DeInit(usarts, x) == [usarts EXCEPT ![x] = ResetUsart]

WordLength == [bits8 |-> {}, bits9 |-> {12}]
StopBits == [one |-> {}, half |-> {12}, two |-> {13}, oneHalf |-> {12, 13}]
Parity == [No |-> {}, Even |-> {10}, Odd |-> {9, 10}]
UsartMode == [Rx |-> {2}, Tx |-> {3}, RxTx |-> {2, 3}]
FlowControl == [None |-> {}, RTS |-> {8}, CTS |-> {9}, RTS_CTS |-> {8, 9}]

USART_StructInit ==
    [baud |-> 9600, word |-> "bits8", stop |-> "one", parity |-> "No", mode |-> "RxTx",
     flow |-> "None"]

-----------------------------------------------------------------------------
(* USART_Init                                                              *)

CR1_OVER8 == 15
CR1_UE == 13

(* Mutant: the fraction in eighths, where the field counts sixteenths.     *)
FractionInEighths(apbclock, baud, over8) ==
    LET integerdivider == (25 * apbclock) \div ((IF over8 THEN 2 ELSE 4) * baud)
        mantissa == integerdivider \div 100
        fractional == integerdivider - 100 * mantissa
    IN  (16 * mantissa + (((fractional * 8 + 50) \div 100) % 8)) % (2 ^ 16)

(* The bus clock divided by 16 (or 8) times the rate, in hundredths, then  *)
(* its integer and its rounded fractional part in the fields of BRR.  A    *)
(* fraction that rounds up to one is masked off, not carried.              *)
BaudRegister(apbclock, baud, over8) ==
    LET integerdivider == (25 * apbclock) \div ((IF over8 THEN 2 ELSE 4) * baud)
        mantissa == integerdivider \div 100
        fractional == integerdivider - 100 * mantissa
        steps == IF over8 THEN 8 ELSE 16
    IN  (16 * mantissa + (((fractional * steps + 50) \div 100) % steps)) % (2 ^ 16)

USART_Init(u, x, init, clocks) ==
    LET apbclock == IF x = "USART1" THEN clocks.PCLK2_Frequency ELSE clocks.PCLK1_Frequency
    IN  [u EXCEPT
           !.CR2 = Modify(@, Hex(0, \hCFFF), StopBits[init.stop]),
           !.CR1 = Modify(@, Hex(0, \hE9F3), WordLength[init.word] \cup Parity[init.parity]
                                               \cup UsartMode[init.mode]),
           !.CR3 = Modify(@, Hex(0, \hFCFF), FlowControl[init.flow]),
           !.BRR = BaudRegister(apbclock, init.baud, CR1_OVER8 \in u.CR1)]

USART_ClockStructInit == [clock |-> FALSE, cpol |-> FALSE, cpha |-> FALSE, last |-> FALSE]
USART_ClockInit(u, init) ==
    LET If(on, position) == IF on THEN {position} ELSE {}
    IN  [u EXCEPT !.CR2 = Modify(@, Hex(0, \hF0FF), If(init.clock, 11) \cup If(init.cpol, 10)
                                               \cup If(init.cpha, 9) \cup If(init.last, 8))]

-----------------------------------------------------------------------------
(* Commands: one bit on or off.                                            *)

Switch(bits, position, on) == IF on THEN bits \cup {position} ELSE bits \ {position}

USART_Cmd(u, on) == [u EXCEPT !.CR1 = Switch(@, CR1_UE, on)]
USART_ReceiverWakeUpCmd(u, on) == [u EXCEPT !.CR1 = Switch(@, 1, on)]
USART_OverSampling8Cmd(u, on) == [u EXCEPT !.CR1 = Switch(@, CR1_OVER8, on)]
USART_LINCmd(u, on) == [u EXCEPT !.CR2 = Switch(@, 14, on)]
USART_SmartCardCmd(u, on) == [u EXCEPT !.CR3 = Switch(@, 5, on)]
USART_SmartCardNACKCmd(u, on) == [u EXCEPT !.CR3 = Switch(@, 4, on)]
USART_HalfDuplexCmd(u, on) == [u EXCEPT !.CR3 = Switch(@, 3, on)]
USART_OneBitMethodCmd(u, on) == [u EXCEPT !.CR3 = Switch(@, 11, on)]
USART_IrDACmd(u, on) == [u EXCEPT !.CR3 = Switch(@, 1, on)]
USART_DMACmd(u, requests, on) == [u EXCEPT !.CR3 = IF on THEN @ \cup requests ELSE @ \ requests]

(* Fields: cleared, then set.                                              *)
USART_SetAddress(u, address) == [u EXCEPT !.CR2 = Modify(@, Hex(0, \hFFF0), Ones(address))]
USART_WakeUpConfig(u, mark) == [u EXCEPT !.CR1 = Modify(@, Hex(0, \hF7FF), IF mark THEN {11} ELSE {})]
USART_LINBreakDetectLengthConfig(u, long) ==
    [u EXCEPT !.CR2 = Modify(@, Hex(0, \hFFDF), IF long THEN {5} ELSE {})]
USART_IrDAConfig(u, low) == [u EXCEPT !.CR3 = Modify(@, Hex(0, \hFFFB), IF low THEN {2} ELSE {})]

(* The guard time and the prescaler share GTPR.                            *)
USART_SetGuardTime(u, time) == [u EXCEPT !.GTPR = Modify(@, Hex(0, \h00FF), Shifted(time, 8))]
USART_SetPrescaler(u, n) == [u EXCEPT !.GTPR = Modify(@, Hex(0, \hFF00), Ones(n))]
USART_SendBreak(u) == [u EXCEPT !.CR1 = @ \cup {0}]

-----------------------------------------------------------------------------
(* Data, flags and interrupts.                                             *)

(* A write to DR fills the transmitter; a read empties the receiver and    *)
(* drops the error flags that a read of SR has seen before it.             *)
USART_SendData(u, data) == [u EXCEPT !.DR = data % 512, !.SR = @ \ {6, 7}]
USART_ReceiveData(u, seen) == [u EXCEPT !.SR = @ \ ({5} \cup (seen \cap (0..4)))]

USART_GetFlagStatus(u, flag) == flag \in u.SR

(* SR is written with zeros for the named flags and ones elsewhere; the    *)
(* device clears CTS, LBD, TC and RXNE where a zero is written.            *)
WriteUsartStatus(u, value) == [u EXCEPT !.SR = @ \ ({5, 6, 8, 9} \ value)]

USART_ClearFlag(u, flags) == WriteUsartStatus(u, (0..15) \ flags)

(* An interrupt's number: the flag in the high byte, the control register  *)
(* in bits 5 to 7, the enable bit in bits 0 to 4.                          *)
UsartIT ==
    [PE |-> \h0028, TXE |-> \h0727, TC |-> \h0626, RXNE |-> \h0525, IDLE |-> \h0424,
     LBD |-> \h0846, CTS |-> \h096A, ERR |-> \h0060, ORE |-> \h0360, NE |-> \h0260, FE |-> \h0160]
ItRegister(it) ==
    LET usartreg == (it % 256) \div 32
    IN  IF usartreg = 1 THEN "CR1" ELSE IF usartreg = 2 THEN "CR2" ELSE "CR3"
ItPosition(it) == it % 32
ItFlag(it) == it \div 256

USART_ITConfig(u, it, on) == [u EXCEPT ![ItRegister(it)] = Switch(@, ItPosition(it), on)]

USART_GetITStatus(u, it) == ItPosition(it) \in u[ItRegister(it)] /\ ItFlag(it) \in u.SR
USART_ClearITPendingBit(u, it) == WriteUsartStatus(u, (0..15) \ {ItFlag(it)})

-----------------------------------------------------------------------------
(* The SPI driver, stm32f10x_spi.c, without the I2S functions.             *)

ResetSpi == [CR1 |-> {}, CR2 |-> {}, SR |-> {1}, CRCPR |-> 7, I2SCFGR |-> {}]

SPI_I2S_DeInit(spis, x) == [spis EXCEPT ![x] = ResetSpi]

Direction ==
    [FullDuplex |-> {}, RxOnly |-> {10}, Line1Rx |-> {15}, Line1Tx |-> {14, 15}]
SpiMode == [Master |-> Hex(0, \h0104), Slave |-> {}]
NSS == [Soft |-> {9}, Hard |-> {}]
BaudRatePrescaler(n) ==
    Shifted(CASE n = 2 -> 0 [] n = 4 -> 1 [] n = 8 -> 2 [] n = 16 -> 3 [] n = 32 -> 4
              [] n = 64 -> 5 [] n = 128 -> 6 [] n = 256 -> 7, 3)

SPI_StructInit ==
    [direction |-> "FullDuplex", mode |-> "Slave", wide |-> FALSE, cpol |-> FALSE,
     cpha |-> FALSE, nss |-> "Hard", prescaler |-> 2, lsb |-> FALSE, polynomial |-> 7]

InitBits(init) ==
    LET If(on, position) == IF on THEN {position} ELSE {}
    IN  Direction[init.direction] \cup SpiMode[init.mode] \cup If(init.wide, 11)
          \cup If(init.cpol, 1) \cup If(init.cpha, 0) \cup NSS[init.nss]
          \cup BaudRatePrescaler(init.prescaler) \cup If(init.lsb, 7)

(* Enable, CRC enable and CRC next are kept, all else is replaced.         *)
SPI_Init(s, init) ==
    [s EXCEPT !.CR1 = Modify(@, Hex(0, \h3040), InitBits(init)),
        !.I2SCFGR = @ \cap Hex(0, \hF7FF), !.CRCPR = init.polynomial]

-----------------------------------------------------------------------------
(* Commands.                                                               *)

SPI_Cmd(s, on) == [s EXCEPT !.CR1 = Switch(@, 6, on)]
SPI_CalculateCRC(s, on) == [s EXCEPT !.CR1 = Switch(@, 13, on)]
SPI_NSSInternalSoftwareConfig(s, on) == [s EXCEPT !.CR1 = Switch(@, 8, on)]
SPI_BiDirectionalLineConfig(s, tx) == [s EXCEPT !.CR1 = Switch(@, 14, tx)]
SPI_SSOutputCmd(s, on) == [s EXCEPT !.CR2 = Switch(@, 2, on)]
SPI_I2S_DMACmd(s, requests, on) == [s EXCEPT !.CR2 = IF on THEN @ \cup requests ELSE @ \ requests]
SPI_DataSizeConfig(s, wide) == [s EXCEPT !.CR1 = (@ \ {11}) \cup (IF wide THEN {11} ELSE {})]
SPI_TransmitCRC(s) == [s EXCEPT !.CR1 = @ \cup {12}]
SPI_GetCRCPolynomial(s) == s.CRCPR

-----------------------------------------------------------------------------
(* Data, flags and interrupts.                                             *)

RXNE == 0
TXE == 1
CRCERR == 4
OVR == 6
BSY == 7

(* Writing DR starts a frame; reading DR empties the receiver.             *)
SPI_I2S_SendData(s) == [s EXCEPT !.SR = (@ \ {TXE}) \cup {BSY}]
SPI_I2S_ReceiveData(s) == [s EXCEPT !.SR = @ \ {RXNE}]
SPI_I2S_GetFlagStatus(s, flag) == flag \in s.SR

(* The CRC error alone is cleared by writing a zero.                       *)
WriteSpiStatus(s, value) == [s EXCEPT !.SR = @ \ ({CRCERR} \ value)]
SPI_I2S_ClearFlag(s, flag) == WriteSpiStatus(s, (0..15) \ {flag})

(* An interrupt's number: the enable bit in the high, the flag in the low  *)
(* four bits.                                                              *)
SpiIT == [TXE |-> \h71, RXNE |-> \h60, ERR |-> \h50, OVR |-> \h56, MODF |-> \h55, CRCERR |-> \h54]

SPI_I2S_ITConfig(s, it, on) == [s EXCEPT !.CR2 = Switch(@, it \div 16, on)]
SPI_I2S_GetITStatus(s, it) == (it % 16) \in s.SR /\ (it \div 16) \in s.CR2
SPI_I2S_ClearITPendingBit(s, it) == WriteSpiStatus(s, (0..15) \ {it % 16})

=============================================================================
