---------------------------- MODULE DeviceProofs ----------------------------
(***************************************************************************)
(* The two devices that are state machines of their own.  The interrupt    *)
(* controller, for every number of pins: type correctness, that a request  *)
(* which can be served is signalled, and that the registers implement      *)
(* InterruptController.  The clock of the game, for every choice of its    *)
(* constants: what the score makes of its moduli, that counting modulo     *)
(* Period loses nothing, and the command slots.                            *)
(***************************************************************************)
EXTENDS PICService, SimptrisPace, SequenceTheorems, FiniteSetTheorems,
        WellFoundedInduction, TLAPS

(* A non-empty set of naturals has a least element. *)
LEMMA LeastElement ==
  ASSUME NEW S, S \subseteq Nat, S # {}
  PROVE  \E m \in S : \A n \in S : m <= n
<1>1. PICK m \in S : \A n \in S : ~ (<<n, m>> \in OpToRel(<, Nat))
  BY WFMin, NatLessThanWellFounded
<1>2. ASSUME NEW n \in S, n < m
      PROVE  FALSE
  <2>1. <<n, m>> \in {ss \in Nat \X Nat : ss[1] < ss[2]}
    BY <1>2
  <2>2. QED
    BY <2>1, <1>1 DEF OpToRel
<1>3. QED
  BY <1>2

(* GetPriority returns a member of a register that has one, and the least. *)
LEMMA GetPriorityIsLeast ==
  ASSUME NEW reg, reg \subseteq Nat, reg # {}
  PROVE  /\ GetPriority(reg) \in reg
         /\ \A irq \in reg : GetPriority(reg) <= irq
  BY LeastElement DEF GetPriority

LEMMA GetPriorityOfNone == GetPriority({}) = NumPins
  BY DEF GetPriority

(* The range of GetPriority. *)
LEMMA GetPriorityType ==
  ASSUME NEW reg, reg \subseteq Lines
  PROVE  GetPriority(reg) \in Lines
<1>1. CASE reg = {}
  BY <1>1, GetPriorityOfNone, NumPinsAssumption DEF Lines
<1>2. CASE reg # {}
  <2>1. reg \subseteq Nat
    BY NumPinsAssumption DEF Lines
  <2>2. QED
    BY <1>2, <2>1, GetPriorityIsLeast
<1>3. QED
  BY <1>1, <1>2

(* The request PriorityDecode chooses: a pin, the first of the unmasked    *)
(* requests, of higher priority than everything in service.                *)
LEMMA PriorityDecodeChoice ==
  ASSUME NEW irr, NEW isr, NEW imr, irr \subseteq Lines, isr \subseteq Pins,
         PriorityDecode(irr, isr, imr) # NumPins
  PROVE  LET irq == PriorityDecode(irr, isr, imr)
         IN  /\ irq \in Pins /\ irq \in irr \ imr
             /\ \A other \in irr \ imr : irq <= other
             /\ \A s \in isr : irq < s
<1> DEFINE irq == PriorityDecode(irr, isr, imr)
           asked == irr \ imr
<1>1. asked \subseteq Lines
  OBVIOUS
<1>2. Lines \subseteq Nat /\ Pins \subseteq Lines
  BY NumPinsAssumption DEF Lines, Pins
<1>3. irq = GetPriority(asked) /\ irq < GetPriority(isr)
  BY DEF PriorityDecode
<1>4. isr \subseteq Lines /\ isr \subseteq Nat /\ asked \subseteq Nat
  BY <1>1, <1>2
<1>5. irq \in Lines /\ GetPriority(isr) \in Lines
  BY <1>1, <1>3, <1>4, GetPriorityType
<1>6. irq \in Pins
  BY <1>3, <1>5, NumPinsAssumption DEF Lines, Pins
<1>7. asked # {}
  <2>1. irq # NumPins
    OBVIOUS
  <2>2. QED
    BY <1>3, <2>1, GetPriorityOfNone
<1>8. irq \in asked /\ \A other \in asked : irq <= other
  BY <1>3, <1>4, <1>7, GetPriorityIsLeast
<1>9. \A s \in isr : GetPriority(isr) <= s
  BY <1>4, GetPriorityIsLeast
<1>10. \A s \in isr : irq < s
  <2>1. irq \in Int /\ GetPriority(isr) \in Int /\ isr \subseteq Int
    BY <1>5, NumPinsAssumption DEF Lines, Pins
  <2>2. QED
    BY <1>3, <1>9, <2>1
<1>11. QED
  BY <1>6, <1>8, <1>10

(* The converse: a request of a pin above everything in service is enough  *)
(* for PriorityDecode to choose one.                                       *)
LEMMA ReadyIf ==
  ASSUME NEW irr, NEW isr, NEW imr, irr \subseteq Lines, isr \subseteq Pins,
         NEW irq \in irr \ imr, irq \in Pins, \A s \in isr : irq < s
  PROVE  Ready(irr, isr, imr)
<1> DEFINE asked == irr \ imr
           top == GetPriority(asked)
<1>1. asked \subseteq Lines
  OBVIOUS
<1>2. Lines \subseteq Nat /\ Pins \subseteq Lines
  BY NumPinsAssumption DEF Lines, Pins
<1>3. asked # {} /\ asked \subseteq Nat /\ isr \subseteq Nat
  BY <1>1, <1>2
<1>4. top \in Lines /\ top <= irq
  BY <1>1, <1>3, GetPriorityIsLeast
<1>5. irq < GetPriority(isr)
  <2>1. CASE isr = {}
    BY <2>1, GetPriorityOfNone, NumPinsAssumption DEF Pins
  <2>2. CASE isr # {}
    BY <2>2, <1>3, GetPriorityIsLeast
  <2>3. QED
    BY <2>1, <2>2
<1>6. GetPriority(isr) \in Lines
  BY <1>2, GetPriorityType
<1>7. top < GetPriority(isr) /\ top < NumPins
  BY <1>2, <1>4, <1>5, <1>6, NumPinsAssumption DEF Lines, Pins
<1>8. PriorityDecode(irr, isr, imr) = top
  BY <1>7 DEF PriorityDecode
<1>9. QED
  BY <1>4, <1>7, <1>8, NumPinsAssumption DEF Ready, Lines
-----------------------------------------------------------------------------
(* Type correctness of the registers, whatever the caller does. *)
LEMMA TypeInductive == TypeOK /\ [Next]_vars => TypeOK'
<1> SUFFICES ASSUME TypeOK, [Next]_vars
             PROVE  TypeOK'
  OBVIOUS
<1> USE DEF TypeOK
<1>1. Pins \subseteq Lines
  BY NumPinsAssumption DEF Pins, Lines
<1>2. Ready(IRR', ISR', IMR') \in BOOLEAN
  BY DEF Ready
<1>3. CASE ResetPIC /\ asynch' \in {asynch, FALSE}
  BY <1>3 DEF ResetPIC
<1>4. ASSUME NEW irq \in Lines, FlagInterrupt(irq)
      PROVE  TypeOK'
  BY <1>2, <1>4, Zenon DEF FlagInterrupt, RaiseINTR
<1>5. CASE InterruptAcknowledge /\ asynch' \in {asynch, FALSE}
  <2>1. PriorityDecode(IRR, ISR, IMR) # NumPins
        => PriorityDecode(IRR, ISR, IMR) \in Pins
    BY PriorityDecodeChoice
  <2>2. QED
    BY <1>5, <2>1 DEF InterruptAcknowledge
<1>6. CASE NonspecificEOI
  BY <1>2, <1>6, Zenon DEF NonspecificEOI, RaiseINTR
<1>7. ASSUME NEW mask \in SUBSET Lines, WriteIMR(mask)
      PROVE  TypeOK'
  BY <1>2, <1>7, Zenon DEF WriteIMR, RaiseINTR
<1>8. ASSUME NEW command \in Commands, PICWriteByte(command)
      PROVE  TypeOK'
  <2>1. CASE command = "EOI" /\ NonspecificEOI
    BY <1>6, <2>1
  <2>2. CASE command \in {"IRR_READ_CMD", "ISR_READ_CMD"}
             /\ PICstate' = command
             /\ UNCHANGED <<IRR, ISR, IMR, INTR, asynch>>
    BY <2>2 DEF States
  <2>3. CASE UNCHANGED vars
    BY <2>3 DEF vars
  <2>4. QED
    BY <1>8, <2>1, <2>2, <2>3 DEF PICWriteByte
<1>9. CASE PICReadByte
  BY <1>9 DEF PICReadByte, States
<1>10. CASE ClearIntr
  BY <1>10 DEF ClearIntr
<1>11. CASE UNCHANGED vars
  BY <1>11 DEF vars
<1>12. QED
  BY <1>3, <1>4, <1>5, <1>6, <1>7, <1>8, <1>9, <1>10, <1>11 DEF Next

(* The registers keep their types under every sequence of operations. *)
THEOREM TypeCorrect == Spec => []TypeOK
<1>1. Init => TypeOK
  BY DEF Init, TypeOK, States
<1>2. QED
  BY <1>1, TypeInductive, PTL DEF Spec
-----------------------------------------------------------------------------
(* After an acknowledgement nothing else can be served: every other        *)
(* request is of lower priority than the one just moved into service.      *)
LEMMA AcknowledgeLeavesNothingReady ==
  ASSUME TypeOK, InterruptAcknowledge
  PROVE  ~ Ready(IRR', ISR', IMR')
<1> DEFINE irq == PriorityDecode(IRR, ISR, IMR)
<1>1. Pins \subseteq Lines /\ Lines \subseteq Nat
  BY NumPinsAssumption DEF Pins, Lines
<1>2. CASE irq = NumPins
  BY <1>2 DEF InterruptAcknowledge, Ready
<1>3. CASE irq # NumPins
  <2>1. irq \in Pins /\ \A other \in IRR \ IMR : irq <= other
    BY <1>3, PriorityDecodeChoice DEF TypeOK
  <2>2. IRR' = IRR \ {irq} /\ ISR' = ISR \cup {irq} /\ IMR' = IMR
    BY <1>3 DEF InterruptAcknowledge
  <2>3. IRR' \subseteq Lines /\ ISR' \subseteq Pins
    BY <2>1, <2>2 DEF TypeOK
  <2>4. SUFFICES ASSUME PriorityDecode(IRR', ISR', IMR') # NumPins
                 PROVE  FALSE
    BY DEF Ready
  <2>5. PICK next \in Pins : /\ next \in IRR' \ IMR'
                             /\ \A s \in ISR' : next < s
    BY <2>3, <2>4, PriorityDecodeChoice
  <2>6. next < irq /\ irq <= next
    BY <2>1, <2>2, <2>5
  <2>7. next \in Int /\ irq \in Int
    BY <2>1, NumPinsAssumption DEF Pins
  <2>8. QED
    BY <2>6, <2>7
<1>4. QED
  BY <1>2, <1>3

(* With no requests nothing can be served. *)
LEMMA NothingReady ==
  ASSUME NEW isr, NEW imr, isr \subseteq Pins
  PROVE  ~ Ready({}, isr, imr)
<1>1. SUFFICES ASSUME PriorityDecode({}, isr, imr) # NumPins
               PROVE  FALSE
  BY DEF Ready
<1>2. QED
  BY <1>1, PriorityDecodeChoice

(* A request that can be served is signalled, whatever the caller does.    *)
THEOREM ReadyAlwaysSignalled == Spec => []ReadyIsSignalled
<1>1. Init => ReadyIsSignalled
  BY NothingReady DEF Init, ReadyIsSignalled
<1>2. TypeOK /\ ReadyIsSignalled /\ [Next]_vars => ReadyIsSignalled'
  <2> SUFFICES ASSUME TypeOK, ReadyIsSignalled, [Next]_vars
               PROVE  ReadyIsSignalled'
    OBVIOUS
  <2> USE DEF ReadyIsSignalled
  <2>1. CASE ResetPIC
    BY <2>1, NothingReady DEF ResetPIC
  <2>2. ASSUME RaiseINTR
        PROVE  ReadyIsSignalled'
    BY <2>2 DEF RaiseINTR
  <2>3. ASSUME UNCHANGED <<IRR, ISR, IMR, INTR>>
        PROVE  ReadyIsSignalled'
    BY <2>3 DEF Ready
  <2>4. CASE InterruptAcknowledge
    BY <2>4, AcknowledgeLeavesNothingReady
  <2>5. ASSUME NEW irq \in Lines, FlagInterrupt(irq)
        PROVE  ReadyIsSignalled'
    BY <2>2, <2>5 DEF FlagInterrupt
  <2>6. ASSUME NEW mask \in SUBSET Lines, WriteIMR(mask)
        PROVE  ReadyIsSignalled'
    BY <2>2, <2>6 DEF WriteIMR
  <2>7. ASSUME NEW command \in Commands, PICWriteByte(command)
        PROVE  ReadyIsSignalled'
    BY <2>2, <2>3, <2>7 DEF PICWriteByte, NonspecificEOI, vars
  <2>8. CASE PICReadByte \/ ClearIntr \/ UNCHANGED vars
    BY <2>3, <2>8 DEF PICReadByte, ClearIntr, vars
  <2>9. QED
    BY <2>1, <2>4, <2>5, <2>6, <2>7, <2>8 DEF Next
<1>3. QED
  BY <1>1, <1>2, TypeCorrect, PTL DEF Spec
-----------------------------------------------------------------------------
(* The specification with the history variable implements the one without. *)
LEMMA HistoryStep == [SNext]_svars => [Next]_vars
<1>1. SNext => Next
  BY DEF SNext, Next, SReset, SAcknowledge, SEndOfInterrupt, SOther, Commands
<1>2. QED
  BY <1>1 DEF svars

LEMMA HistoryType == SSpec => []TypeOK
<1>1. SSpec => Spec
  BY HistoryStep, PTL DEF SSpec, Spec, SInit
<1>2. QED
  BY <1>1, TypeCorrect, PTL

(* The top of the stack is the bit that an EOI clears, and stands nowhere  *)
(* else in it.                                                             *)
LEMMA TopIsPriority ==
  ASSUME TypeOK, ServiceOK, ISR # {}
  PROVE  /\ service # <<>>
         /\ \A k \in DOMAIN service : service[k] = GetPriority(ISR) <=> k = 1
<1>1. service \in Seq(Pins) /\ ISR = {service[k] : k \in DOMAIN service}
  BY DEF ServiceOK
<1>2. DOMAIN service = 1 .. Len(service) /\ Len(service) \in Nat
  BY <1>1
<1>3. 1 \in DOMAIN service
  BY <1>1, <1>2
<1>4. \A j, k \in DOMAIN service : j < k => service[j] < service[k]
  BY DEF ServiceOK
<1>5. \A k \in DOMAIN service : service[k] \in Pins
  BY <1>1
<1>6. Pins \subseteq Int /\ Pins \subseteq Nat
  BY NumPinsAssumption DEF Pins
<1>7. \A k \in DOMAIN service : k # 1 => service[1] < service[k]
  BY <1>2, <1>3, <1>4
<1>8. GetPriority(ISR) \in ISR /\ \A irq \in ISR : GetPriority(ISR) <= irq
  BY <1>6, GetPriorityIsLeast DEF TypeOK
<1>9. PICK k \in DOMAIN service : service[k] = GetPriority(ISR)
  BY <1>1, <1>8
<1>10. k = 1
  <2>1. service[1] \in ISR
    BY <1>1, <1>3
  <2>2. GetPriority(ISR) <= service[1]
    BY <1>8, <2>1
  <2>3. service[1] \in Int /\ service[k] \in Int
    BY <1>3, <1>5, <1>6
  <2>4. QED
    BY <1>7, <1>9, <2>2, <2>3
<1>11. ASSUME NEW j \in DOMAIN service, service[j] = GetPriority(ISR)
       PROVE  j = 1
  <2>1. service[1] \in Int /\ service[j] \in Int
    BY <1>3, <1>5, <1>6
  <2>2. QED
    BY <1>7, <1>9, <1>10, <1>11, <2>1
<1>12. QED
  BY <1>3, <1>9, <1>10, <1>11

(* So an EOI pops the stack. *)
LEMMA EndOfInterruptPops ==
  ASSUME TypeOK, ServiceOK, SEndOfInterrupt, ISR # {}
  PROVE  /\ service # <<>> /\ service' = Tail(service)
         /\ ISR' = ISR \ {service[1]} /\ IRR' = IRR /\ IMR' = IMR
<1>1. service \in Seq(Pins) /\ service # <<>>
  BY TopIsPriority DEF ServiceOK
<1>2. 1 \in DOMAIN service /\ service[1] = GetPriority(ISR)
  BY <1>1, TopIsPriority
<1>3. (CHOOSE j \in DOMAIN service : service[j] = GetPriority(ISR)) = 1
  BY <1>2, TopIsPriority
<1>4. service' = DropAt(service, 1)
  BY <1>3 DEF SEndOfInterrupt
<1>5. DropAt(service, 1) = [j \in 1 .. Len(service) - 1 |-> service[j + 1]]
  BY DEF DropAt
<1>6. service' = Tail(service)
  <2> DEFINE rest == [j \in 1 .. Len(service) - 1 |-> service[j + 1]]
  <2>1. /\ Tail(service) \in Seq(Pins) /\ Len(Tail(service)) = Len(service) - 1
        /\ \A j \in 1 .. Len(Tail(service)) : Tail(service)[j] = service[j + 1]
    BY <1>1, HeadTailProperties
  <2>2. Len(service) - 1 \in Nat
    BY <2>1, <1>1
  <2>3. \A j \in 1 .. Len(service) - 1 : service[j + 1] \in Pins
    BY <1>1
  <2>4. rest \in Seq(Pins) /\ Len(rest) = Len(service) - 1
    BY <2>2, <2>3
  <2>5. \A j \in 1 .. Len(rest) : rest[j] = Tail(service)[j]
    BY <2>1, <2>4
  <2> HIDE DEF rest
  <2>6. rest = Tail(service)
    BY <2>1, <2>4, <2>5, SeqEqual
  <2>7. QED
    BY <1>4, <1>5, <2>6 DEF rest
<1>7. NonspecificEOI
  BY DEF SEndOfInterrupt, PICWriteByte
<1>8. QED
  BY <1>1, <1>2, <1>6, <1>7 DEF NonspecificEOI

(* An acknowledgement that delivers a request pushes it, and it is above   *)
(* everything in service.                                                  *)
LEMMA AcknowledgePushes ==
  ASSUME TypeOK, ServiceOK, SAcknowledge,
         PriorityDecode(IRR, ISR, IMR) # NumPins
  PROVE  LET irq == PriorityDecode(IRR, ISR, IMR)
         IN  /\ irq \in Pins /\ irq \in IRR \ IMR
             /\ \A other \in IRR \ IMR : irq <= other
             /\ \A k \in DOMAIN service : irq < service[k]
             /\ service' = <<irq>> \o service
             /\ IRR' = IRR \ {irq} /\ ISR' = ISR \cup {irq} /\ IMR' = IMR
<1> DEFINE irq == PriorityDecode(IRR, ISR, IMR)
<1>1. IRR \subseteq Lines /\ ISR \subseteq Pins
  BY DEF TypeOK
<1>2. /\ irq \in Pins /\ irq \in IRR \ IMR
      /\ \A other \in IRR \ IMR : irq <= other
      /\ \A s \in ISR : irq < s
  BY <1>1, PriorityDecodeChoice
<1>3. \A k \in DOMAIN service : irq < service[k]
  BY <1>2 DEF ServiceOK
<1>4. service' = <<irq>> \o service
  BY DEF SAcknowledge
<1>5. IRR' = IRR \ {irq} /\ ISR' = ISR \cup {irq} /\ IMR' = IMR
  BY DEF SAcknowledge, InterruptAcknowledge
<1>6. QED
  BY <1>2, <1>3, <1>4, <1>5

LEMMA ServiceInductive == TypeOK /\ ServiceOK /\ [SNext]_svars => ServiceOK'
<1> SUFFICES ASSUME TypeOK, ServiceOK, [SNext]_svars
             PROVE  ServiceOK'
  OBVIOUS
<1>1. /\ service \in Seq(Pins)
      /\ \A j, k \in DOMAIN service : j < k => service[j] < service[k]
      /\ ISR = {service[k] : k \in DOMAIN service}
  BY DEF ServiceOK
<1>2. ASSUME UNCHANGED <<ISR, service>>
      PROVE  ServiceOK'
  BY <1>2 DEF ServiceOK
<1>3. CASE SReset
  <2>1. ISR' = {} /\ service' = <<>>
    BY <1>3 DEF SReset, ResetPIC
  <2>2. <<>> \in Seq(Pins) /\ DOMAIN <<>> = {}
    OBVIOUS
  <2>3. QED
    BY <2>1, <2>2 DEF ServiceOK
<1>4. CASE SAcknowledge
  <2> DEFINE irq == PriorityDecode(IRR, ISR, IMR)
  <2>1. CASE irq = NumPins
    BY <1>2, <1>4, <2>1 DEF SAcknowledge, InterruptAcknowledge
  <2>2. CASE irq # NumPins
    <3>1. /\ irq \in Pins /\ \A k \in DOMAIN service : irq < service[k]
          /\ service' = <<irq>> \o service /\ ISR' = ISR \cup {irq}
      BY <1>4, <2>2, AcknowledgePushes
    <3> HIDE DEF irq
    <3>2. <<irq>> \in Seq(Pins) /\ Len(<<irq>>) = 1
      BY <3>1
    <3>3. /\ service' \in Seq(Pins)
          /\ Len(service') = 1 + Len(service)
          /\ \A i \in 1 .. 1 + Len(service) :
               service'[i] = IF i <= 1 THEN <<irq>>[i] ELSE service[i - 1]
      BY <1>1, <3>1, <3>2, ConcatProperties
    <3>4. /\ DOMAIN service = 1 .. Len(service) /\ Len(service) \in Nat
          /\ DOMAIN service' = 1 .. Len(service) + 1
      BY <1>1, <3>3
    <3>5. service'[1] = irq
      BY <3>3, <3>4
    <3>6. \A i \in DOMAIN service' :
            i # 1 => i - 1 \in DOMAIN service /\ service'[i] = service[i - 1]
      BY <3>3, <3>4
    <3>7. \A j, k \in DOMAIN service' : j < k => service'[j] < service'[k]
      <4> SUFFICES ASSUME NEW j \in DOMAIN service', NEW k \in DOMAIN service',
                          j < k
                   PROVE  service'[j] < service'[k]
        OBVIOUS
      <4>1. k # 1 /\ j \in Int /\ k \in Int
        BY <3>4
      <4>2. CASE j = 1
        BY <3>1, <3>5, <3>6, <4>1, <4>2
      <4>3. CASE j # 1
        BY <1>1, <3>6, <4>1, <4>3
      <4>4. QED
        BY <4>2, <4>3
    <3>8. ISR' = {service'[k] : k \in DOMAIN service'}
      <4>1. \A k \in DOMAIN service : k + 1 \in DOMAIN service'
                                     /\ service'[k + 1] = service[k]
        BY <3>3, <3>4
      <4>2. 1 \in DOMAIN service'
        BY <3>4
      <4>3. ASSUME NEW s \in ISR'
            PROVE  \E k \in DOMAIN service' : service'[k] = s
        <5>1. CASE s = irq
          BY <3>5, <4>2, <5>1
        <5>2. CASE s # irq
          <6>1. PICK k \in DOMAIN service : s = service[k]
            BY <1>1, <3>1, <4>3, <5>2
          <6>2. QED
            BY <4>1, <6>1
        <5>3. QED
          BY <5>1, <5>2
      <4>4. ASSUME NEW k \in DOMAIN service'
            PROVE  service'[k] \in ISR'
        <5>1. CASE k = 1
          BY <3>1, <3>5, <5>1
        <5>2. CASE k # 1
          BY <1>1, <3>1, <3>6, <5>2
        <5>3. QED
          BY <5>1, <5>2
      <4>5. QED
        BY <4>3, <4>4
    <3>9. QED
      BY <3>3, <3>7, <3>8 DEF ServiceOK
  <2>3. QED
    BY <2>1, <2>2
<1>5. CASE SEndOfInterrupt
  <2>1. CASE ISR = {}
    <3>1. ISR' = ISR /\ service' = service
      BY <1>5, <2>1 DEF SEndOfInterrupt, PICWriteByte, NonspecificEOI, vars
    <3>2. QED
      BY <1>2, <3>1
  <2>2. CASE ISR # {}
    <3>1. service # <<>> /\ service' = Tail(service)
          /\ ISR' = ISR \ {service[1]}
      BY <1>5, <2>2, EndOfInterruptPops
    <3>2. /\ service' \in Seq(Pins) /\ Len(service') = Len(service) - 1
          /\ \A i \in 1 .. Len(service') : service'[i] = service[i + 1]
      BY <1>1, <3>1, HeadTailProperties
    <3>3. /\ DOMAIN service = 1 .. Len(service) /\ Len(service) \in Nat
          /\ DOMAIN service' = 1 .. Len(service) - 1
      BY <1>1, <3>2
    <3>4. \A i \in DOMAIN service' :
            i + 1 \in DOMAIN service /\ service'[i] = service[i + 1]
      BY <3>2, <3>3
    <3>5. \A j, k \in DOMAIN service' : j < k => service'[j] < service'[k]
      <4> SUFFICES ASSUME NEW j \in DOMAIN service', NEW k \in DOMAIN service',
                          j < k
                   PROVE  service'[j] < service'[k]
        OBVIOUS
      <4>1. j + 1 < k + 1
        BY <3>3
      <4>2. QED
        BY <1>1, <3>4, <4>1
    <3>6. ISR' = {service'[k] : k \in DOMAIN service'}
      <4>1. \A k \in DOMAIN service : service[k] \in Pins /\ service[k] \in Int
        BY <1>1, NumPinsAssumption DEF Pins
      <4>2. \A k \in DOMAIN service : service[k] # service[1] <=> k # 1
        BY <1>1, <3>1, <3>3, <4>1
      <4>3. \A k \in DOMAIN service : k # 1 =>
              k - 1 \in DOMAIN service' /\ service'[k - 1] = service[k]
        BY <3>2, <3>3
      <4>4. \A i \in DOMAIN service' : i + 1 # 1
        BY <3>3
      <4>5. ASSUME NEW s \in ISR'
            PROVE  \E k \in DOMAIN service' : service'[k] = s
        <5>1. PICK k \in DOMAIN service : s = service[k]
          BY <1>1, <3>1
        <5>2. k # 1
          BY <3>1, <5>1
        <5>3. QED
          BY <4>3, <5>1, <5>2
      <4>6. ASSUME NEW i \in DOMAIN service'
            PROVE  service'[i] \in ISR'
        <5>1. i + 1 \in DOMAIN service /\ service'[i] = service[i + 1]
          BY <3>4
        <5>2. service[i + 1] # service[1] /\ service[i + 1] \in ISR
          BY <1>1, <4>2, <4>4, <5>1
        <5>3. QED
          BY <3>1, <5>1, <5>2
      <4>7. QED
        BY <4>5, <4>6
    <3>7. QED
      BY <3>2, <3>5, <3>6 DEF ServiceOK
  <2>3. QED
    BY <2>1, <2>2
<1>6. CASE SOther
  BY <1>2, <1>6
     DEF SOther, FlagInterrupt, WriteIMR, PICWriteByte, PICReadByte, ClearIntr,
         Commands, vars
<1>7. CASE UNCHANGED svars
  BY <1>2, <1>7 DEF svars, vars
<1>8. QED
  BY <1>3, <1>4, <1>5, <1>6, <1>7 DEF SNext

(* Service is strictly nested: the stack of handlers entered and not ended *)
(* holds exactly the bits of ISR, in order of priority.                    *)
THEOREM ServiceNested == SSpec => []ServiceOK
<1>1. SInit => ServiceOK
  BY DEF SInit, Init, ServiceOK
<1>2. QED
  BY <1>1, ServiceInductive, HistoryType, PTL DEF SSpec
-----------------------------------------------------------------------------
(* Every step of the registers is a step of the abstract controller or     *)
(* leaves its state alone.                                                 *)
LEMMA RefinementStep ==
  TypeOK /\ ServiceOK /\ [SNext]_svars => [Controller!Next]_(Controller!vars)
<1> SUFFICES ASSUME TypeOK, ServiceOK, [SNext]_svars
             PROVE  Controller!Next \/ UNCHANGED Controller!vars
  OBVIOUS
<1>1. Pins \subseteq Lines /\ \A irq \in Lines : irq \in Pins \/ irq = NumPins
  BY NumPinsAssumption DEF Pins, Lines
<1>2. NumPins \notin Pins /\ Controller!Pins = Pins
  BY NumPinsAssumption DEF Pins, Controller!Pins
<1>3. ASSUME UNCHANGED <<IRR, IMR, service>>
      PROVE  UNCHANGED Controller!vars
  BY <1>3 DEF Controller!vars
<1>4. CASE SReset
  <2>1. Controller!Reset
    BY <1>4 DEF SReset, ResetPIC, Controller!Reset
  <2>2. QED
    BY <2>1 DEF Controller!Next
<1>5. CASE SAcknowledge
  <2> DEFINE irq == PriorityDecode(IRR, ISR, IMR)
  <2>1. CASE irq = NumPins
    BY <1>3, <1>5, <2>1 DEF SAcknowledge, InterruptAcknowledge
  <2>2. CASE irq # NumPins
    <3>1. /\ irq \in Pins /\ irq \in IRR \ IMR
          /\ \A other \in IRR \ IMR : irq <= other
          /\ \A k \in DOMAIN service : irq < service[k]
          /\ service' = <<irq>> \o service
          /\ IRR' = IRR \ {irq} /\ IMR' = IMR
      BY <1>5, <2>2, AcknowledgePushes
    <3> HIDE DEF irq
    <3>2. service = <<>> \/ irq < Head(service)
      <4>1. service \in Seq(Pins)
        BY DEF ServiceOK
      <4>2. service # <<>> => 1 \in DOMAIN service /\ Head(service) = service[1]
        BY <4>1
      <4>3. QED
        BY <3>1, <4>2
    <3>3. irq \in (IRR \cap Pins) \ (IMR \cap Pins)
      BY <3>1
    <3>4. \A other \in (IRR \cap Pins) \ (IMR \cap Pins) : irq <= other
      BY <3>1
    <3>5. Controller!Eligible(irq)
      BY <3>2, <3>3, <3>4 DEF Controller!Eligible
    <3>6. IRR' \cap Pins = (IRR \cap Pins) \ {irq}
      BY <3>1
    <3>7. Controller!Deliver(irq)
      BY <3>1, <3>5, <3>6 DEF Controller!Deliver
    <3>8. QED
      BY <1>2, <3>1, <3>7 DEF Controller!Next
  <2>3. QED
    BY <2>1, <2>2
<1>6. CASE SEndOfInterrupt
  <2>1. CASE ISR = {}
    <3>1. UNCHANGED <<IRR, IMR, service>>
      BY <1>6, <2>1 DEF SEndOfInterrupt, PICWriteByte, NonspecificEOI, vars
    <3>2. QED
      BY <1>3, <3>1
  <2>2. CASE ISR # {}
    <3>1. Controller!EndOfInterrupt
      BY <1>6, <2>2, EndOfInterruptPops DEF Controller!EndOfInterrupt
    <3>2. QED
      BY <3>1 DEF Controller!Next
  <2>3. QED
    BY <2>1, <2>2
<1>7. CASE SOther
  <2>1. service' = service
    BY <1>7 DEF SOther
  <2>2. ASSUME NEW irq \in Lines, FlagInterrupt(irq)
        PROVE  Controller!Next \/ UNCHANGED Controller!vars
    <3>1. IRR' = IRR \cup {irq} /\ IMR' = IMR
      BY <2>2 DEF FlagInterrupt
    <3>2. CASE irq \in Pins
      <4>1. IRR' \cap Pins = (IRR \cap Pins) \cup {irq}
        BY <3>1, <3>2
      <4>2. Controller!Request(irq)
        BY <2>1, <3>1, <4>1 DEF Controller!Request
      <4>3. QED
        BY <1>2, <3>2, <4>2 DEF Controller!Next
    <3>3. CASE irq \notin Pins
      <4>1. IRR' \cap Pins = IRR \cap Pins
        BY <3>1, <3>3
      <4>2. QED
        BY <2>1, <3>1, <4>1 DEF Controller!vars
    <3>4. QED
      BY <3>2, <3>3
  <2>3. ASSUME NEW mask \in SUBSET Lines, WriteIMR(mask)
        PROVE  Controller!Next \/ UNCHANGED Controller!vars
    <3>1. Controller!Mask(mask \cap Pins)
      BY <2>1, <2>3 DEF WriteIMR, Controller!Mask
    <3>2. mask \cap Pins \in SUBSET Pins
      OBVIOUS
    <3>3. QED
      BY <1>2, <3>1, <3>2 DEF Controller!Next
  <2>4. ASSUME NEW command \in Commands \ {"EOI"}, PICWriteByte(command)
        PROVE  UNCHANGED Controller!vars
    BY <1>3, <2>1, <2>4 DEF PICWriteByte, vars
  <2>5. CASE PICReadByte \/ ClearIntr
    BY <1>3, <2>1, <2>5 DEF PICReadByte, ClearIntr
  <2>6. QED
    BY <1>7, <2>2, <2>3, <2>4, <2>5 DEF SOther
<1>8. CASE UNCHANGED svars
  BY <1>3, <1>8 DEF svars, vars
<1>9. QED
  BY <1>4, <1>5, <1>6, <1>7, <1>8 DEF SNext

(* The registers of the 8259A implement the abstract controller: a request *)
(* stays until it is delivered, delivery is by priority and nested, and an *)
(* EOI always ends the handler entered last.                               *)
THEOREM PICImplementsController == SSpec => Refinement
<1>1. SInit => Controller!Init
  BY DEF SInit, Init, Controller!Init
<1>2. QED
  BY <1>1, RefinementStep, HistoryType, ServiceNested, PTL
     DEF SSpec, Refinement, Controller!Spec

-----------------------------------------------------------------------------
(* The clock of the game.                                                  *)

LEMMA PaceConstants ==
  /\ InitFreq \in Nat \ {0} /\ FreqStep \in Nat \ {0} /\ FallRate \in Nat \ {0}
  /\ IncreaseStep \in Nat \ {0} /\ FallFactor \in Nat \ {0} /\ Period \in Nat \ {0}
  /\ IncreaseScore \in Nat /\ MaxLines \in Nat /\ MaxScore \in Nat
  BY PaceAssumption

(* Division with remainder. *)
LEMMA Division ==
  ASSUME NEW a \in Nat, NEW b \in Nat \ {0}
  PROVE  /\ a \div b \in Nat /\ a % b \in 0 .. b - 1
         /\ a = b * (a \div b) + (a % b)
  OBVIOUS

LEMMA Times ==
  ASSUME NEW a \in Nat \ {0}, NEW x \in Int, NEW y \in Int
  PROVE  /\ a * x \in Int
         /\ a * (x + 1) = a * x + a
         /\ a * (x - 1) = a * x - a
         /\ x < y <=> a * x < a * y
         /\ x <= y <=> a * x <= a * y
  OBVIOUS

LEMMA QuotientUnique ==
  ASSUME NEW b \in Nat \ {0}, NEW q \in Nat, NEW p \in Nat, NEW r \in 0 .. b - 1, NEW s \in 0 .. b - 1,
         b * q + r = b * p + s
  PROVE  q = p /\ r = s
<1>1. q < p => q + 1 <= p
  OBVIOUS
<1>2. q <= p
  <2>1. SUFFICES ASSUME p + 1 <= q PROVE FALSE
    OBVIOUS
  <2>2. b * (p + 1) <= b * q
    BY <2>1, Times
  <2>3. b * p + b <= b * q
    BY <2>2, Times
  <2>4. b * p \in Int /\ b * q \in Int
    BY Times
  <2> QED BY <2>3, <2>4
<1>3. p <= q
  <2>1. SUFFICES ASSUME q + 1 <= p PROVE FALSE
    OBVIOUS
  <2>2. b * (q + 1) <= b * p
    BY <2>1, Times
  <2>3. b * q + b <= b * p
    BY <2>2, Times
  <2>4. b * p \in Int /\ b * q \in Int
    BY Times
  <2> QED BY <2>3, <2>4
<1>4. q = p
  BY <1>2, <1>3
<1>5. b * q \in Int
  BY Times
<1> QED BY <1>4, <1>5

LEMMA NextQuotient ==
  ASSUME NEW a \in Nat, NEW b \in Nat \ {0}
  PROVE  (a + 1) \div b = IF (a + 1) % b = 0 THEN a \div b + 1 ELSE a \div b
<1> DEFINE q == a \div b
           r == a % b
           p == (a + 1) \div b
           s == (a + 1) % b
<1>1. q \in Nat /\ r \in 0 .. b - 1 /\ a = b * q + r
  BY Division
<1>2. p \in Nat /\ s \in 0 .. b - 1 /\ a + 1 = b * p + s
  BY Division, a + 1 \in Nat
<1> HIDE DEF q, r, p, s
<1>3. b * q \in Int /\ b * p \in Int /\ b * (q + 1) = b * q + b
  BY <1>1, <1>2, Times
<1>4. CASE r + 1 < b
  <2>1. r + 1 \in 0 .. b - 1 /\ b * q + (r + 1) = b * p + s
    BY <1>1, <1>2, <1>3, <1>4
  <2>2. q = p /\ r + 1 = s
    BY <1>1, <1>2, <2>1, QuotientUnique
  <2> QED BY <1>1, <2>2 DEF q, p, s
<1>5. CASE r + 1 = b
  <2>1. q + 1 \in Nat /\ 0 \in 0 .. b - 1 /\ b * (q + 1) + 0 = b * p + s
    BY <1>1, <1>2, <1>3, <1>5
  <2>2. q + 1 = p /\ 0 = s
    BY <1>1, <1>2, <2>1, QuotientUnique
  <2> QED BY <1>1, <2>2 DEF q, p, s
<1> QED BY <1>1, <1>4, <1>5

LEMMA WholeQuotient ==
  ASSUME NEW b \in Nat \ {0}, NEW q \in Nat, NEW p \in Nat, NEW r \in 0 .. b - 1,
         b * q + r = b * p
  PROVE  r = 0
<1>1. 0 \in 0 .. b - 1 /\ b * q + r = b * p + 0
  BY Times
<1> QED BY <1>1, QuotientUnique

LEMMA MultipleOfFactor ==
  ASSUME NEW a \in Nat, NEW b \in Nat \ {0}, NEW c \in Nat \ {0}, a % (c * b) = 0
  PROVE  a % b = 0
<1>1. c * b \in Nat \ {0}
  OBVIOUS
<1> DEFINE k == a \div (c * b)
           q == a \div b
           r == a % b
<1>2. k \in Nat /\ a = (c * b) * k + (a % (c * b))
  BY <1>1, Division
<1>3. q \in Nat /\ r \in 0 .. b - 1 /\ a = b * q + r
  BY Division
<1> HIDE DEF k, q, r
<1>4. (c * b) * k \in Int
  BY <1>1, <1>2, Times
<1>5. a = b * (c * k)
  <2>1. a = (c * b) * k
    BY <1>2, <1>4
  <2> QED BY <1>2, <2>1
<1> DEFINE w == c * k
<1>6. w \in Nat /\ a = b * w
  BY <1>2, <1>5
<1> HIDE DEF w
<1>7. b * q \in Int /\ b * w \in Int
  BY <1>3, <1>6, Times
<1>8. b * q + r = b * w
  BY <1>3, <1>6
<1>9. r = 0
  BY <1>3, <1>6, <1>8, WholeQuotient
<1> QED BY <1>9 DEF r

(* The moduli at a score. *)
Steps(s) == s \div IncreaseStep
Faster(s) == {t \in IncreaseScore + 1 .. s : t % (FallFactor * IncreaseStep) = 0}

FreqAt(s) == LET freq == InitFreq - FreqStep * Steps(s)
             IN  IF freq < FreqStep THEN FreqStep ELSE freq
FallAt(s) == LET fall == FallRate - Cardinality(Faster(s))
             IN  IF fall < 1 THEN 1 ELSE fall

LevelAt(s) == [score |-> s, freq |-> FreqAt(s), fall |-> FallAt(s)]

LEMMA FasterFinite ==
  ASSUME NEW s \in Nat
  PROVE  IsFiniteSet(Faster(s)) /\ Cardinality(Faster(s)) \in Nat
<1>1. IsFiniteSet(IncreaseScore + 1 .. s)
  BY FS_Interval, PaceConstants
<1>2. Faster(s) \subseteq IncreaseScore + 1 .. s
  BY DEF Faster
<1> QED BY <1>1, <1>2, FS_Subset, FS_CardinalityType

LEMMA FasterGrows ==
  ASSUME NEW s \in Nat
  PROVE  Faster(s + 1) =
           IF s + 1 > IncreaseScore /\ (s + 1) % (FallFactor * IncreaseStep) = 0
           THEN Faster(s) \cup {s + 1} ELSE Faster(s)
<1>1. \A t : t \in IncreaseScore + 1 .. s + 1 <=>
              t \in IncreaseScore + 1 .. s \/ (t = s + 1 /\ s + 1 > IncreaseScore)
  BY PaceConstants
<1> QED BY <1>1 DEF Faster

LEMMA FreqBounds ==
  ASSUME NEW s \in Nat
  PROVE  /\ FreqAt(s) \in 1 .. InitFreq
         /\ \E n \in 1 .. InitFreq \div FreqStep : FreqAt(s) = FreqStep * n
<1> DEFINE K == InitFreq \div FreqStep
           q == Steps(s)
<1>1. K \in Nat /\ InitFreq = FreqStep * K /\ K >= 1
  <2>1. K \in Nat /\ InitFreq = FreqStep * K + (InitFreq % FreqStep)
    BY PaceConstants, Division
  <2>2. InitFreq % FreqStep = 0
    BY PaceAssumption
  <2>3. InitFreq = FreqStep * K
    BY <2>1, <2>2, PaceConstants
  <2> HIDE DEF K
  <2>4. K # 0
    BY <2>1, <2>3, PaceConstants
  <2> QED BY <2>1, <2>3, <2>4
<1>2. q \in Nat
  BY PaceConstants, Division DEF Steps
<1> HIDE DEF K, q
<1>3. InitFreq - FreqStep * q = FreqStep * (K - q)
  BY <1>1, <1>2, PaceConstants
<1>4. CASE K - q < 1
  <2>1. FreqStep * (K - q) < FreqStep * 1
    BY <1>1, <1>2, <1>4, PaceConstants, Times, K - q \in Int, 1 \in Int
  <2>2. FreqAt(s) = FreqStep
    BY <1>3, <2>1, PaceConstants DEF FreqAt, q
  <2>3. FreqStep * 1 <= FreqStep * K
    BY <1>1, PaceConstants, Times, 1 \in Int, K \in Int
  <2> QED BY <1>1, <2>2, <2>3, PaceConstants DEF K
<1>5. CASE K - q >= 1
  <2>1. FreqStep * 1 <= FreqStep * (K - q)
    BY <1>1, <1>2, <1>5, PaceConstants, Times, K - q \in Int, 1 \in Int
  <2>2. FreqStep * (K - q) \in Int
    BY <1>1, <1>2, PaceConstants, Times
  <2>3. FreqAt(s) = FreqStep * (K - q)
    BY <1>3, <2>1, <2>2, PaceConstants DEF FreqAt, q
  <2>4. FreqStep * (K - q) <= FreqStep * K
    BY <1>1, <1>2, PaceConstants, Times, K - q \in Int, K \in Int
  <2>5. K - q \in 1 .. K
    BY <1>1, <1>2, <1>5
  <2> QED BY <1>1, <2>1, <2>2, <2>3, <2>4, <2>5, PaceConstants DEF K
<1> QED BY <1>1, <1>2, <1>4, <1>5

LEMMA FreqStarts == FreqAt(0) = InitFreq
<1>1. PICK n \in 1 .. InitFreq \div FreqStep : FreqAt(0) = FreqStep * n
  BY FreqBounds
<1>2. 0 \div IncreaseStep = 0 /\ FreqStep * 0 = 0
  BY PaceConstants
<1>3. FreqAt(0) = IF InitFreq < FreqStep THEN FreqStep ELSE InitFreq
  BY <1>2, PaceConstants DEF FreqAt, Steps
<1>4. FreqAt(0) <= InitFreq
  BY FreqBounds, PaceConstants
<1> QED BY <1>3, <1>4, PaceConstants

LEMMA NextFreq ==
  ASSUME NEW s \in Nat
  PROVE  FreqAt(s + 1) = IF (s + 1) % IncreaseStep = 0 /\ FreqAt(s) - FreqStep > 0
                         THEN FreqAt(s) - FreqStep ELSE FreqAt(s)
<1> DEFINE q == Steps(s)
           d == InitFreq - FreqStep * q
<1>1. q \in Nat
  BY PaceConstants, Division DEF Steps
<1>2. Steps(s + 1) = IF (s + 1) % IncreaseStep = 0 THEN q + 1 ELSE q
  BY PaceConstants, NextQuotient DEF Steps
<1> HIDE DEF q
<1>3. d \in Int /\ InitFreq - FreqStep * (q + 1) = d - FreqStep
  BY <1>1, PaceConstants, Times
<1>4. FreqAt(s) = IF d < FreqStep THEN FreqStep ELSE d
  BY DEF FreqAt, q
<1>5. CASE (s + 1) % IncreaseStep = 0
  <2> HIDE DEF d
  <2>1. FreqAt(s + 1) = IF d - FreqStep < FreqStep THEN FreqStep ELSE d - FreqStep
    <3>1. FreqAt(s + 1) = LET freq == InitFreq - FreqStep * (q + 1)
                          IN  IF freq < FreqStep THEN FreqStep ELSE freq
      BY <1>2, <1>5 DEF FreqAt
    <3> QED BY <1>3, <3>1
  <2>2. FreqAt(s) - FreqStep > 0 <=> d > FreqStep
    BY <1>3, <1>4, PaceConstants
  <2>3. d > FreqStep => d - FreqStep >= FreqStep
    <3> SUFFICES ASSUME d > FreqStep PROVE d - FreqStep >= FreqStep
      OBVIOUS
    <3>1. PICK n \in 1 .. InitFreq \div FreqStep : FreqAt(s) = FreqStep * n
      BY FreqBounds
    <3>2. n \in Int /\ n >= 1 /\ d = FreqStep * n
      BY <1>3, <1>4, <3>1, PaceConstants
    <3>3. FreqStep * 1 < FreqStep * n
      BY <1>3, <3>2, PaceConstants
    <3>4. 1 <= n - 1
      BY <3>2, <3>3, PaceConstants
    <3>5. FreqStep * 1 <= FreqStep * (n - 1)
      BY <3>2, <3>4, PaceConstants, Times, 1 \in Int, n - 1 \in Int
    <3> QED BY <1>3, <3>2, <3>5, PaceConstants, Times
  <2> QED BY <1>3, <1>4, <1>5, <2>1, <2>2, <2>3, PaceConstants
<1>6. CASE (s + 1) % IncreaseStep # 0
  BY <1>2, <1>4, <1>6 DEF FreqAt, q
<1> QED BY <1>5, <1>6

LEMMA FallBounds ==
  ASSUME NEW s \in Nat
  PROVE  FallAt(s) \in 1 .. FallRate
  BY FasterFinite, PaceConstants DEF FallAt

LEMMA FallStarts == FallAt(0) = FallRate
<1>1. Faster(0) = {}
  BY PaceConstants DEF Faster
<1> QED BY <1>1, FS_EmptySet, PaceConstants DEF FallAt

LEMMA NextFall ==
  ASSUME NEW s \in Nat
  PROVE  FallAt(s + 1) =
           IF /\ (s + 1) % IncreaseStep = 0 /\ s + 1 > IncreaseScore
              /\ (s + 1) % (FallFactor * IncreaseStep) = 0 /\ FallAt(s) > 1
           THEN FallAt(s) - 1 ELSE FallAt(s)
<1> DEFINE here == s + 1 > IncreaseScore /\ (s + 1) % (FallFactor * IncreaseStep) = 0
           c == Cardinality(Faster(s))
<1>1. here => (s + 1) % IncreaseStep = 0
  BY MultipleOfFactor, PaceConstants, s + 1 \in Nat
<1>2. IsFiniteSet(Faster(s)) /\ c \in Nat
  BY FasterFinite
<1>3. s + 1 \notin Faster(s)
  BY PaceConstants DEF Faster
<1>4. Cardinality(Faster(s + 1)) = IF here THEN c + 1 ELSE c
  <2>1. CASE here
    BY <1>2, <1>3, <2>1, FasterGrows, FS_AddElement
  <2>2. CASE ~ here
    BY <2>2, FasterGrows
  <2> QED BY <2>1, <2>2
<1>5. FallAt(s) = IF FallRate - c < 1 THEN 1 ELSE FallRate - c
  BY DEF FallAt
<1>6. FallAt(s + 1) = LET fall == FallRate - (IF here THEN c + 1 ELSE c)
                      IN  IF fall < 1 THEN 1 ELSE fall
  BY <1>4 DEF FallAt
<1> HIDE DEF c
<1>7. CASE here
  <2> HIDE DEF here
  <2>1. FallAt(s + 1) = IF FallAt(s) > 1 THEN FallAt(s) - 1 ELSE FallAt(s)
    BY <1>2, <1>5, <1>6, <1>7, PaceConstants
  <2> QED BY <1>1, <1>7, <2>1 DEF here
<1>8. CASE ~ here
  BY <1>2, <1>5, <1>6, <1>8
<1> QED BY <1>7, <1>8

(* One more line leads from the level of a score to that of the next.      *)
LEMMA NextLevel ==
  ASSUME NEW s \in Nat
  PROVE  LineScored(LevelAt(s)) = LevelAt(s + 1)
  BY NextFreq, NextFall DEF LineScored, LevelAt

LEMMA LevelsOfDrop ==
  ASSUME NEW s \in Nat, NEW lines \in 0 .. MaxLines
  PROVE  LevelsAfter(LevelAt(s))[lines] = LevelAt(s + lines)
<1> DEFINE level == LevelAt(s)
           R(f) == [n \in 0 .. MaxLines |-> IF n = 0 THEN level ELSE LineScored(f[n - 1])]
           g == [n \in 0 .. MaxLines |-> LevelAt(s + n)]
           after == LevelsAfter(level)
<1>1. g = R(g)
  <2>1. ASSUME NEW n \in 0 .. MaxLines
        PROVE  LevelAt(s + n) = IF n = 0 THEN level ELSE LineScored(g[n - 1])
    <3>1. CASE n = 0
      BY <3>1
    <3>2. CASE n # 0
      <4>1. n - 1 \in 0 .. MaxLines /\ s + (n - 1) \in Nat /\ (s + (n - 1)) + 1 = s + n
        BY <3>2, PaceConstants
      <4>2. g[n - 1] = LevelAt(s + (n - 1))
        BY <4>1
      <4> QED BY <3>2, <4>1, <4>2, NextLevel
    <3> QED BY <3>1, <3>2
  <2> QED BY <2>1
<1>2. after = CHOOSE f : f = R(f)
  BY DEF LevelsAfter
<1> HIDE DEF g, level
<1>3. after = R(after)
  BY <1>1, <1>2
<1>4. \A n \in 0 .. MaxLines : after[n] = IF n = 0 THEN level ELSE LineScored(after[n - 1])
  BY <1>3
<1> HIDE DEF after
<1> DEFINE bad == {n \in 0 .. MaxLines : after[n] # g[n]}
<1>5. bad = {}
  <2> SUFFICES ASSUME bad # {} PROVE FALSE
    OBVIOUS
  <2>1. bad \subseteq Nat
    BY PaceConstants
  <2>2. PICK m \in bad : \A n \in bad : ~ (<<n, m>> \in OpToRel(<, Nat))
    <3> HIDE DEF bad
    <3> QED BY <2>1, WFMin, NatLessThanWellFounded
  <2>3. m # 0
    BY <1>4, <1>1, <2>2, PaceConstants
  <2>4. m - 1 \in 0 .. MaxLines /\ <<m - 1, m>> \in OpToRel(<, Nat)
    BY <2>2, <2>3, PaceConstants DEF OpToRel
  <2>5. after[m - 1] = g[m - 1]
    BY <2>2, <2>4
  <2> QED BY <1>1, <1>4, <2>2, <2>3, <2>5
<1> QED BY <1>5 DEF after, g, level

-----------------------------------------------------------------------------
(* The clock and the level: the moduli are those of the score.             *)
PaceInv ==
  /\ simpticks \in 0 .. Period - 1 /\ simpwait \in 0 .. 3 /\ game_over \in BOOLEAN
  /\ score \in 0 .. MaxScore
  /\ freq_min = FreqAt(score) /\ fall_rate = FallAt(score)

LEMMA InitPace == PaceInit => PaceInv
<1>1. PaceInit => simpticks = 0 /\ simpwait = 0 /\ game_over \in BOOLEAN /\ score = 0
  BY DEF PaceInit
<1>2. PaceInit => freq_min = FreqAt(score) /\ fall_rate = FallAt(score)
  BY FreqStarts, FallStarts DEF PaceInit
<1> QED BY <1>1, <1>2, PaceConstants DEF PaceInv

LEMMA ResetPace == ASSUME init_simptris PROVE PaceInv'
<1>1. simpticks' = 0 /\ simpwait' = 0 /\ game_over' \in BOOLEAN /\ score' = 0
  BY DEF init_simptris
<1>2. freq_min' = FreqAt(score') /\ fall_rate' = FallAt(score')
  BY FreqStarts, FallStarts DEF init_simptris
<1> QED BY <1>1, <1>2, PaceConstants DEF PaceInv

LEMMA TickPace ==
  ASSUME PaceInv, NEW lines \in 0 .. MaxLines, NEW over \in BOOLEAN, Tick(lines, over)
  PROVE  PaceInv'
<1>1. simpticks' \in 0 .. Period - 1
  <2>1. simpticks + 1 \in Nat
    BY PaceConstants DEF PaceInv
  <2>2. simpticks' = (simpticks + 1) % Period
    BY DEF Tick, now
  <2> QED BY <2>1, <2>2, Division, PaceConstants
<1>2. simpwait' \in 0 .. 3
  <2> DEFINE waited == IF Generates THEN 0 ELSE simpwait
  <2>1. waited \in 0 .. 3
    BY DEF PaceInv
  <2>2. simpwait' = IF Drops /\ waited < 3 THEN waited + 1 ELSE waited
    BY DEF Tick
  <2> HIDE DEF waited
  <2> QED BY <2>1, <2>2
<1>3. score + lines <= MaxScore /\ score \in Nat /\ lines \in Nat
  BY PaceConstants DEF Tick, PaceInv
<1>4. [score |-> score, freq |-> freq_min, fall |-> fall_rate] = LevelAt(score)
  BY DEF PaceInv, LevelAt
<1>5. LevelsAfter(LevelAt(score))[lines] = LevelAt(score + lines)
  BY <1>3, LevelsOfDrop
<1>6. score' = LevelAt(score + lines).score /\ freq_min' = LevelAt(score + lines).freq
        /\ fall_rate' = LevelAt(score + lines).fall
  BY <1>4, <1>5 DEF Tick
<1>7. score' = score + lines /\ freq_min' = FreqAt(score') /\ fall_rate' = FallAt(score')
  BY <1>6 DEF LevelAt
<1>8. game_over' \in BOOLEAN
  BY DEF Tick
<1> QED BY <1>1, <1>2, <1>3, <1>7, <1>8, PaceConstants DEF PaceInv

LEMMA NextPace == PaceInv /\ [PaceNext]_paceVars => PaceInv'
<1> SUFFICES ASSUME PaceInv, [PaceNext]_paceVars PROVE PaceInv'
  OBVIOUS
<1>1. CASE init_simptris
  BY <1>1, ResetPace
<1>2. CASE EndGame
  BY <1>2 DEF EndGame, PaceInv
<1>3. ASSUME NEW c \in CommandKinds, PieceCmd(c) PROVE PaceInv'
  BY <1>3 DEF PieceCmd, PaceInv
<1>4. CASE handle_simptris
  BY <1>4, TickPace DEF handle_simptris
<1>5. CASE UNCHANGED paceVars
  BY <1>5 DEF paceVars, PaceInv
<1> QED BY <1>1, <1>2, <1>3, <1>4, <1>5 DEF PaceNext

LEMMA PaceInvariant == PaceSpec => []PaceInv
  BY InitPace, NextPace, PTL DEF PaceSpec

(* emulator/Simptris.cpp:281-297: however many lines one drop completes, *)
(* update_score leaves the moduli at what the score says: no level is      *)
(* missed or counted twice, and neither modulus ever reaches zero.         *)
THEOREM LevelIsOfScore == PaceSpec => []LevelFollowsScore
<1>1. PaceInv => LevelFollowsScore
  BY DEF PaceInv, LevelFollowsScore, FreqAt, FallAt, Steps, Faster
<1> QED BY <1>1, PaceInvariant, PTL

(* The game counts ticks without end, the model modulo Period: the tests   *)
(* of handle_simptris see the same remainders.                             *)
LEMMA RemainderKept ==
  ASSUME NEW t \in Nat, NEW f \in Nat \ {0}, Period % f = 0
  PROVE  (t % Period) % f = t % f
<1> DEFINE q == t \div Period
           r == t % Period
           k == Period \div f
<1>1. q \in Nat /\ r \in 0 .. Period - 1 /\ t = Period * q + r
  BY Division, PaceConstants
<1>2. k \in Nat /\ Period = f * k
  <2>1. k \in Nat /\ Period = f * k + (Period % f)
    BY Division, PaceConstants
  <2> HIDE DEF k
  <2> QED BY <2>1
<1> HIDE DEF q, r, k
<1> DEFINE a == r \div f
           b == r % f
           c == t \div f
           d == t % f
<1>3. a \in Nat /\ b \in 0 .. f - 1 /\ r = f * a + b
  BY <1>1, Division, r \in Nat
<1>4. c \in Nat /\ d \in 0 .. f - 1 /\ t = f * c + d
  BY Division
<1> HIDE DEF a, b, c, d
<1>5. Period * q = f * (k * q)
  BY <1>1, <1>2
<1> DEFINE w == k * q
<1>6. w \in Nat /\ f * (w + a) = f * w + f * a
  BY <1>1, <1>2, <1>3
<1>7. Period * q = f * w
  BY <1>5
<1> HIDE DEF w
<1>8. f * w \in Int /\ f * a \in Int /\ f * c \in Int
  BY <1>3, <1>4, <1>6, Times
<1>9. f * (w + a) + b = f * c + d
  BY <1>1, <1>3, <1>4, <1>6, <1>7, <1>8
<1>10. b = d
  BY <1>3, <1>4, <1>6, <1>9, QuotientUnique, w + a \in Nat
<1> QED BY <1>10 DEF b, d, r

ClockExact ==
  \A t \in Nat : /\ (t % Period) % freq_min = t % freq_min
                /\ (t % Period) % fall_rate = t % fall_rate

(* emulator/Simptris.cpp:917, 924: at every score the remainders of the    *)
(* counter are those of the counter modulo Period, so the bound on the     *)
(* model's clock hides no call that generates a piece or drops one.        *)
THEOREM ClockIsExact == PaceSpec => []ClockExact
<1>1. ASSUME PaceInv, NEW t \in Nat
      PROVE  /\ (t % Period) % freq_min = t % freq_min
             /\ (t % Period) % fall_rate = t % fall_rate
  <2>1. score \in Nat
    BY <1>1, PaceConstants DEF PaceInv
  <2>2. PICK n \in 1 .. InitFreq \div FreqStep : freq_min = FreqStep * n
    BY <1>1, <2>1, FreqBounds DEF PaceInv
  <2>3. freq_min \in Nat \ {0} /\ fall_rate \in 1 .. FallRate
    BY <1>1, <2>1, FreqBounds, FallBounds, PaceConstants DEF PaceInv
  <2>4. n \in Int
    BY PaceConstants
  <2>5. n * FreqStep = FreqStep * n
    BY <2>4, PaceConstants
  <2>6. Period % freq_min = 0
    BY <2>2, <2>5, PaceAssumption
  <2>7. Period % fall_rate = 0
    BY <2>3, PaceAssumption
  <2>8. fall_rate \in Nat \ {0}
    BY <2>3, PaceConstants
  <2> QED BY <2>3, <2>6, <2>7, <2>8, RemainderKept
<1>2. PaceInv => ClockExact
  BY <1>1 DEF ClockExact
<1> QED BY <1>2, PaceInvariant, PTL
-----------------------------------------------------------------------------
(* After a call no slide is overdue, and a rotation only when a slide has  *)
(* just left its slot: a slide issued since is not due in the next call.   *)
SlotsInv ==
  /\ due \in [CommandKinds -> None .. ComDelay]
  /\ due["slide"] # 0
  /\ due["rotate"] = 0 => ~ Ripe("slide")

LEMMA CommandSlots == /\ CommandKinds = {"slide", "rotate"}
                      /\ ComDelay \in Nat /\ ComDelay > 1 /\ None = -1
  BY PaceAssumption DEF CommandKinds, None

LEMMA InitSlots == PaceInit => SlotsInv
  BY CommandSlots DEF PaceInit, SlotsInv, Ripe

LEMMA ResetSlots == ASSUME init_simptris PROVE SlotsInv'
  BY CommandSlots DEF init_simptris, SlotsInv, Ripe

LEMMA CommandInv ==
  ASSUME SlotsInv, NEW c \in CommandKinds, PieceCmd(c)
  PROVE  SlotsInv'
<1>1. due' = [due EXCEPT ![c] = ComDelay]
  BY DEF PieceCmd
<1>2. CASE c = "slide"
  BY <1>1, <1>2, CommandSlots DEF SlotsInv, Ripe
<1>3. CASE c = "rotate"
  BY <1>1, <1>3, CommandSlots DEF SlotsInv, Ripe
<1> QED BY <1>2, <1>3 DEF CommandKinds

(* One call of handle_simptris, as far as the slots are concerned.         *)
LEMMA TickInv ==
  ASSUME SlotsInv, handle_simptris
  PROVE  SlotsInv' /\ (due["rotate"] = 0 => due'["rotate"] = None)
<1>1. due' = [c \in CommandKinds |-> IF c \in CarriedOut THEN None
                                     ELSE IF due[c] > 0 THEN due[c] - 1 ELSE due[c]]
  BY DEF handle_simptris, Tick
<1>2. CASE Ripe("slide")
  <2>1. due'["slide"] = None
    BY <1>1, <1>2 DEF CarriedOut, CommandKinds
  <2>2. due'["rotate"] = IF due["rotate"] > 0 THEN due["rotate"] - 1 ELSE due["rotate"]
    BY <1>1, <1>2 DEF CarriedOut, CommandKinds
  <2>3. due' \in [CommandKinds -> None .. ComDelay]
    BY <1>1, <2>1, <2>2, CommandSlots DEF SlotsInv
  <2> QED BY <1>2, <2>1, <2>3 DEF SlotsInv, Ripe, None
<1>3. CASE ~ Ripe("slide")
  <2>1. due'["slide"] = IF due["slide"] > 0 THEN due["slide"] - 1 ELSE due["slide"]
    BY <1>1, <1>3 DEF CarriedOut, CommandKinds
  <2>2. due'["rotate"] = IF Ripe("rotate") THEN None
                         ELSE IF due["rotate"] > 0 THEN due["rotate"] - 1 ELSE due["rotate"]
    BY <1>1, <1>3 DEF CarriedOut, CommandKinds
  <2>3. due' \in [CommandKinds -> None .. ComDelay]
    BY <1>1, <2>1, <2>2, CommandSlots DEF SlotsInv
  <2>4. due'["slide"] # 0
    BY <1>3, <2>1, CommandSlots DEF SlotsInv, Ripe
  <2>5. due'["rotate"] # 0
    BY <2>2, CommandSlots DEF SlotsInv, Ripe
  <2>6. due["rotate"] = 0 => due'["rotate"] = None
    BY <2>2 DEF Ripe
  <2> QED BY <2>3, <2>4, <2>5, <2>6 DEF SlotsInv
<1> QED BY <1>2, <1>3

LEMMA NextInv == SlotsInv /\ [PaceNext]_paceVars => SlotsInv'
<1> SUFFICES ASSUME SlotsInv, [PaceNext]_paceVars PROVE SlotsInv'
  OBVIOUS
<1>1. CASE init_simptris
  BY <1>1, ResetSlots
<1>2. CASE EndGame \/ UNCHANGED paceVars
  BY <1>2 DEF EndGame, paceVars, SlotsInv, Ripe
<1>3. ASSUME NEW c \in CommandKinds, PieceCmd(c) PROVE SlotsInv'
  BY <1>3, CommandInv
<1>4. CASE handle_simptris
  BY <1>4, TickInv
<1> QED BY <1>1, <1>2, <1>3, <1>4 DEF PaceNext

(* A rotation that let a slide pass is the next command carried out,       *)
(* however many slides the program issues: slides cannot starve it.        *)
THEOREM RotationNotStarved == PaceSpec => RotationNext
<1>1. SlotsInv /\ [PaceNext]_paceVars =>
        [handle_simptris /\ due["rotate"] = 0 => due'["rotate"] = None]_paceVars
  BY TickInv
<1> QED
  BY <1>1, InitSlots, NextInv, PTL DEF PaceSpec, RotationNext
-----------------------------------------------------------------------------
(* The types. *)

LEMMA SlotsInvariant == PaceSpec => []SlotsInv
  BY InitSlots, NextInv, PTL DEF PaceSpec

(* Simptris.cpp:239-297, 895-929: the clock, the level and the command     *)
(* slots keep their types; in particular neither modulus is ever zero.     *)
THEOREM TypesKept == PaceSpec => []PaceTypeOK
<1>1. PaceInv /\ SlotsInv => PaceTypeOK
  <2> SUFFICES ASSUME PaceInv, SlotsInv PROVE PaceTypeOK
    OBVIOUS
  <2>1. score \in Nat
    BY PaceConstants DEF PaceInv
  <2>2. freq_min \in 1 .. InitFreq /\ fall_rate \in 1 .. FallRate
    BY <2>1, FreqBounds, FallBounds DEF PaceInv
  <2> QED BY <2>2 DEF PaceInv, SlotsInv, PaceTypeOK, Levels
<1> QED BY <1>1, PaceInvariant, SlotsInvariant, PTL
=============================================================================
