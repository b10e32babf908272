----------------------------- MODULE PICService -----------------------------
(***************************************************************************)
(* PIC with a history variable: `service' is the stack of the requests     *)
(* that were acknowledged and whose end-of-interrupt has not come, the     *)
(* latest first.  The code has no such stack: it works out from the bits   *)
(* of ISR alone which handler an EOI ends.  The history records what the   *)
(* code did, wherever in the stack that is; that it is always the top is   *)
(* the theorem (Refinement).                                               *)
(***************************************************************************)
EXTENDS PIC, Sequences

VARIABLE service

svars == <<vars, service>>

(* s without its k-th element. *)
DropAt(s, k) ==
  [j \in 1 .. Len(s) - 1 |-> IF j < k THEN s[j] ELSE s[j + 1]]

SInit == Init /\ service = <<>>

SReset == ResetPIC /\ asynch' \in {asynch, FALSE} /\ service' = <<>>

SAcknowledge ==
  LET irq == PriorityDecode(IRR, ISR, IMR)
  IN  /\ INTR
      /\ InterruptAcknowledge /\ asynch' \in {asynch, FALSE}
      /\ service' = IF irq = NumPins THEN service ELSE <<irq>> \o service

SEndOfInterrupt ==
  /\ PICWriteByte("EOI")
  /\ IF ISR = {} THEN UNCHANGED service
     ELSE LET k == CHOOSE j \in DOMAIN service : service[j] = GetPriority(ISR)
          IN  service' = DropAt(service, k)

SOther ==
  /\ \/ \E irq \in Lines : FlagInterrupt(irq)
     \/ \E mask \in SUBSET Lines : WriteIMR(mask)
     \/ \E command \in Commands \ {"EOI"} : PICWriteByte(command)
     \/ PICReadByte
     \/ ClearIntr
  /\ UNCHANGED service

SNext == SReset \/ SAcknowledge \/ SEndOfInterrupt \/ SOther

SSpec == SInit /\ [][SNext]_svars
-----------------------------------------------------------------------------
(* The stack holds what ISR holds, and each handler in it was entered over *)
(* handlers of lower priority only: its numbers ascend from the top.       *)
ServiceOK ==
  /\ service \in Seq(Pins)
  /\ \A j, k \in DOMAIN service : j < k => service[j] < service[k]
  /\ ISR = {service[k] : k \in DOMAIN service}

Controller ==
  INSTANCE InterruptController WITH pending <- IRR \cap Pins,
                                    masked <- IMR \cap Pins

(* The registers implement the abstract controller: delivery is by         *)
(* priority and strictly nested, and an EOI ends the handler entered last, *)
(* "always currently running interrupt" (PIC.cpp:164).                     *)
Refinement == Controller!Spec
=============================================================================
