------------------------ MODULE InterruptController ------------------------
(***************************************************************************)
(* What the interrupt controller promises its users: requests are          *)
(* remembered until they are delivered, delivery is by priority among the  *)
(* unmasked requests, a handler is interrupted only by a request of higher *)
(* priority, and handlers end in the reverse of the order they began in:   *)
(* an end-of-interrupt ends the handler that runs now, the head of the     *)
(* stack `service'.  There is no INTR pin here: it is how PIC keeps the    *)
(* promise, and not part of it.                                            *)
(***************************************************************************)
EXTENDS Integers, Sequences

CONSTANT NumPins

VARIABLES pending, masked, service

vars == <<pending, masked, service>>

Pins == 0 .. NumPins - 1

Eligible(irq) ==
  /\ irq \in pending \ masked
  /\ \A other \in pending \ masked : irq <= other
  /\ service = <<>> \/ irq < Head(service)

Init == pending = {} /\ masked = {} /\ service = <<>>

Request(irq) ==
  /\ pending' = pending \cup {irq}
  /\ UNCHANGED <<masked, service>>

Mask(set) ==
  /\ masked' = set
  /\ UNCHANGED <<pending, service>>

Deliver(irq) ==
  /\ Eligible(irq)
  /\ pending' = pending \ {irq}
  /\ service' = <<irq>> \o service
  /\ UNCHANGED masked

EndOfInterrupt ==
  /\ service # <<>>
  /\ service' = Tail(service)
  /\ UNCHANGED <<pending, masked>>

Reset == pending' = {} /\ masked' = {} /\ service' = <<>>

Next ==
  \/ \E irq \in Pins : Request(irq) \/ Deliver(irq)
  \/ \E set \in SUBSET Pins : Mask(set)
  \/ EndOfInterrupt
  \/ Reset

Spec == Init /\ [][Next]_vars
=============================================================================
