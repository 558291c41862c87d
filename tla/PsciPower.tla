----------------------------- MODULE PsciPower -----------------------------
(***************************************************************************)
(* What PSCI promises of each core: the life cycle that AFFINITY_INFO and  *)
(* the answers of CPU_ON let an operating system see.  A core is turned on *)
(* only when it is off, enters the normal world only when it was turned    *)
(* on, leaves it by its own request, and what one core does changes no     *)
(* other core except by turning it on.                                     *)
(***************************************************************************)
CONSTANT Core

VARIABLE power

Power == {"off", "pending", "on", "suspended"}

Init == /\ power \in [Core -> {"off", "on"}]
        /\ \E c \in Core : power[c] = "on"

Move(c, from, to) == /\ power[c] = from
                     /\ power' = [power EXCEPT ![c] = to]

TurnOn(c)  == Move(c, "off", "pending")
Start(c)   == Move(c, "pending", "on")
TurnOff(c) == Move(c, "on", "off")
Suspend(c) == Move(c, "on", "suspended")
Resume(c)  == Move(c, "suspended", "on")

Next == \E c \in Core : TurnOn(c) \/ Start(c) \/ TurnOff(c) \/ Suspend(c) \/ Resume(c)

Spec == Init /\ [][Next]_power

=============================================================================
