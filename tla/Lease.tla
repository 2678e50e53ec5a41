------------------------------- MODULE Lease -------------------------------
(***************************************************************************)
(* What the Lock and Unlock phases promise together: a lease on a set of   *)
(* hosts.  A client asks for it once, gets it or gives up, and once it has *)
(* left it does not come back.  A second client gets in next to the first  *)
(* only if the lease was lost on every host, and only a client that is     *)
(* still asking can make one lose it.                                      *)
(***************************************************************************)
CONSTANTS Clients, Hosts

VARIABLES
    seat,       \* [Clients -> Seats]
    lost        \* the hosts whose lease an asking client took from its holder

leaseVars == <<seat, lost>>

Seats == {"out", "asking", "in", "leaving", "left"}

LeaseInit == seat = [c \in Clients |-> "out"] /\ lost = {}

Sit(c, s) == seat' = [seat EXCEPT ![c] = s] /\ UNCHANGED lost

Ask(c) == seat[c] = "out" /\ Sit(c, "asking")

Acquire(c) ==
    /\ seat[c] = "asking"
    /\ (\A d \in Clients : seat[d] # "in") \/ lost = Hosts
    /\ Sit(c, "in")

\* Unlock or an interrupt: the tickers give the hosts up one by one.
StartLeaving(c) == seat[c] = "in" /\ Sit(c, "leaving")

Leave(c) == seat[c] \in {"asking", "in", "leaving"} /\ Sit(c, "left")

Lose(h) ==
    /\ \E c \in Clients : seat[c] = "asking"
    /\ lost' = lost \union {h}
    /\ UNCHANGED seat

LeaseNext ==
    \/ \E c \in Clients : Ask(c) \/ Acquire(c) \/ StartLeaving(c) \/ Leave(c)
    \/ \E h \in Hosts : Lose(h)

LeaseSpec == LeaseInit /\ [][LeaseNext]_leaseVars
=============================================================================
