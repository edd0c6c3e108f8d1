------------------------------ MODULE Channel ------------------------------
(***************************************************************************)
(* What the transport promises for Data messages, with no packets, no      *)
(* tables and no clock (architectures/reliability.md): a message that was  *)
(* accepted may arrive, and what arrived is handed over at most once, as   *)
(* it was sent.  The sender learns one thing about it, once: that it       *)
(* arrived, or that the attempt was given up.  A message that was given up *)
(* may have arrived all the same.  An arrival need not be handed over: the *)
(* receiver may drop it for want of room.                                  *)
(***************************************************************************)
EXTENDS Naturals, Sequences

VARIABLES
    offered,          \* messages that send accepted
    arrived,          \* messages of which the other side accepted every part
    taken,            \* taken[p]: messages handed to p's application, in order
    confirmed,        \* messages the sender knows to have arrived
    failed            \* messages the sender has given up

vars == <<offered, arrived, taken, confirmed, failed>>

Init ==
    /\ offered = {} /\ arrived = {} /\ confirmed = {} /\ failed = {}
    /\ \A p \in DOMAIN taken : taken[p] = <<>>

Offer ==
    /\ \E m \in offered' \ offered : offered' = offered \cup {m}
    /\ UNCHANGED <<arrived, taken, confirmed, failed>>

Arrive(m) ==
    /\ m \notin arrived
    /\ arrived' = arrived \cup {m}
    /\ UNCHANGED <<offered, taken, confirmed, failed>>

Take(p, m) ==
    /\ m \in arrived
    /\ m.from # p
    /\ \A i \in 1 .. Len(taken[p]) : taken[p][i] # m
    /\ taken' = [taken EXCEPT ![p] = Append(@, m)]
    /\ UNCHANGED <<offered, arrived, confirmed, failed>>

Confirm(m) ==
    /\ m \in arrived \ (confirmed \cup failed)
    /\ confirmed' = confirmed \cup {m}
    /\ UNCHANGED <<offered, arrived, taken, failed>>

GiveUp(m) ==
    /\ m \notin confirmed \cup failed
    /\ failed' = failed \cup {m}
    /\ UNCHANGED <<offered, arrived, taken, confirmed>>

Next ==
    \/ Offer
    \/ \E m \in offered :
           \/ Arrive(m)
           \/ \E p \in DOMAIN taken : Take(p, m)
           \/ Confirm(m)
           \/ GiveUp(m)

Spec == Init /\ [][Next]_vars
=============================================================================
