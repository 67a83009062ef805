-------------------------- MODULE DeliveryPromise ---------------------------
(***************************************************************************)
(* What the delivery service promises, without leases, attempts or workers.*)
(*                                                                         *)
(* An operation is accepted once, with one envelope.  It then succeeds or  *)
(* is dead-lettered; an operator may have dead letters tried again; success *)
(* is final.  Success means that every destination has received the        *)
(* operation and that the receipt is stored, and the receipt is never      *)
(* stored before the destinations have all received it.  Destinations may  *)
(* receive an operation again, at any time after it was accepted.          *)
(***************************************************************************)
CONSTANTS Ops, Requests, Destinations, Receipt, NoRequest, OpOf, DestsOf

VARIABLES
    status,    \* what a reader of the operation is told
    envelope,  \* the request whose envelope the operation carries
    received   \* the destinations that have received it, and the receipt

vars == <<status, envelope, received>>

Init ==
    /\ status = [o \in Ops |-> "absent"]
    /\ envelope = [o \in Ops |-> NoRequest]
    /\ received = [o \in Ops |-> {}]

Accept(r) ==
    /\ status[OpOf[r]] = "absent"
    /\ status' = [status EXCEPT ![OpOf[r]] = "pending"]
    /\ envelope' = [envelope EXCEPT ![OpOf[r]] = r]
    /\ UNCHANGED received

Receive(o, d) ==
    /\ status[o] # "absent"
    /\ \/ d \in DestsOf[envelope[o]]
       \/ d = Receipt /\ DestsOf[envelope[o]] \subseteq received[o]
    /\ received' = [received EXCEPT ![o] = @ \cup {d}]
    /\ UNCHANGED <<status, envelope>>

Move(o, from, to) ==
    /\ status[o] = from
    /\ status' = [status EXCEPT ![o] = to]
    /\ UNCHANGED <<envelope, received>>

Succeed(o) ==
    /\ status[o] # "absent"
    /\ DestsOf[envelope[o]] \cup {Receipt} \subseteq received[o]
    /\ Move(o, "pending", "success")

GiveUp(o)  == Move(o, "pending", "dead_letter")
Redrive(o) == Move(o, "dead_letter", "pending")

Next ==
    \/ \E r \in Requests : Accept(r)
    \/ \E o \in Ops :
         \/ \E d \in Destinations \cup {Receipt} : Receive(o, d)
         \/ Succeed(o) \/ GiveUp(o) \/ Redrive(o)

Spec == Init /\ [][Next]_vars
=============================================================================
