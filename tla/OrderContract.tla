--------------------------- MODULE OrderContract ---------------------------
(***************************************************************************)
(* What the dispatch promises about one order, without offers, statuses or *)
(* requests: it is published once, one courier claims it or it is          *)
(* withdrawn unclaimed, and the courier who claimed it is paid once.       *)
(***************************************************************************)
CONSTANTS Orders, Couriers, Nobody

VARIABLES
  phase,    \* phase[o]: "absent", "open", "claimed" or "withdrawn"
  holder,   \* holder[o]: the courier who claimed it
  payee     \* payee[o]: the courier its earning belongs to

vars == <<phase, holder, payee>>

Init ==
  /\ phase = [o \in Orders |-> "absent"]
  /\ holder = [o \in Orders |-> Nobody]
  /\ payee = [o \in Orders |-> Nobody]

Publish(o) ==
  /\ phase[o] = "absent"
  /\ phase' = [phase EXCEPT ![o] = "open"]
  /\ UNCHANGED <<holder, payee>>

Withdraw(o) ==
  /\ phase[o] = "open"
  /\ phase' = [phase EXCEPT ![o] = "withdrawn"]
  /\ UNCHANGED <<holder, payee>>

Claim(o, c) ==
  /\ phase[o] = "open"
  /\ phase' = [phase EXCEPT ![o] = "claimed"]
  /\ holder' = [holder EXCEPT ![o] = c]
  /\ UNCHANGED payee

Pay(o) ==
  /\ phase[o] = "claimed"
  /\ payee[o] = Nobody
  /\ payee' = [payee EXCEPT ![o] = holder[o]]
  /\ UNCHANGED <<phase, holder>>

Next ==
  \E o \in Orders :
    \/ Publish(o)
    \/ Withdraw(o)
    \/ \E c \in Couriers : Claim(o, c)
    \/ Pay(o)

Spec == Init /\ [][Next]_vars

=============================================================================
