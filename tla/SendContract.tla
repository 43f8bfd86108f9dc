--------------------------- MODULE SendContract ---------------------------
(***************************************************************************)
(* What the send pipeline promises to the owner of the mailbox, without    *)
(* leases, clocks, stages or crashes.  A request is submitted once per     *)
(* idempotency key in one of two modes.  It is cleared for sending at most *)
(* once, in confirm mode only with the consent of the user at the GUI, or  *)
(* withdrawn (cancelled, expired).  Only a cleared request is transmitted, *)
(* and at most once, whatever becomes of it afterwards.                    *)
(***************************************************************************)
CONSTANTS Reqs

VARIABLES
  mode,     \* "none" before the request is submitted
  phase,    \* "open", "cleared", "withdrawn"
  consent,  \* the user has confirmed the request
  out       \* the number of transmissions

vars == <<mode, phase, consent, out>>

TypeOK ==
  /\ mode \in [Reqs -> {"none", "confirm", "autonomous"}]
  /\ phase \in [Reqs -> {"open", "cleared", "withdrawn"}]
  /\ consent \in [Reqs -> BOOLEAN]
  /\ out \in [Reqs -> {0, 1}]

Init ==
  /\ mode = [r \in Reqs |-> "none"]
  /\ phase = [r \in Reqs |-> "open"]
  /\ consent = [r \in Reqs |-> FALSE]
  /\ out = [r \in Reqs |-> 0]

Submit(r, m) ==
  /\ mode[r] = "none"
  /\ mode' = [mode EXCEPT ![r] = m]
  /\ UNCHANGED <<phase, consent, out>>

Clear(r, confirmed) ==
  /\ mode[r] # "none"
  /\ phase[r] = "open"
  /\ mode[r] = "confirm" => confirmed
  /\ phase' = [phase EXCEPT ![r] = "cleared"]
  /\ consent' = [consent EXCEPT ![r] = confirmed]
  /\ UNCHANGED <<mode, out>>

Withdraw(r) ==
  /\ mode[r] = "confirm"
  /\ phase[r] = "open"
  /\ phase' = [phase EXCEPT ![r] = "withdrawn"]
  /\ UNCHANGED <<mode, consent, out>>

Transmit(r) ==
  /\ phase[r] = "cleared"
  /\ out[r] = 0
  /\ out' = [out EXCEPT ![r] = 1]
  /\ UNCHANGED <<mode, phase, consent>>

Next ==
  \E r \in Reqs :
    \/ \E m \in {"confirm", "autonomous"} : Submit(r, m)
    \/ \E confirmed \in BOOLEAN : Clear(r, confirmed)
    \/ Withdraw(r)
    \/ Transmit(r)

Spec == Init /\ [][Next]_vars
=============================================================================
