------------------------------- MODULE Outbox -------------------------------
(***************************************************************************)
(* What a publish at quality of service 1 or 2 promises (the doc comment of *)
(* MqttPublisher in publisher.rs): Ok means the session owns the message,   *)
(* and the session does not let go of it before the server has it, unless  *)
(* the connection task is over.  Session.tla implements it.                *)
(***************************************************************************)
EXTENDS Naturals

CONSTANT Messages

VARIABLES
  status,     \* status[m]: where the publish of m is
  received,   \* received[m]: how many times the server was given m
  over        \* the connection task does not send any more

Statuses == {"idle", "accepted", "refused", "confirmed"}

Init ==
  /\ status = [m \in Messages |-> "idle"]
  /\ received = [m \in Messages |-> 0]
  /\ over = FALSE

Move(m, from, to) ==
  /\ status[m] = from
  /\ status' = [status EXCEPT ![m] = to]
  /\ UNCHANGED <<received, over>>

Receive(m) ==
  /\ ~over
  /\ status[m] = "accepted"
  /\ received' = [received EXCEPT ![m] = @ + 1]
  /\ UNCHANGED <<status, over>>

Confirm(m) == ~over /\ received[m] > 0 /\ Move(m, "accepted", "confirmed")

Stop == ~over /\ over' = TRUE /\ UNCHANGED <<status, received>>

Next ==
  \/ \E m \in Messages : \/ Move(m, "idle", "accepted") \/ Move(m, "idle", "refused")
                         \/ Receive(m) \/ Confirm(m)
  \/ Stop

Spec == Init /\ [][Next]_<<status, received, over>>
=============================================================================
