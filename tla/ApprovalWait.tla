---------------------------- MODULE ApprovalWait ----------------------------
(***************************************************************************)
(* What an approval promises its caller (spec 4.4), with no polling, no    *)
(* clock and no record versions: a request is opened Pending, leaves       *)
(* Pending at most once (a human decides it, or the timeout expires it),   *)
(* and the caller is answered once per request.  An Approved or Denied     *)
(* answer is the record's decision; Expired may be answered at any time    *)
(* (timeout or cancellation), whatever the record then says.               *)
(***************************************************************************)

VARIABLES
  phase,   \* the current request's phase: "None" before the first request
  outcome  \* the caller's answer: "none", "waiting" or a returned phase

vars == <<phase, outcome>>

Answers == {"Approved", "Denied", "Expired"}

\* A new request is opened once the previous one was answered.
Open ==
  /\ outcome # "waiting"
  /\ phase' = "Pending" /\ outcome' = "waiting"

\* A human decides a Pending request.
Decide(p) ==
  /\ phase = "Pending" /\ p \in {"Approved", "Denied"}
  /\ phase' = p
  /\ UNCHANGED outcome

\* The timeout marks a still-Pending request Expired and answers Expired.
TimeOut ==
  /\ phase = "Pending" /\ outcome = "waiting"
  /\ phase' = "Expired" /\ outcome' = "Expired"

\* The caller is answered without a write.
Answer(o) ==
  /\ outcome = "waiting" /\ o \in Answers
  /\ o \in {"Approved", "Denied"} => phase = o
  /\ outcome' = o
  /\ UNCHANGED phase

Init == phase = "None" /\ outcome = "none"

Next == Open \/ TimeOut \/ \E p \in Answers : Decide(p) \/ Answer(p)

Spec == Init /\ [][Next]_vars
=============================================================================
