------------------------------ MODULE Approval ------------------------------
(***************************************************************************)
(* The approval manager's RequestApproval (spec 4.4) against the            *)
(* ApprovalRequest record of api/v1alpha1.  The manager creates the record *)
(* Pending, then polls it: Approved or Denied is returned; once the        *)
(* timeout has elapsed the record it last read is updated to Expired by    *)
(* "system" and Expired is returned; a cancelled context returns Expired   *)
(* with no write.  A human decides a Pending record by a status update.    *)
(* Every update carries the resourceVersion it was read at, and the store  *)
(* refuses a stale one.  The manager's code is not under src/: its steps  *)
(* follow the spec and the manager's tests.                                *)
(***************************************************************************)
EXTENDS Naturals

CONSTANTS
  ApprovalTicks  \* the request's timeout, in poll intervals

VARIABLES
  request,  \* the record: [phase, decidedBy, rv, action]
  mpc,      \* the manager: "idle" | "polling" | "expiring"
  waited,   \* poll intervals since the record was created
  readRV,   \* resourceVersion of the record the last poll read
  outcome,  \* RequestApproval's answer: "none" | "waiting" | a phase
  ctxDone   \* the caller's context is cancelled

avars == <<request, mpc, waited, readRV, outcome>>

----------------------------------------------------------------------------
\* ApprovalRequestPhase
ApprovalPhases == {"Pending", "Approved", "Denied", "Expired"}

\* ProposedAction: the tool, the tier and the target of the call
ProposedAction(call, tier) == [tool |-> call.tool, tier |-> tier, target |-> call.key]

\* ApprovalRequest before the first request: no record exists
NoRequest == [phase |-> "None", decidedBy |-> "", rv |-> 0, action |-> "none"]

\* ApprovalRequest as created: the proposed action in its spec, and the
\* status at its default phase Pending, undecided
NewApprovalRequest(action) ==
  [phase |-> "Pending", decidedBy |-> "", rv |-> 1, action |-> action]

\* RequestApproval creates the record and starts to poll it.
Create(action) ==
  /\ mpc = "idle"
  /\ request' = NewApprovalRequest(action)
  /\ mpc' = "polling" /\ waited' = 0 /\ readRV' = 0 /\ outcome' = "waiting"

\* A human approves or denies a Pending record (Status().Update).
Decide(p) ==
  /\ request.phase = "Pending" /\ p \in {"Approved", "Denied"}
  /\ request' = [request EXCEPT !.phase = p, !.decidedBy = "human", !.rv = @ + 1]
  /\ UNCHANGED <<mpc, waited, readRV, outcome, ctxDone>>

PollNoTick == \* mutant: the wait loop never counts the intervals it slept
  /\ mpc = "polling" /\ ~ctxDone
  /\ IF request.phase \in {"Approved", "Denied"}
       THEN outcome' = request.phase /\ mpc' = "idle" /\ UNCHANGED readRV
       ELSE UNCHANGED <<mpc, readRV, outcome>>
  /\ UNCHANGED <<request, waited, ctxDone>>

\* One poll: the record is read; a decision is returned; past the
\* deadline the manager goes on to expire what it read; otherwise it
\* sleeps one interval.
Poll ==
  /\ mpc = "polling" /\ ~ctxDone
  /\ CASE request.phase \in {"Approved", "Denied"} ->
            outcome' = request.phase /\ mpc' = "idle" /\ UNCHANGED <<waited, readRV>>
       [] waited = ApprovalTicks ->
            mpc' = "expiring" /\ readRV' = request.rv /\ UNCHANGED <<waited, outcome>>
       [] OTHER ->
            waited' = waited + 1 /\ UNCHANGED <<mpc, readRV, outcome>>
  /\ UNCHANGED <<request, ctxDone>>

ExpireBlind == \* mutant: the update ignores the version it read
  /\ mpc = "expiring"
  /\ request' = [request EXCEPT !.phase = "Expired", !.decidedBy = "system", !.rv = @ + 1]
  /\ outcome' = "Expired" /\ mpc' = "idle"
  /\ UNCHANGED <<waited, readRV, ctxDone>>

\* The deadline passed: the record read is updated to Expired by
\* "system" (refused if a decision landed since the read) and Expired is
\* returned either way.
Expire ==
  /\ mpc = "expiring"
  /\ request' = IF request.rv = readRV
                THEN [request EXCEPT !.phase = "Expired", !.decidedBy = "system", !.rv = @ + 1]
                ELSE request
  /\ outcome' = "Expired" /\ mpc' = "idle"
  /\ UNCHANGED <<waited, readRV, ctxDone>>

\* The caller's context is done: Expired is returned and nothing written.
Cancelled ==
  /\ mpc \in {"polling", "expiring"} /\ ctxDone
  /\ outcome' = "Expired" /\ mpc' = "idle"
  /\ UNCHANGED <<request, waited, readRV, ctxDone>>

Init ==
  /\ request = NoRequest /\ mpc = "idle" /\ waited = 0 /\ readRV = 0
  /\ outcome = "none"

----------------------------------------------------------------------------
TypeOK ==
  /\ request.phase \in ApprovalPhases \cup {"None"}
  /\ request.decidedBy \in {"", "human", "system"}
  /\ mpc \in {"idle", "polling", "expiring"}
  /\ waited \in 0..ApprovalTicks
  /\ outcome \in {"none", "waiting"} \cup (ApprovalPhases \ {"Pending"})

\* The manager and the record implement ApprovalWait: phase is the
\* record's, outcome the manager's answer.
AW == INSTANCE ApprovalWait WITH phase <- request.phase, outcome <- outcome
=============================================================================
