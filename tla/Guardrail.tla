------------------------------ MODULE Guardrail ------------------------------
(***************************************************************************)
(* The action pipeline of one run (spec 4.3 and 4.5): every proposed call   *)
(* is classified by its tool (module Classifier), and the run's frozen      *)
(* autonomy ceiling allows, blocks or escalates it; an escalation runs      *)
(* EscalationEngine.Escalate (module Escalation) and its result decides     *)
(* whether the proposed call is dispatched.  Under an approval mode a call  *)
(* the mode gates opens an ApprovalRequest instead (module Approval), and  *)
(* only an Approved answer dispatches it.  The engine itself is not under  *)
(* src/; the ceiling table and the approval modes are the spec's.          *)
(***************************************************************************)
EXTENDS Integers

CONSTANTS
  AwsServices, AwsCommands, AzGroups, AzCommands,          \* Classifier
  Configs, NoEscalation, EnvChannels, Durations, DefaultTicks, \* Escalation
  Autonomies,  \* autonomy levels an agent may be given
  ApprovalModes, ApprovalTicks,                             \* Approval
  MaxProposals \* bound on the calls one run proposes

VARIABLES
  call, verdict,                                      \* Classifier
  cfg, pc, timeout, elapsed, ctxDone, result, accepted,  \* Escalation
  request, mpc, waited, readRV, outcome,              \* Approval
  mode,        \* the run's approval mode, frozen at admission
  autonomy,    \* the run's ceiling, frozen at admission
  gate,        \* "idle" | "escalating" | "approving"
  pending,     \* the call under escalation
  latched,     \* the run latched Blocked (cancel policy)
  dispatched,  \* history: every call dispatched, with its key and why
  proposals    \* calls proposed so far

C == INSTANCE Classifier
E == INSTANCE Escalation
A == INSTANCE Approval

cvars == <<call, verdict>>
evars == <<cfg, pc, timeout, elapsed, ctxDone, result, accepted>>
avars == <<request, mpc, waited, readRV, outcome>>
gvars == <<autonomy, mode, gate, pending, latched, dispatched, proposals>>
vars == <<cvars, evars, avars, gvars>>

----------------------------------------------------------------------------
\* AutonomyLevel: the enum GuardrailsSpec.autonomy is validated against
AutonomyLevels == {"observe", "recommend", "automate-safe", "automate-destructive"}

\* Spec 4.3's autonomy table: the decision for an unblocked tier
Ceiling(a, tier) ==
  CASE tier = C!TierRead -> "allow"
    [] a \in {"observe", "recommend"} -> "block"
    [] tier = C!TierServiceMutation -> "allow"
    [] tier = C!TierDestructiveMutation /\ a = "automate-safe" -> "escalate"
    [] tier = C!TierDestructiveMutation -> "allow"
    [] OTHER -> "block"

\* a classification marked Blocked is blocked before the ceiling is consulted
Decide(a, v) == IF v.blocked THEN "block" ELSE Ceiling(a, v.tier)

\* GuardrailsSpec.approvalMode (plan-first is left out: what counts as
\* the plan is not defined)
ApprovalModeValues == {"none", "mutation-gate", "every-action"}

\* The approval modes: mutation-gate gates what exceeds the ceiling,
\* every-action every call that is not a read; a Blocked call is never
\* offered for approval.
NeedsApproval(m, a, v) ==
  /\ ~v.blocked
  /\ \/ m = "mutation-gate" /\ Ceiling(a, v.tier) # "allow"
     \/ m = "every-action" /\ v.tier # C!TierRead

\* The reasoning loop proposes a call while the run is live: the tool
\* classifies it, and it opens an approval or the ceiling decides it.
Propose ==
  /\ gate = "idle" /\ ~latched /\ ~ctxDone
  /\ proposals < MaxProposals
  /\ proposals' = proposals + 1
  /\ C!Next
  /\ LET d == Decide(autonomy, verdict') IN
       CASE NeedsApproval(mode, autonomy, verdict') ->
              /\ gate' = "approving" /\ pending' = call'
              /\ A!Create(A!ProposedAction(call', verdict'.tier))
              /\ UNCHANGED <<dispatched, evars>>
         [] d = "allow" ->
              /\ dispatched' = dispatched \cup
                   {[call |-> call', via |-> "ceiling", tier |-> verdict'.tier]}
              /\ UNCHANGED <<gate, pending, evars, avars>>
         [] d = "escalate" ->
              /\ gate' = "escalating" /\ pending' = call'
              /\ pc' = "start" /\ timeout' = 0 /\ elapsed' = 0
              /\ result' = E!NoResult /\ accepted' = FALSE
              /\ UNCHANGED <<dispatched, cfg, ctxDone, avars>>
         [] OTHER ->
              UNCHANGED <<gate, pending, dispatched, evars, avars>>
  /\ UNCHANGED <<autonomy, mode, latched>>

\* One step of Escalate while an escalation is open.
Escalating ==
  /\ gate = "escalating"
  /\ E!Skip \/ E!Send \/ E!Tick \/ E!Cancelled \/ E!TimedOut
  /\ UNCHANGED <<cvars, avars, gvars>>

\* One step of RequestApproval while an approval is open.
Approving ==
  /\ gate = "approving"
  /\ A!Poll \/ A!Expire \/ A!Cancelled
  /\ UNCHANGED <<cvars, cfg, pc, timeout, elapsed, result, accepted, gvars>>

\* A human decides the Pending record, while or after the run waits.
Approver ==
  /\ \E p \in {"Approved", "Denied"} : A!Decide(p)
  /\ UNCHANGED <<cvars, cfg, pc, timeout, elapsed, result, accepted, gvars>>

\* The run's context is cancelled (drain, deadline, abort).
Cancel ==
  /\ E!Cancel
  /\ UNCHANGED <<cvars, avars, gvars>>

\* Escalate returned: proceed dispatches the call once, cancel latches
\* Blocked, retry and an empty or cancelled result dispatch nothing.
Resolve ==
  /\ gate = "escalating" /\ pc = "done"
  /\ dispatched' = IF result.policy = "proceed"
                   THEN dispatched \cup {[call |-> pending, via |-> "proceed", tier |-> verdict.tier]}
                   ELSE dispatched
  /\ latched' = (latched \/ result.policy = "cancel")
  /\ gate' = "idle"
  /\ UNCHANGED <<cvars, evars, avars, autonomy, mode, pending, proposals>>

\* RequestApproval returned: Approved dispatches the call, Denied drops
\* it, and Expired (timeout or cancellation) ends the loop Escalated.
ResolveApproval ==
  /\ gate = "approving" /\ mpc = "idle"
  /\ dispatched' = IF outcome = "Approved"
                   THEN dispatched \cup {[call |-> pending, via |-> "approval", tier |-> verdict.tier]}
                   ELSE dispatched
  /\ latched' = (latched \/ outcome = "Expired")
  /\ gate' = "idle"
  /\ UNCHANGED <<cvars, evars, avars, autonomy, mode, pending, proposals>>

\* The loop has ended: the run latched Blocked or Escalated, was
\* cancelled, or proposed its last call.
Ended ==
  /\ gate = "idle"
  /\ latched \/ ctxDone \/ proposals = MaxProposals
  /\ UNCHANGED vars

Init ==
  /\ C!Init
  /\ cfg \in Configs \cup {NoEscalation}
  /\ pc = "done" /\ timeout = 0 /\ elapsed = 0 /\ ctxDone = FALSE
  /\ result = E!NoResult /\ accepted = FALSE
  /\ A!Init
  /\ autonomy \in Autonomies /\ mode \in ApprovalModes
  /\ gate = "idle" /\ pending = C!NoCall /\ latched = FALSE /\ dispatched = {}
  /\ proposals = 0

Next == Propose \/ Escalating \/ Approving \/ Approver \/ Cancel \/ Resolve
          \/ ResolveApproval \/ Ended

\* Go's runtime runs the escalation and approval goroutines and fires
\* their timers, and the pipeline acts on what they return; the loop need
\* not propose and no human need ever decide.
Fairness ==
  /\ WF_vars(Escalating)
  /\ WF_vars(Approving)
  /\ WF_vars(Resolve)
  /\ WF_vars(ResolveApproval)

Spec == Init /\ [][Next]_vars /\ Fairness

----------------------------------------------------------------------------
TypeOK ==
  /\ C!TypeOK /\ E!TypeOK
  /\ autonomy \in Autonomies /\ Autonomies \subseteq AutonomyLevels
  /\ A!TypeOK /\ mode \in ApprovalModes /\ ApprovalModes \subseteq ApprovalModeValues
  /\ gate \in {"idle", "escalating", "approving"} /\ latched \in BOOLEAN
  /\ \A d \in dispatched : d.via \in {"ceiling", "proceed", "approval"}

\* Spec 4.3: each proposed call carries the strongest tier its tool's
\* tables give its key, and exactly the data mutations are Blocked.
ClassifiesHighestTier == C!ClassifiesHighestTier

\* Spec 4.3 and 8: data mutation is always blocked: no call whose key is
\* in its tool's data-mutation table is ever dispatched, whether by the
\* ceiling or by an escalation's proceed policy.
DataNeverDispatched ==
  \A d \in dispatched : C!TableTier[1] \notin C!Listed(d.call.tool, d.call.key)

\* Spec 4.5: every escalation is resolved, and the loop goes on or ends.
EscalationResolves == gate = "escalating" ~> gate = "idle"

\* Spec 4.4: RequestApproval implements ApprovalWait: a record leaves
\* Pending once, so a late Expired update never overwrites a human's
\* decision, and Approved is answered only for an Approved record.
ApprovalRefines == A!AW!Spec

\* Spec 4.4: the manager never blocks indefinitely: every approval wait is
\* answered, by a decision, by the timeout or by cancellation, whether or
\* not a human ever acts.
ApprovalAnswered == gate = "approving" ~> gate = "idle"
=============================================================================
