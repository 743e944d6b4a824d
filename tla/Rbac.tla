------------------------------- MODULE Rbac -------------------------------
(***************************************************************************)
(* The API's RBAC engine (package rbac): Authorize over the policies the   *)
(* Engine holds, with matchesSubject, inScope, roleRank, rolePermits and   *)
(* matchGlob.  Evaluation changes no state, so the engine is a set of      *)
(* operators applied to every request of a bounded set.                    *)
(*                                                                         *)
(* Strings are sequences of tokens, "" is <<>>, and a glob pattern is a    *)
(* string whose last token may be "*": matchGlob only knows "*" and a      *)
(* trailing "*", so a prefix is matched token by token.                    *)
(***************************************************************************)
EXTENDS Sequences, SequencesExt, FiniteSets

CONSTANT NoUser  \* model value: Authorize called with a nil user

ViewActions == {"agents:view", "runs:view", "inventory:view", "audit:view"}

\* the Action constants
Actions ==
  ViewActions \cup {"agents:run", "runs:abort", "approvals:decide",
                    "inventory:manage", "config:write", "chat:use"}

\* roleRank: unknown roles rank 0
RoleRank(r) ==
  CASE r = "viewer" -> 1 [] r = "operator" -> 2 [] r = "admin" -> 3 [] OTHER -> 0

\* rolePermits: admin everything, operator the view actions and running,
\* aborting, approving and chat, viewer the view actions, others nothing
RolePermits(r, a) ==
  \/ r = "admin"
  \/ r = "operator" /\ a \in ViewActions \cup {"agents:run", "runs:abort", "approvals:decide", "chat:use"}
  \/ r = "viewer" /\ a \in ViewActions

\* matchGlob
MatchGlob(s, pattern) ==
  IF pattern = <<"*">> THEN TRUE
  ELSE IF pattern # <<>> /\ Last(pattern) = "*" THEN IsPrefix(Front(pattern), s)
  ELSE s = pattern

\* matchesSubject: any matcher of the policy matches the user; email and
\* groups by glob, the subject exactly, any other claim by its formatted
\* value (claim values are given already formatted)
MatchesSubject(user, subjects) ==
  \E s \in subjects :
    CASE s.claim = "email" -> MatchGlob(user.email, s.value)
      [] s.claim \in {"sub", "subject"} -> user.sub = s.value
      [] s.claim \in {"groups", "group"} -> \E g \in user.groups : MatchGlob(g, s.value)
      [] OTHER -> s.claim \in DOMAIN user.claims /\ user.claims[s.claim] = s.value

\* inScope: no restriction at all is everything; otherwise the resource
\* matches a pattern of the agents, the tags or the namespaces
InScope(scope, resource) ==
  \/ scope.agents = {} /\ scope.tags = {} /\ scope.namespaces = {}
  \/ \E p \in scope.agents \cup scope.tags \cup scope.namespaces : MatchGlob(resource, p)

Decision(allowed, reason, scope) == [allowed |-> allowed, reason |-> reason, scope |-> scope]

NoScope == [agents |-> {}, tags |-> {}, namespaces |-> {}]

BestOfFirst(matched) == matched[1] \* mutant: the first matching policy, whatever its rank

\* the loop's bestPolicy: the first matched policy of the highest rank (a
\* later one replaces it only with a strictly higher rank)
BestOf(matched) ==
  matched[CHOOSE i \in DOMAIN matched :
            /\ \A j \in DOMAIN matched : RoleRank(matched[j].role) <= RoleRank(matched[i].role)
            /\ \A j \in 1..(i - 1) : RoleRank(matched[j].role) < RoleRank(matched[i].role)]

AuthorizeAnyPolicy(policies, user, action, resource) == \* mutant: the best policy is taken from every policy, matched or not
  IF user = NoUser THEN Decision(FALSE, "no user", NoScope)
  ELSE IF SelectSeq(policies, LAMBDA p : MatchesSubject(user, p.subjects)) = <<>>
  THEN Decision(FALSE, "no policy", NoScope)
  ELSE LET best == BestOf(policies) IN
       IF ~RolePermits(best.role, action) THEN Decision(FALSE, "role", NoScope)
       ELSE IF resource # <<>> /\ ~InScope(best.scope, resource) THEN Decision(FALSE, "scope", NoScope)
       ELSE Decision(TRUE, "permitted", best.scope)

\* Authorize: a nil user, no matching policy, a role that does not permit
\* the action and a resource outside the best policy's scope are denied,
\* in that order; an empty resource skips the scope check
Authorize(policies, user, action, resource) ==
  LET matched == SelectSeq(policies, LAMBDA p : MatchesSubject(user, p.subjects)) IN
  IF user = NoUser THEN Decision(FALSE, "no user", NoScope)
  ELSE IF matched = <<>> THEN Decision(FALSE, "no policy", NoScope)
  ELSE LET best == BestOf(matched) IN
       IF ~RolePermits(best.role, action) THEN Decision(FALSE, "role", NoScope)
       ELSE IF resource # <<>> /\ ~InScope(best.scope, resource) THEN Decision(FALSE, "scope", NoScope)
       ELSE Decision(TRUE, "permitted", best.scope)
=============================================================================
