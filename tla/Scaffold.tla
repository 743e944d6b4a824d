------------------------------ MODULE Scaffold ------------------------------
(***************************************************************************)
(* The `legator init` wizard (cmd/legator, handleInit): eight prompts, each *)
(* answered by a line of stdin or left to its default, then a directory    *)
(* and four files written one after the other, any of which may fail and  *)
(* end the process with os.Exit(1), leaving what was written before it.    *)
(*                                                                         *)
(* A generated file is the record of what its YAML or Markdown says, not   *)
(* its text: the properties are about which tools, actions and             *)
(* credentials the files name.  The disk is a function from paths         *)
(* <<dir, file>> to the content last written there; os.WriteFile          *)
(* truncates, so a write replaces what an earlier init left.               *)
(***************************************************************************)
EXTENDS Sequences, SequencesExt, FiniteSets

\* strings.TrimSpace of a line of stdin: a line of blanks (" ") is empty
TrimSpace(input) == IF input = " " THEN "" ELSE input

\* prompt: the trimmed answer, or the default when it is empty (also at
\* EOF, where ReadString returns "")
prompt(input, defaultVal) ==
  IF TrimSpace(input) = "" THEN defaultVal ELSE TrimSpace(input)

\* the eight prompts' defaults
Defaults ==
  [name |-> "my-agent", description |-> "Autonomous agent", namespace |-> "agents",
   autonomy |-> "observe", schedule |-> "0 * * * *", modelTier |-> "standard",
   domain |-> "kubernetes", skill |-> "cluster-health"]

\* the answers handleInit works with, from one line of input per prompt
Answers(input) == [f \in DOMAIN Defaults |-> prompt(input[f], Defaults[f])]

ToolsForDomainHttpPost(domain) == \* mutant: the http list names only http.post
  CASE domain = "ssh" -> <<"ssh.exec">>
    [] domain = "http" -> <<"http.post">>
    [] domain = "sql" -> <<"sql.query">>
    [] domain = "dns" -> <<"dns.query", "dns.reverse">>
    [] OTHER -> <<"kubectl.get", "kubectl.describe", "kubectl.logs">>

\* toolsForDomain: the allowedTools of agent.yaml; any other domain gets
\* the kubernetes list
toolsForDomain(domain) ==
  CASE domain = "ssh" -> <<"ssh.exec">>
    [] domain = "http" -> <<"http.get", "http.post">>
    [] domain = "sql" -> <<"sql.query">>
    [] domain = "dns" -> <<"dns.query", "dns.reverse">>
    [] OTHER -> <<"kubectl.get", "kubectl.describe", "kubectl.logs">>

\* generateAgentYAML: the answers substituted verbatim, fixed guardrails,
\* and the skill and environment referred to by the agent's name
generateAgentYAML(a) ==
  [kind |-> "LegatorAgent", name |-> a.name, namespace |-> a.namespace,
   description |-> a.description, cron |-> a.schedule, modelTier |-> a.modelTier,
   autonomy |-> a.autonomy, maxIterations |-> 10, tokenBudget |-> 32000,
   approvalMode |-> "none", allowedTools |-> toolsForDomain(a.domain),
   skillSource |-> <<"configmap://", a.name, "-skill">>,
   environmentRef |-> <<a.name, "-env">>]

\* a credential entry of environment.yaml
Credential(key, type) == [key |-> key, type |-> type]

\* generateEnvironmentYAML: ssh declares an SSH key and sql a Vault
\* database credential; the http endpoints key holds only a comment, so it
\* parses as null; everything else is the empty map
generateEnvironmentYAML(a) ==
  [kind |-> "LegatorEnvironment", name |-> <<a.name, "-env">>,
   namespace |-> a.namespace, cluster |-> "local",
   endpoints |-> IF a.domain = "http" THEN "null" ELSE "{}",
   credentials |->
     CASE a.domain = "ssh" -> {Credential("ssh-key", "ssh-private-key")}
       [] a.domain = "sql" -> {Credential("database", "vault-database")}
       [] OTHER -> {}]

\* generateSkillMD: the bundled template's title, the tools its checks
\* instruct the agent to use, and its budget directive ("N" in the custom
\* template); an unknown skill is cluster-health.  The domain is not read.
generateSkillMD(a) ==
  CASE a.skill = "pod-restart-monitor" ->
         [title |-> "Pod Restart Monitor", uses |-> "kubectl", budget |-> 5]
    [] a.skill = "certificate-expiry" ->
         [title |-> "Certificate Expiry Monitor", uses |-> "kubectl", budget |-> 5]
    [] a.skill = "server-health" ->
         [title |-> "Server Health Monitor", uses |-> "ssh", budget |-> 6]
    [] a.skill = "custom" ->
         [title |-> a.name, uses |-> "none", budget |-> "N"]
    [] OTHER ->
         [title |-> "Cluster Health Monitor", uses |-> "kubectl", budget |-> 7]

\* an entry of the action sheet
Action(name, tool) == [name |-> name, tool |-> tool, tier |-> "read"]

\* generateActionsYAML: read-tier actions for the domain's tools; any
\* other domain gets the kubernetes sheet.  The skill is not read.
generateActionsYAML(a) ==
  CASE a.domain = "ssh" ->
         <<Action("check-disk", "ssh.exec"), Action("check-memory", "ssh.exec"),
           Action("check-services", "ssh.exec"), Action("check-logs", "ssh.exec")>>
    [] a.domain = "http" ->
         <<Action("health-check", "http.get"), Action("api-query", "http.get")>>
    [] a.domain = "sql" ->
         <<Action("query-health", "sql.query"), Action("query-data", "sql.query")>>
    [] a.domain = "dns" ->
         <<Action("dns-lookup", "dns.query"), Action("reverse-lookup", "dns.reverse")>>
    [] OTHER ->
         <<Action("list-pods", "kubectl.get"), Action("describe-resource", "kubectl.describe"),
           Action("get-logs", "kubectl.logs")>>

\* the files handleInit writes, in the order it writes them
Files == <<"agent.yaml", "environment.yaml", "skill/SKILL.md", "skill/actions.yaml">>

\* the content of each file for one set of answers
Generated(a) ==
  <<generateAgentYAML(a), generateEnvironmentYAML(a), generateSkillMD(a), generateActionsYAML(a)>>

\* the output directory: the first argument, else the agent's name
OutputDir(args, a) == IF args = <<>> THEN a.name ELSE Head(args)

\* the position of a file in the write order
Position(file) == CHOOSE i \in DOMAIN Files : Files[i] = file

\* writeFile of the first n files into dir, each replacing what was there
WriteFirst(disk, dir, content, n) ==
  [p \in {<<dir, Files[i]>> : i \in 1..n} |-> content[Position(p[2])]] @@ disk

\* handleInit for one invocation.  `fail` is where it stops: "none", the
\* MkdirAll of dir/skill (nothing written), or the write of a file (the
\* files before it written).  The result is the disk and the exit status.
handleInit(disk, args, input, fail) ==
  LET a == Answers(input)
      dir == OutputDir(args, a)
      n == IF fail = "none" THEN Len(Files)
           ELSE IF fail = "mkdir" THEN 0
           ELSE Position(fail) - 1
  IN [disk |-> WriteFirst(disk, dir, Generated(a), n),
      exit |-> IF fail = "none" THEN 0 ELSE 1]

\* the places an invocation may stop
FailPoints == {"none", "mkdir"} \cup Range(Files)

\* a sequence of invocations, each [args, input, fail], run one after the
\* other on the same disk, starting from an empty one
RECURSIVE RunAll(_, _)
RunAll(disk, invocations) ==
  IF invocations = <<>> THEN disk
  ELSE LET i == Head(invocations)
       IN RunAll(handleInit(disk, i.args, i.input, i.fail).disk, Tail(invocations))
=============================================================================
