----------------------------- MODULE ToolPermissions -----------------------------
(***************************************************************************)
(* What PermissionRuntime.decide answers for a tool call, from the         *)
(* attributes of the tool, the session's permission mode and the rules.    *)
(* A kind of call is a tool with the class of its input: "read" stands for *)
(* every tool that only reads, "web" for the ones among them that ask,     *)
(* "mcp" for the changing tools of an MCP server; "write" and "write_plan" *)
(* are write_file outside and inside the plan directory, "bash" and        *)
(* "danger" a changing and a dangerous shell command.                      *)
(***************************************************************************)

CONSTANTS
  UserAllow, UserDeny, UserAsk   \* tools that the user's own rules name

Mode == {"default", "plan", "acceptEdits", "bypassPermissions", "dontAsk"}

Kind == {"read", "web", "mcp", "todo_write", "enter_plan_mode", "exit_plan_mode", "agent",
         "bash", "danger", "write", "write_plan", "task_create", "task_stop"}

\* The tool of a kind of call, which is what rules name.
ToolName(k) ==
  CASE k = "write_plan" -> "write"
    [] k = "danger" -> "bash"
    [] OTHER -> k

Tool == {ToolName(k) : k \in Kind}

ReadOnly == {"read", "web", "todo_write", "enter_plan_mode", "exit_plan_mode"}

\* isConcurrencySafe: these calls of a batch run side by side.
ConcurrencySafe == Kind \ {"mcp", "agent", "bash", "danger", "write", "write_plan"}

\* The file tools, and isPlanDirectoryWrite.
Filesystem == {"write", "write_plan"}
PlanDirectory == {"write_plan"}

ASSUME RulesAssumption ==
  UserAllow \subseteq Tool /\ UserDeny \subseteq Tool /\ UserAsk \subseteq Tool

\* checkPermissions of the tool, "none" when it has no opinion.
OwnWish(k) ==
  CASE k \in {"web", "bash"} -> "ask"
    [] k = "agent" -> "allow"
    [] k = "danger" -> "deny"
    [] OTHER -> "none"

\* What plan mode lets a tool do.
PlanAllows(k) == k \in ReadOnly \cup PlanDirectory

\* A call that may change something: a subagent launched in plan mode only explores.
Alters(k, mode) == k \notin ReadOnly /\ ~(k = "agent" /\ mode = "plan")

\* finalizeAsk
FinalAsk(mode) ==
  CASE mode = "bypassPermissions" -> "allow"
    [] mode = "dontAsk" -> "deny"
    [] OTHER -> "ask"

\* decideByMode, and bypassPermissions before it
DecideByMode(k, mode) ==
  CASE mode = "bypassPermissions" -> "allow"
    [] mode = "plan" -> IF PlanAllows(k) THEN "allow" ELSE "deny"
    [] mode = "acceptEdits" /\ k \in Filesystem -> "allow"
    [] k \in ReadOnly -> "allow"
    [] OTHER -> FinalAsk(mode)

\* The tool's own wish to ask.
DecideOwnAsk(k, mode) ==
  CASE mode = "bypassPermissions" -> "allow"
    [] mode = "plan" /\ k \in ReadOnly -> "allow"
    [] mode = "plan" /\ k \notin PlanDirectory -> "deny"
    [] OTHER -> FinalAsk(mode)

\* The tool's own verdict, or else the mode's.
DecideOwn(k, mode) ==
  CASE OwnWish(k) = "ask" -> DecideOwnAsk(k, mode)
    [] OwnWish(k) = "none" -> DecideByMode(k, mode)
    [] OTHER -> OwnWish(k)

\* allowSessionRule: only a refusal of the tool itself stands against it.
DecideBySession(k) == IF OwnWish(k) = "deny" THEN "deny" ELSE "allow"

AllowRuleHolds_InPlan(k, mode) == ToolName(k) \in UserAllow
\* A rule of the user allows the tool; plan mode has a say before it.
AllowRuleHolds(k, mode) == ToolName(k) \in UserAllow /\ (mode = "plan" => PlanAllows(k))

\* "remembered": the tools with a session rule, from an "allow and remember".
Decide(k, mode, remembered) ==
  LET t == ToolName(k)
  IN CASE t \in remembered /\ (t \in UserDeny \/ t \notin UserAsk) -> DecideBySession(k)
       [] t \in UserDeny \ remembered -> "deny"
       [] t \in UserAsk \ UserDeny -> FinalAsk(mode)
       [] t \notin remembered \cup UserDeny \cup UserAsk /\ AllowRuleHolds(k, mode) -> "allow"
       [] OTHER -> DecideOwn(k, mode)
=============================================================================
