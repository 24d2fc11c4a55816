-------------------------------- MODULE ToolBatch --------------------------------
(***************************************************************************)
(* The tool calls of one session: AgentLoop asks ConcurrentToolScheduler   *)
(* for the calls of a model's answer and applies the results, ToolRuntime  *)
(* takes each call through its checks, the permission prompt and the tool, *)
(* and the tools change what the checks read: the permission mode, the     *)
(* todo list of an approved plan (PlanTodoState), the session's allow      *)
(* rules and the background tasks. An action runs from one await to the    *)
(* next.                                                                   *)
(***************************************************************************)
EXTENDS ToolPermissions, BackgroundTasks, Sequences

CONSTANTS
  Slot,         \* calls that exist at a time
  Batches,      \* what the model may answer: sequences of tools
  InitialMode,  \* permission mode the session is created with
  UserModes,    \* modes that a turn may be submitted with
  None,         \* no mode, no task
  MaxTurns,     \* bound: turns
  MaxBatches,   \* bound: answers with tool calls
  MaxThrows     \* bound: exceptions outside the try of ToolRuntime.execute

ASSUME BatchAssumption ==
  /\ Slot \subseteq Nat /\ IsFiniteSet(Slot)
  /\ \A b \in Batches : b \in Seq(Kind) /\ Len(b) > 0
  /\ InitialMode \in Mode /\ UserModes \subseteq Mode
  /\ None \notin Mode \cup BgTask \cup Kind
  /\ MaxTurns \in Nat /\ MaxBatches \in Nat /\ MaxThrows \in Nat

VARIABLES
  mode,         \* config.permissionMode, and permissionContext.mode with it
  savedMode,    \* config.permissionModeBeforePlan
  plan,         \* PlanTodoState: none approved, unlisted, listed or stale
  remembered,   \* tools that the user has allowed for the session
  phase,        \* where the loop of the turn stands
  aborted,      \* the turn's abort signal
  batch,        \* the slots of the batch, in the order of its calls
  applied,      \* how many of its results have been applied
  kind,         \* Slot -> the tool that is called
  batchMode,    \* Slot -> the mode when its batch was asked for
  st,           \* Slot -> where the call stands
  target,       \* Slot -> the background task that a task_stop waits for
  turns, batches, throws

configVars == <<mode, savedMode>>
loopVars   == <<phase, aborted, batch, applied>>
callVars   == <<kind, batchMode, st, target>>
countVars  == <<turns, batches, throws>>
vars == <<configVars, plan, remembered, loopVars, callVars, bg, countVars>>

InFlight == {"begun", "asking", "allowed", "running"}
\* "toPlan" and "toDefault" are successes whose data has that requestedMode.
Final == {"ok", "failed", "toPlan", "toDefault"}

InBatch == {batch[i] : i \in 1..Len(batch)}
\* Calls of a batch that was given up, which nobody waits for.
Strays == {s \in Slot \ InBatch : st[s] # "free"}
Owed == plan \in {"unlisted", "stale"}

TypeOK ==
  /\ BgTypeOK
  /\ mode \in Mode /\ savedMode \in Mode \cup {None}
  /\ plan \in {"none", "unlisted", "listed", "stale"}
  /\ remembered \subseteq Tool
  /\ phase \in {"idle", "model", "calls", "givenUp", "applying"}
  /\ aborted \in BOOLEAN
  /\ batch \in Seq(Slot) /\ applied \in Nat
  /\ kind \in [Slot -> Kind \cup {None}]
  /\ batchMode \in [Slot -> Mode \cup {None}]
  /\ st \in [Slot -> {"free", "queued"} \cup InFlight \cup Final]
  /\ target \in [Slot -> BgTask \cup {None}]
  /\ turns \in 0..MaxTurns /\ batches \in 0..MaxBatches /\ throws \in 0..MaxThrows

Init ==
  /\ BgInit
  /\ mode = InitialMode /\ savedMode = None
  /\ plan = "none" /\ remembered = {}
  /\ phase = "idle" /\ aborted = FALSE /\ batch = <<>> /\ applied = 0
  /\ kind = [s \in Slot |-> None] /\ batchMode = [s \in Slot |-> None]
  /\ st = [s \in Slot |-> "free"] /\ target = [s \in Slot |-> None]
  /\ turns = 0 /\ batches = 0 /\ throws = 0

---------------------------------------------------------------------------
\* The turn and its loop.

\* applyPermissionOverrides: a turn that names a mode sets it and leaves savedMode alone.
StartTurn ==
  /\ phase = "idle" /\ turns < MaxTurns
  /\ phase' = "model" /\ aborted' = FALSE /\ turns' = turns + 1
  /\ mode' \in UserModes \cup {mode}
  /\ UNCHANGED <<savedMode, plan, remembered, batch, applied, callVars, bg, batches, throws>>

Abort ==
  /\ phase # "idle" /\ ~aborted
  /\ aborted' = TRUE
  /\ UNCHANGED <<configVars, plan, remembered, phase, batch, applied, callVars, bg, countVars>>

\* The calls in "gone" are forgotten.
Forget(gone) ==
  /\ kind' = [s \in Slot |-> IF s \in gone THEN None ELSE kind[s]]
  /\ batchMode' = [s \in Slot |-> IF s \in gone THEN None ELSE batchMode[s]]
  /\ st' = [s \in Slot |-> IF s \in gone THEN "free" ELSE st[s]]
  /\ target' = [s \in Slot |-> IF s \in gone THEN None ELSE target[s]]

\* A call that waits for an answer of the user: the permission prompt, exit_plan_mode's question.
AwaitsUser(s) == st[s] = "asking" \/ (st[s] = "running" /\ kind[s] = "exit_plan_mode")

\* The turn is over, and with it every prompt of the session (rejectSession).
TurnIsOver(gone) ==
  /\ phase' = "idle" /\ batch' = <<>> /\ applied' = 0
  /\ Forget(gone \cup {s \in Slot : AwaitsUser(s)})

\* The loop goes on with the next request to the model.
NextRequest(gone) ==
  /\ phase' = "model" /\ batch' = <<>> /\ applied' = 0
  /\ Forget(gone)

EndTurn ==
  /\ phase = "model"
  /\ TurnIsOver({})
  /\ UNCHANGED <<configVars, plan, remembered, aborted, bg, countVars>>

\* executeAll: of a batch of several calls, the safe ones start at once.
Starts(k, n) == IF n > 1 /\ k \in ConcurrencySafe THEN "begun" ELSE "queued"

\* The tool that slot s calls when the calls b have the slots q.
ToolIn(b, q, s) == b[CHOOSE i \in 1..Len(b) : q[i] = s]

\* The model answers with the calls b, which get the slots q and share one snapshot of the mode.
Request(b) ==
  /\ phase = "model" /\ ~aborted /\ batches < MaxBatches
  /\ \E q \in [1..Len(b) -> {s \in Slot : st[s] = "free"}] :
       LET New == {q[i] : i \in 1..Len(b)}
       IN /\ \A i, j \in 1..Len(b) : i < j => q[i] < q[j]
          /\ batch' = q
          /\ kind' = [s \in Slot |-> IF s \in New THEN ToolIn(b, q, s) ELSE kind[s]]
          /\ st' = [s \in Slot |-> IF s \in New THEN Starts(ToolIn(b, q, s), Len(b)) ELSE st[s]]
          /\ batchMode' = [s \in Slot |-> IF s \in New THEN mode ELSE batchMode[s]]
  /\ phase' = "calls" /\ applied' = 0 /\ batches' = batches + 1
  /\ UNCHANGED <<configVars, plan, remembered, aborted, target, bg, turns, throws>>

\* All calls have their results. An aborted turn ends without looking at them.
Settle ==
  /\ phase = "calls" /\ \A s \in InBatch : st[s] \in Final
  /\ IF aborted
     THEN TurnIsOver(InBatch)
     ELSE phase' = "applying" /\ UNCHANGED <<batch, applied, callVars>>
  /\ UNCHANGED <<configVars, plan, remembered, aborted, bg, countVars>>

\* The calls of a batch that was given up which are no longer, or not yet, in flight.
Abandoned == {s \in InBatch : st[s] \notin InFlight}

\* executeAll has rejected: every call of the batch gets a failure as its result, and the
\* ones in flight go on.
GiveUp ==
  /\ phase = "givenUp"
  /\ IF aborted THEN TurnIsOver(Abandoned) ELSE NextRequest(Abandoned)
  /\ UNCHANGED <<configVars, plan, remembered, aborted, bg, countVars>>

\* The mode that the next result asks for, if it asks for one.
ApplyResult ==
  /\ phase = "applying" /\ applied < Len(batch)
  /\ applied' = applied + 1
  /\ LET result == st[batch[applied + 1]]
     IN CASE result = "toPlan" ->
               /\ mode' = "plan"
               /\ savedMode' = IF mode # "plan" THEN mode ELSE savedMode
          [] result = "toDefault" /\ mode = "plan" /\ savedMode # None ->
               mode' = savedMode /\ savedMode' = None
          [] result = "toDefault" /\ ~(mode = "plan" /\ savedMode # None) ->
               mode' = "default" /\ savedMode' = savedMode
          [] OTHER -> UNCHANGED configVars
  /\ UNCHANGED <<plan, remembered, phase, aborted, batch, callVars, bg, countVars>>

AllApplied ==
  /\ phase = "applying" /\ applied = Len(batch)
  /\ NextRequest(InBatch)
  /\ UNCHANGED <<configVars, plan, remembered, aborted, bg, countVars>>

---------------------------------------------------------------------------
\* One call.

Moves(s, where) ==
  /\ st' = [st EXCEPT ![s] = where]
  /\ UNCHANGED <<kind, batchMode, target>>

\* A call returns its result. Nobody takes the one of a stray.
Returns(s, result) == IF s \in InBatch THEN Moves(s, result) ELSE Forget({s})

MayStart_Early(i) == \A j \in 1..i - 1 : st[batch[j]] # "queued"
\* The other calls run one after the other when the safe ones are done.
MayStart(i) ==
  \A j \in 1..Len(batch) : st[batch[j]] \notin InFlight /\ (j < i => st[batch[j]] # "queued")

StartNext(i) ==
  /\ phase = "calls" /\ i \in 1..Len(batch)
  /\ st[batch[i]] = "queued" /\ MayStart(i)
  /\ Moves(batch[i], IF aborted THEN "failed" ELSE "begun")
  /\ UNCHANGED <<configVars, plan, remembered, loopVars, bg, countVars>>

GateBlocks_Once(k) == k \notin ReadOnly /\ plan = "unlisted"
\* blockingMessageFor: the list must be written before anything is changed.
GateBlocks(k) == k \notin ReadOnly /\ Owed

\* The schema, a hook or the tool refuses the input.
Refuse(s) ==
  /\ st[s] = "begun"
  /\ Returns(s, "failed")
  /\ UNCHANGED <<configVars, plan, remembered, loopVars, bg, countVars>>

\* The todo gate, then the permission.
Check(s) ==
  /\ st[s] = "begun"
  /\ LET decision == Decide(kind[s], batchMode[s], remembered)
     IN CASE GateBlocks(kind[s]) \/ decision = "deny" -> Returns(s, "failed")
          [] ~GateBlocks(kind[s]) /\ decision = "allow" -> Moves(s, "allowed")
          [] ~GateBlocks(kind[s]) /\ decision = "ask" -> Moves(s, "asking")
  /\ UNCHANGED <<configVars, plan, remembered, loopVars, bg, countVars>>

\* The user answers the permission prompt, and may want the answer remembered.
Answer(s) ==
  /\ st[s] = "asking" /\ ~aborted
  /\ \/ Moves(s, "allowed") /\ remembered' \in {remembered, remembered \cup ({ToolName(kind[s])} \ UserAllow)}
     \/ Returns(s, "failed") /\ remembered' = remembered
  /\ UNCHANGED <<configVars, plan, loopVars, bg, countVars>>

\* A prompt is dropped: its turn was aborted.
DropPrompt(s) ==
  /\ AwaitsUser(s) /\ (aborted \/ s \in Strays)
  /\ Returns(s, "failed")
  /\ UNCHANGED <<configVars, plan, remembered, loopVars, bg, countVars>>

TodoWrite(s) ==
  /\ st[s] = "allowed" /\ kind[s] = "todo_write"
  /\ plan' = IF plan = "none" THEN "none" ELSE "listed"
  /\ Returns(s, "ok")
  /\ UNCHANGED <<configVars, remembered, loopVars, bg, countVars>>

EnterPlanMode(s) ==
  /\ st[s] = "allowed" /\ kind[s] = "enter_plan_mode"
  /\ Returns(s, IF batchMode[s] = "plan" THEN "failed" ELSE "toPlan")
  /\ UNCHANGED <<configVars, plan, remembered, loopVars, bg, countVars>>

TaskCreate(s) ==
  /\ st[s] = "allowed" /\ kind[s] = "task_create"
  /\ \/ \E t \in BgTask : StartTask(t) /\ Moves(s, "running")
     \/ Cardinality(Entries) >= MaxTasks /\ Returns(s, "failed") /\ bg' = bg
  /\ UNCHANGED <<configVars, plan, remembered, loopVars, countVars>>

TaskStop(s) ==
  /\ st[s] = "allowed" /\ kind[s] = "task_stop"
  /\ \/ \E t \in Entries :
          /\ Terminate(t)
          /\ st' = [st EXCEPT ![s] = "running"] /\ target' = [target EXCEPT ![s] = t]
          /\ UNCHANGED <<kind, batchMode>>
     \/ Returns(s, "failed") /\ bg' = bg
  /\ UNCHANGED <<configVars, plan, remembered, loopVars, countVars>>

\* Any other tool starts.
RunTool(s) ==
  /\ st[s] = "allowed"
  /\ kind[s] \notin {"todo_write", "enter_plan_mode", "task_create", "task_stop"}
  /\ Moves(s, "running")
  /\ UNCHANGED <<configVars, plan, remembered, loopVars, bg, countVars>>

\* The user answers exit_plan_mode: the plan is to be executed, or planning goes on.
AnswerPlan(s) ==
  /\ st[s] = "running" /\ kind[s] = "exit_plan_mode" /\ ~aborted
  /\ \/ Returns(s, "toDefault") /\ plan' = "unlisted"
     \/ Returns(s, "ok") /\ plan' = plan
  /\ UNCHANGED <<configVars, remembered, loopVars, bg, countVars>>

\* A tool that changed something makes the todo list stale.
Finish(s) ==
  /\ st[s] = "running" /\ kind[s] # "exit_plan_mode"
  /\ kind[s] = "task_stop" => StopIsDone(target[s])
  /\ Returns(s, "ok")
  /\ plan' = IF kind[s] \notin ReadOnly /\ plan = "listed" THEN "stale" ELSE plan
  /\ UNCHANGED <<configVars, remembered, loopVars, bg, countVars>>

\* execute throws and the error becomes the result.
Fail(s) ==
  /\ st[s] = "running" /\ kind[s] \notin {"task_create", "task_stop"}
  /\ Returns(s, "failed")
  /\ UNCHANGED <<configVars, plan, remembered, loopVars, bg, countVars>>

\* An exception outside the try: the batch is given up by the first one.
Throw(s) ==
  /\ throws < MaxThrows
  /\ st[s] = "begun" \/ (st[s] = "running" /\ kind[s] \notin {"task_create", "task_stop"})
  /\ throws' = throws + 1
  /\ Returns(s, "failed")
  /\ phase' = IF s \in InBatch THEN "givenUp" ELSE phase
  /\ UNCHANGED <<configVars, plan, remembered, aborted, batch, applied, bg, turns, batches>>

---------------------------------------------------------------------------
\* A background task ends, or the grace period of a stop is over.
TaskExits(t) == ExitTask(t) /\ UNCHANGED <<configVars, plan, remembered, loopVars, callVars, countVars>>
GraceIsOver(t) == Escalate(t) /\ UNCHANGED <<configVars, plan, remembered, loopVars, callVars, countVars>>

LoopStep == Settle \/ GiveUp \/ ApplyResult \/ AllApplied \/ (\E i \in 1..Len(batch) : StartNext(i))
CallStep(s) ==
  \/ Refuse(s) \/ Check(s) \/ DropPrompt(s) \/ TodoWrite(s) \/ EnterPlanMode(s)
  \/ TaskCreate(s) \/ TaskStop(s) \/ RunTool(s) \/ Finish(s) \/ Fail(s)
UserStep == StartTurn \/ Abort \/ (\E s \in Slot : Answer(s) \/ AnswerPlan(s))

Next ==
  \/ UserStep \/ EndTurn \/ LoopStep
  \/ \E b \in Batches : Request(b)
  \/ \E s \in Slot : CallStep(s) \/ Throw(s)
  \/ \E t \in BgTask : TaskExits(t) \/ GraceIsOver(t)

Spec == Init /\ [][Next]_vars

\* What goes on by itself: the loop, the calls, the grace period and the death of a killed
\* process. The user may never answer, and a task may run for ever.
Fairness ==
  /\ WF_vars(LoopStep) /\ WF_vars(EndTurn /\ aborted)
  /\ \A s \in Slot : WF_vars(CallStep(s))
  /\ \A t \in BgTask : WF_vars(GraceIsOver(t)) /\ WF_vars(bg[t] = "killed" /\ TaskExits(t))

FairSpec == Spec /\ Fairness

---------------------------------------------------------------------------
\* Properties.

\* A call that is not safe to run beside others has the batch to itself, and never becomes a
\* stray: what outlives its batch may overlap anything.
OneAtATime ==
  /\ \A s \in InBatch : st[s] \in InFlight /\ kind[s] \notin ConcurrencySafe =>
       \A r \in InBatch \ {s} : st[r] \notin InFlight
  /\ \A s \in Strays : kind[s] \in ConcurrencySafe

\* A tool starts to change something.
Started(s) == st[s] = "allowed" /\ st'[s] = "running" /\ kind[s] \notin ReadOnly

\* Once a plan is approved, a call that runs alone changes nothing before the todo list has been
\* written, or brought up to date, however long the user thought about the permission;
\* unless a batch was given up, whose strays may approve a plan in the meantime.
TodoFirst ==
  [][\A s \in Slot : Started(s) /\ kind[s] \notin ConcurrencySafe /\ throws = 0 => ~Owed]_vars

\* While the session is in plan mode, the calls of its batch change nothing but plan files,
\* except what the user has allowed for the session or wants to be asked about.
PlanIsReadOnly ==
  [][\A s \in InBatch : Started(s) /\ mode = "plan" /\ Alters(kind[s], mode) =>
       PlanAllows(kind[s]) \/ ToolName(kind[s]) \in remembered \cup UserAsk]_vars

\* A call that stops a task without a process: stop awaits an exit that never comes.
StopHangs ==
  \E s \in InBatch : st[s] = "running" /\ kind[s] = "task_stop" /\ bg[target[s]] = "lost"

\* An aborted turn ends, whatever its calls were doing: waiting for the user, for a process
\* to die or for each other. Only the stop of a task whose spawn failed holds it for ever.
AbortEndsTurn == aborted /\ phase # "idle" ~> phase = "idle" \/ StopHangs
=============================================================================
