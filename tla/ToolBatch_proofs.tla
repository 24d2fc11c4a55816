----------------------------- MODULE ToolBatch_proofs -----------------------------
(***************************************************************************)
(* Proofs about ToolBatch, for any slots, batches, modes, rules and bounds.*)
(***************************************************************************)
EXTENDS ToolBatch, TLAPS

\* Where the batch stands in each phase of the loop.
PhaseInv ==
  /\ phase \in {"idle", "model"} => batch = <<>>
  /\ phase = "applying" => \A s \in InBatch : st[s] \in Final
  /\ phase \in {"calls", "givenUp"} => \A s \in InBatch : batchMode[s] = mode
  /\ phase = "givenUp" => \A s \in InBatch : st[s] \in InFlight => kind[s] \in ConcurrencySafe

\* The slots of the batch hold calls, and calls have a tool.
SlotInv ==
  /\ \A s \in InBatch : st[s] # "free"
  /\ \A s \in Slot : st[s] # "free" => kind[s] \in Kind

\* Only an exception leaves strays behind.
StrayInv == throws = 0 => Strays = {} /\ phase # "givenUp"

BaseInv == TypeOK /\ PhaseInv /\ SlotInv /\ OneAtATime /\ StrayInv

\* What has passed the todo gate and waits for the user or for its start.
Passed(s) == st[s] \in {"asking", "allowed"}

GateInv ==
  throws = 0 =>
    \A s \in InBatch : Passed(s) /\ kind[s] \notin ReadOnly \cup ConcurrencySafe => ~Owed

DecisionInv ==
  \A s \in InBatch : Passed(s) /\ batchMode[s] = "plan" /\ Alters(kind[s], "plan") =>
    PlanAllows(kind[s]) \/ ToolName(kind[s]) \in remembered \cup UserAsk

LEMMA InBatchSlots == ASSUME TypeOK PROVE InBatch \subseteq Slot /\ DOMAIN batch = 1..Len(batch)
  BY DEF TypeOK, InBatch

LEMMA DecideType ==
  ASSUME NEW k, NEW m, NEW R PROVE Decide(k, m, R) \in {"allow", "ask", "deny"}
<1>1. FinalAsk(m) \in {"allow", "ask", "deny"}
  BY DEF FinalAsk
<1>2. DecideOwn(k, m) \in {"allow", "ask", "deny"}
  BY <1>1 DEF DecideOwn, DecideOwnAsk, DecideByMode, OwnWish
<1>3. QED
  BY <1>1, <1>2 DEF Decide, DecideBySession

\* What any step of one call does to the slots: the call moves on, is forgotten, or both
\* the others and the batch stay as they are.
LEMMA ReturnsType ==
  ASSUME TypeOK, NEW s \in Slot, NEW r \in Final, Returns(s, r)
  PROVE  /\ kind' \in [Slot -> Kind \cup {None}]
         /\ batchMode' \in [Slot -> Mode \cup {None}]
         /\ st' \in [Slot -> {"free", "queued"} \cup InFlight \cup Final]
         /\ target' \in [Slot -> BgTask \cup {None}]
         /\ \A x \in Slot \ {s} : st'[x] = st[x] /\ kind'[x] = kind[x] /\ batchMode'[x] = batchMode[x]
         /\ s \in InBatch => st'[s] = r /\ kind'[s] = kind[s] /\ batchMode'[s] = batchMode[s]
         /\ s \notin InBatch => st'[s] = "free"
<1>1. CASE s \in InBatch
  BY <1>1 DEF Returns, Moves, TypeOK, Final
<1>2. CASE s \notin InBatch
  <2>1. Forget({s})
    BY <1>2 DEF Returns
  <2>2. QED
    BY <1>2, <2>1 DEF Forget, TypeOK
<1>3. QED
  BY <1>1, <1>2

LEMMA MovesType ==
  ASSUME TypeOK, NEW s \in Slot, NEW w \in InFlight \cup Final, Moves(s, w)
  PROVE  /\ kind' \in [Slot -> Kind \cup {None}]
         /\ batchMode' \in [Slot -> Mode \cup {None}]
         /\ st' \in [Slot -> {"free", "queued"} \cup InFlight \cup Final]
         /\ target' \in [Slot -> BgTask \cup {None}]
         /\ st'[s] = w /\ kind' = kind /\ batchMode' = batchMode
         /\ \A x \in Slot \ {s} : st'[x] = st[x]
  BY DEF Moves, TypeOK

LEMMA ForgetType ==
  ASSUME TypeOK, NEW gone, Forget(gone)
  PROVE  /\ kind' \in [Slot -> Kind \cup {None}]
         /\ batchMode' \in [Slot -> Mode \cup {None}]
         /\ st' \in [Slot -> {"free", "queued"} \cup InFlight \cup Final]
         /\ target' \in [Slot -> BgTask \cup {None}]
         /\ \A x \in Slot : IF x \in gone THEN st'[x] = "free"
                            ELSE st'[x] = st[x] /\ kind'[x] = kind[x] /\ batchMode'[x] = batchMode[x]
  BY DEF Forget, TypeOK

\* TypeOK, one action at a time.
LEMMA TypeStep == ASSUME TypeOK, SlotInv, [Next]_vars PROVE TypeOK'
<1> USE BatchAssumption, RulesAssumption, TasksAssumption
        DEF BatchAssumption, RulesAssumption, TasksAssumption
<1>1. CASE StartTurn
  <2>1. mode' \in Mode
    BY <1>1 DEF StartTurn, TypeOK
  <2>2. turns' \in 0..MaxTurns
    BY <1>1 DEF StartTurn, TypeOK
  <2>3. QED
    BY <1>1, <2>1, <2>2 DEF StartTurn, TypeOK, callVars, BgTypeOK
<1>2. CASE Abort
  BY <1>2 DEF Abort, TypeOK, configVars, callVars, countVars, BgTypeOK
<1>3. CASE EndTurn
  BY <1>3, ForgetType DEF EndTurn, TurnIsOver, TypeOK, configVars, countVars, BgTypeOK
<1>4. CASE Settle
  <2>1. CASE aborted
    BY <1>4, <2>1, ForgetType DEF Settle, TurnIsOver, TypeOK, configVars, countVars, BgTypeOK
  <2>2. CASE ~aborted
    BY <1>4, <2>2 DEF Settle, TypeOK, configVars, callVars, countVars, BgTypeOK
  <2>3. QED
    BY <2>1, <2>2
<1>5. CASE GiveUp
  <2>1. PICK gone : Forget(gone)
    BY <1>5 DEF GiveUp, TurnIsOver, NextRequest
  <2>2. phase' \in {"idle", "model"} /\ batch' = <<>> /\ applied' = 0
    BY <1>5 DEF GiveUp, TurnIsOver, NextRequest
  <2>3. UNCHANGED <<configVars, plan, remembered, aborted, bg, countVars>>
    BY <1>5 DEF GiveUp
  <2>4. QED
    BY <2>1, <2>2, <2>3, ForgetType DEF TypeOK, configVars, countVars, BgTypeOK
<1>6. CASE ApplyResult
  <2>1. applied' \in Nat
    BY <1>6 DEF ApplyResult, TypeOK
  <2>2. mode' \in Mode /\ savedMode' \in Mode \cup {None}
    BY <1>6 DEF ApplyResult, TypeOK, Mode, configVars
  <2>3. QED
    BY <1>6, <2>1, <2>2 DEF ApplyResult, TypeOK, callVars, countVars, BgTypeOK
<1>7. CASE AllApplied
  BY <1>7, ForgetType DEF AllApplied, NextRequest, TypeOK, configVars, countVars, BgTypeOK
<1>8. ASSUME NEW i \in 1..Len(batch), StartNext(i) PROVE TypeOK'
  <2>1. batch[i] \in Slot
    BY DEF TypeOK
  <2>2. QED
    BY <1>8, <2>1 DEF StartNext, Moves, TypeOK, configVars, loopVars, countVars, BgTypeOK, InFlight, Final
<1>9. ASSUME NEW b \in Batches, Request(b) PROVE TypeOK'
  <2>1. b \in Seq(Kind) /\ Len(b) \in Nat
    OBVIOUS
  <2>2. PICK q \in [1..Len(b) -> {s \in Slot : st[s] = "free"}] :
          LET New == {q[i] : i \in 1..Len(b)}
          IN /\ batch' = q
             /\ kind' = [s \in Slot |-> IF s \in New THEN ToolIn(b, q, s) ELSE kind[s]]
             /\ st' = [s \in Slot |-> IF s \in New THEN Starts(ToolIn(b, q, s), Len(b)) ELSE st[s]]
             /\ batchMode' = [s \in Slot |-> IF s \in New THEN mode ELSE batchMode[s]]
    BY <1>9 DEF Request
  <2>3. batch' \in Seq(Slot)
    BY <2>1, <2>2
  <2>4. \A s \in {q[i] : i \in 1..Len(b)} : ToolIn(b, q, s) \in Kind
    BY <2>1 DEF ToolIn
  <2>5. kind' \in [Slot -> Kind \cup {None}]
    BY <2>2, <2>4 DEF TypeOK
  <2>8. batchMode' \in [Slot -> Mode \cup {None}]
    BY <2>2 DEF TypeOK
  <2>6. st' \in [Slot -> {"free", "queued"} \cup InFlight \cup Final]
    BY <2>2 DEF TypeOK, Starts, InFlight
  <2>9. batches' \in 0..MaxBatches /\ applied' \in Nat
    BY <1>9 DEF Request, TypeOK
  <2>10. /\ phase' = "calls"
         /\ UNCHANGED <<configVars, plan, remembered, aborted, target, bg, turns, throws>>
    BY <1>9 DEF Request
  <2>7. QED
    BY <2>3, <2>5, <2>6, <2>8, <2>9, <2>10 DEF TypeOK, configVars, BgTypeOK
<1>10. ASSUME NEW s \in Slot, CallStep(s) \/ Answer(s) \/ AnswerPlan(s) \/ Throw(s) PROVE TypeOK'
  <2> USE DEF Final
  <2>1. CASE Refuse(s) \/ DropPrompt(s) \/ EnterPlanMode(s) \/ Fail(s)
    <3>1. PICK r \in Final : Returns(s, r)
      BY <2>1 DEF Refuse, DropPrompt, EnterPlanMode, Fail
    <3>2. UNCHANGED <<configVars, plan, remembered, loopVars, bg, countVars>>
      BY <2>1 DEF Refuse, DropPrompt, EnterPlanMode, Fail
    <3>3. QED
      BY <3>1, <3>2, ReturnsType DEF TypeOK, configVars, loopVars, countVars, BgTypeOK
  <2>2. CASE Check(s)
    <3>1. (\E r \in Final : Returns(s, r)) \/ (\E w \in InFlight : Moves(s, w))
      BY <2>2, DecideType DEF Check, InFlight, SlotInv
    <3>2. UNCHANGED <<configVars, plan, remembered, loopVars, bg, countVars>>
      BY <2>2 DEF Check
    <3>3. CASE \E r \in Final : Returns(s, r)
      BY <3>2, <3>3, ReturnsType DEF TypeOK, configVars, loopVars, countVars, BgTypeOK
    <3>4. CASE \E w \in InFlight : Moves(s, w)
      BY <3>2, <3>4, MovesType DEF TypeOK, configVars, loopVars, countVars, BgTypeOK
    <3>5. QED
      BY <3>1, <3>3, <3>4
  <2>3. CASE Answer(s)
    <3>1. (\E r \in Final : Returns(s, r)) \/ (\E w \in InFlight : Moves(s, w))
      BY <2>3 DEF Answer, InFlight
    <3>2. remembered' \subseteq Tool
      <4>1. kind[s] \in Kind
        BY <2>3 DEF Answer, SlotInv
      <4>2. ToolName(kind[s]) \in Tool
        BY <4>1 DEF Tool
      <4>4. remembered' \in {remembered, remembered \cup ({ToolName(kind[s])} \ UserAllow)}
        BY <2>3 DEF Answer
      <4>3. QED
        BY <4>2, <4>4 DEF TypeOK
    <3>3. QED
      BY <2>3, <3>1, <3>2, ReturnsType, MovesType DEF Answer, TypeOK, configVars, loopVars, countVars, BgTypeOK
  <2>4. CASE TodoWrite(s) \/ AnswerPlan(s) \/ Finish(s)
    <3>1. PICK r \in Final : Returns(s, r)
      BY <2>4 DEF TodoWrite, AnswerPlan, Finish
    <3>2. plan' \in {"none", "unlisted", "listed", "stale"}
      BY <2>4 DEF TodoWrite, AnswerPlan, Finish, TypeOK
    <3>3. UNCHANGED <<configVars, remembered, loopVars, bg, countVars>>
      BY <2>4 DEF TodoWrite, AnswerPlan, Finish
    <3>4. /\ kind' \in [Slot -> Kind \cup {None}]
          /\ batchMode' \in [Slot -> Mode \cup {None}]
          /\ st' \in [Slot -> {"free", "queued"} \cup InFlight \cup Final]
          /\ target' \in [Slot -> BgTask \cup {None}]
      BY <3>1, ReturnsType
    <3>5. QED
      BY <3>2, <3>3, <3>4 DEF TypeOK, configVars, loopVars, countVars, BgTypeOK
  <2>5. CASE TaskCreate(s)
    <3>1. (\E r \in Final : Returns(s, r)) \/ (\E w \in InFlight : Moves(s, w))
      BY <2>5 DEF TaskCreate, InFlight
    <3>2. BgTypeOK'
      BY <2>5 DEF TaskCreate, StartTask, TypeOK, BgTypeOK, BgState
    <3>3. UNCHANGED <<configVars, plan, remembered, loopVars, countVars>>
      BY <2>5 DEF TaskCreate
    <3>4. QED
      BY <3>1, <3>2, <3>3, ReturnsType, MovesType DEF TypeOK, configVars, loopVars, countVars
  <2>6. CASE TaskStop(s)
    <3>1. BgTypeOK'
      <4>1. CASE \E t \in Entries : Terminate(t)
        BY <4>1 DEF Terminate, Entries, TypeOK, BgTypeOK, BgState
      <4>2. CASE bg' = bg
        BY <4>2 DEF TypeOK, BgTypeOK
      <4>3. QED
        BY <2>6, <4>1, <4>2 DEF TaskStop
    <3>2. UNCHANGED <<configVars, plan, remembered, loopVars, countVars>>
      BY <2>6 DEF TaskStop
    <3>3. CASE Returns(s, "failed")
      BY <3>1, <3>2, <3>3, ReturnsType DEF TypeOK, configVars, loopVars, countVars
    <3>4. CASE ~Returns(s, "failed")
      <4>1. PICK t \in BgTask :
              /\ st' = [st EXCEPT ![s] = "running"] /\ target' = [target EXCEPT ![s] = t]
              /\ UNCHANGED <<kind, batchMode>>
        BY <2>6, <3>4 DEF TaskStop, Entries
      <4>2. QED
        BY <3>1, <3>2, <4>1 DEF TypeOK, configVars, loopVars, countVars, InFlight
    <3>5. QED
      BY <3>3, <3>4
  <2>7. CASE RunTool(s)
    BY <2>7, MovesType DEF RunTool, TypeOK, configVars, loopVars, countVars, BgTypeOK, InFlight
  <2>8. CASE Throw(s)
    <3>1. throws' \in 0..MaxThrows
      BY <2>8 DEF Throw, TypeOK
    <3>2. Returns(s, "failed") /\ UNCHANGED <<configVars, plan, remembered, aborted, batch, applied, bg, turns, batches>>
      BY <2>8 DEF Throw
    <3>3. phase' \in {"idle", "model", "calls", "givenUp", "applying"}
      BY <2>8 DEF Throw, TypeOK
    <3>4. QED
      BY <3>1, <3>2, <3>3, ReturnsType DEF TypeOK, configVars, BgTypeOK
  <2>9. QED
    BY <1>10, <2>1, <2>2, <2>3, <2>4, <2>5, <2>6, <2>7, <2>8 DEF CallStep
<1>11. ASSUME NEW t \in BgTask, TaskExits(t) \/ GraceIsOver(t) PROVE TypeOK'
  <2>1. BgTypeOK'
    BY <1>11 DEF TaskExits, GraceIsOver, ExitTask, Escalate, TypeOK, BgTypeOK, BgState
  <2>2. QED
    BY <1>11, <2>1 DEF TaskExits, GraceIsOver, TypeOK, configVars, loopVars, callVars, countVars
<1>12. CASE UNCHANGED vars
  BY <1>12 DEF TypeOK, BgTypeOK, vars, configVars, loopVars, callVars, countVars
<1>13. QED
  BY <1>1, <1>2, <1>3, <1>4, <1>5, <1>6, <1>7, <1>8, <1>9, <1>10, <1>11, <1>12
  DEF Next, UserStep, LoopStep


\* What a step of one call in flight does, as far as the invariant can tell.
Changes(s) ==
  /\ st[s] \in InFlight
  /\ UNCHANGED <<phase, batch, mode, throws>>
  /\ \A x \in Slot \ {s} : st'[x] = st[x] /\ kind'[x] = kind[x] /\ batchMode'[x] = batchMode[x]
  /\ \/ st'[s] \in InFlight \cup Final /\ kind'[s] = kind[s] /\ batchMode'[s] = batchMode[s]
     \/ s \notin InBatch /\ st'[s] = "free"

LEMMA StepChanges ==
  ASSUME BaseInv, NEW s \in Slot, CallStep(s) \/ Answer(s) \/ AnswerPlan(s)
  PROVE  Changes(s)
<1>1. st[s] \in InFlight
  BY DEF CallStep, Answer, AnswerPlan, Refuse, Check, DropPrompt, AwaitsUser, TodoWrite, EnterPlanMode,
     TaskCreate, TaskStop, RunTool, Finish, Fail, InFlight
<1>2. UNCHANGED <<phase, batch, mode, throws>>
  BY DEF CallStep, Answer, AnswerPlan, Refuse, Check, DropPrompt, TodoWrite, EnterPlanMode,
     TaskCreate, TaskStop, RunTool, Finish, Fail, loopVars, configVars, countVars
<1>3. \/ \E r \in Final : Returns(s, r)
      \/ \E w \in InFlight : Moves(s, w)
      \/ st' = [st EXCEPT ![s] = "running"] /\ UNCHANGED <<kind, batchMode>>
  <2>1. CASE Check(s)
    BY <2>1, DecideType DEF Check, InFlight, Final
  <2>2. CASE TaskStop(s)
    BY <2>2 DEF TaskStop, Final
  <2>3. CASE Answer(s) \/ AnswerPlan(s)
    BY <2>3 DEF Answer, AnswerPlan, Final, InFlight
  <2>4. CASE Refuse(s) \/ DropPrompt(s) \/ TodoWrite(s) \/ EnterPlanMode(s) \/ Finish(s) \/ Fail(s)
    BY <2>4 DEF Refuse, DropPrompt, TodoWrite, EnterPlanMode, Finish, Fail, Final
  <2>5. CASE TaskCreate(s) \/ RunTool(s)
    BY <2>5 DEF TaskCreate, RunTool, Final, InFlight
  <2>6. QED
    BY <2>1, <2>2, <2>3, <2>4, <2>5 DEF CallStep
<1>4. CASE \E r \in Final : Returns(s, r)
  BY <1>1, <1>2, <1>4, ReturnsType DEF Changes, BaseInv
<1>5. CASE \E w \in InFlight : Moves(s, w)
  BY <1>1, <1>2, <1>5, MovesType DEF Changes, BaseInv
<1>6. CASE st' = [st EXCEPT ![s] = "running"] /\ UNCHANGED <<kind, batchMode>>
  BY <1>1, <1>2, <1>6 DEF Changes, BaseInv, TypeOK, InFlight
<1>7. QED
  BY <1>3, <1>4, <1>5, <1>6

LEMMA ChangesKeep ==
  ASSUME BaseInv, TypeOK', NEW s \in Slot, Changes(s)
  PROVE  PhaseInv' /\ SlotInv' /\ OneAtATime' /\ StrayInv'
<1> USE InBatchSlots DEF BaseInv, Changes
<1>1. InBatch' = InBatch /\ InBatch \subseteq Slot
  BY DEF InBatch
<1>2. st[s] \notin Final /\ "free" \notin InFlight \cup Final
  BY DEF InFlight, Final
<1>3. PhaseInv'
  BY <1>1, <1>2 DEF PhaseInv
<1>4. SlotInv'
  BY <1>1, <1>2 DEF SlotInv
<1>5. Strays' \subseteq Strays /\ \A x \in Strays' : kind'[x] = kind[x]
  BY <1>1, <1>2 DEF Strays
<1>6. OneAtATime'
  BY <1>1, <1>2, <1>5 DEF OneAtATime
<1>7. StrayInv'
  BY <1>5 DEF StrayInv
<1>8. QED
  BY <1>3, <1>4, <1>6, <1>7

\* The batch is dropped and the calls in gone with it; the rest of it become strays.
LEMMA DroppedBatch ==
  ASSUME BaseInv, NEW gone, Forget(gone), batch' = <<>>, phase' \in {"idle", "model"},
         throws' = throws,
         \A x \in InBatch \ gone : kind[x] \in ConcurrencySafe /\ throws # 0
  PROVE  PhaseInv' /\ SlotInv' /\ OneAtATime' /\ StrayInv'
<1>1. InBatch' = {} /\ InBatch \subseteq Slot
  BY InBatchSlots DEF InBatch, BaseInv
<1>2. \A x \in Slot : IF x \in gone THEN st'[x] = "free"
                      ELSE st'[x] = st[x] /\ kind'[x] = kind[x] /\ batchMode'[x] = batchMode[x]
  BY ForgetType DEF BaseInv
<1>3. \A x \in Strays' : x \in Slot /\ x \notin gone /\ x \in Strays \cup InBatch /\ kind'[x] = kind[x]
  BY <1>1, <1>2 DEF Strays
<1>4. PhaseInv'
  BY <1>1 DEF PhaseInv
<1>5. SlotInv'
  BY <1>1, <1>2 DEF SlotInv, BaseInv
<1>6. OneAtATime'
  BY <1>1, <1>3 DEF OneAtATime, BaseInv
<1>7. StrayInv'
  BY <1>3 DEF StrayInv, BaseInv
<1>8. QED
  BY <1>4, <1>5, <1>6, <1>7

LEMMA BaseStep == ASSUME BaseInv, [Next]_vars PROVE BaseInv'
<1> USE DEF BaseInv
<1>0. TypeOK' /\ InBatch \subseteq Slot
  BY TypeStep, InBatchSlots
<1>1. CASE StartTurn \/ Abort
  <2>1. UNCHANGED <<batch, st, kind, batchMode, throws>> /\ (phase' # phase => phase = "idle" /\ phase' = "model")
    BY <1>1 DEF StartTurn, Abort, callVars, countVars
  <2>2. InBatch' = InBatch /\ Strays' = Strays
    BY <2>1 DEF InBatch, Strays
  <2>3. PhaseInv'
    BY <1>1, <2>1, <2>2 DEF PhaseInv, StartTurn, Abort, configVars
  <2>4. QED
    BY <1>0, <2>1, <2>2, <2>3 DEF SlotInv, OneAtATime, StrayInv
<1>2. CASE EndTurn
  <2>1. InBatch = {}
    BY <1>2 DEF EndTurn, PhaseInv, InBatch
  <2>2. QED
    BY <1>0, <1>2, <2>1, DroppedBatch DEF EndTurn, TurnIsOver, countVars
<1>3. CASE Settle
  <2>1. CASE aborted
    <3>1. InBatch \subseteq InBatch \cup {x \in Slot : AwaitsUser(x)}
      OBVIOUS
    <3>2. QED
      BY <1>0, <1>3, <2>1, <3>1, DroppedBatch DEF Settle, TurnIsOver, countVars
  <2>2. CASE ~aborted
    <3>1. UNCHANGED <<batch, st, kind, batchMode, throws>> /\ phase' = "applying"
      BY <1>3, <2>2 DEF Settle, callVars, countVars
    <3>2. InBatch' = InBatch /\ Strays' = Strays
      BY <3>1 DEF InBatch, Strays
    <3>3. PhaseInv'
      BY <1>3, <3>1, <3>2 DEF PhaseInv, Settle
    <3>4. QED
      BY <1>0, <3>1, <3>2, <3>3 DEF SlotInv, OneAtATime, StrayInv
  <2>3. QED
    BY <2>1, <2>2
<1>4. CASE GiveUp
  <2>1. throws # 0
    BY <1>4 DEF GiveUp, StrayInv
  <2>2. PICK gone : Forget(gone) /\ Abandoned \subseteq gone
    BY <1>4 DEF GiveUp, TurnIsOver, NextRequest
  <2>3. \A x \in InBatch \ gone : kind[x] \in ConcurrencySafe
    BY <1>4, <2>2 DEF GiveUp, Abandoned, PhaseInv
  <2>4. batch' = <<>> /\ phase' \in {"idle", "model"} /\ throws' = throws
    BY <1>4 DEF GiveUp, TurnIsOver, NextRequest, countVars
  <2>5. QED
    BY <1>0, <2>1, <2>2, <2>3, <2>4, DroppedBatch
<1>5. CASE ApplyResult
  <2>1. UNCHANGED <<batch, st, kind, batchMode, throws, phase>> /\ phase = "applying"
    BY <1>5 DEF ApplyResult, callVars, countVars
  <2>2. InBatch' = InBatch /\ Strays' = Strays
    BY <2>1 DEF InBatch, Strays
  <2>3. QED
    BY <1>0, <2>1, <2>2 DEF PhaseInv, SlotInv, OneAtATime, StrayInv
<1>6. CASE AllApplied
  BY <1>0, <1>6, DroppedBatch DEF AllApplied, NextRequest, countVars
<1>7. ASSUME NEW i \in 1..Len(batch), StartNext(i) PROVE BaseInv'
  <2>1. /\ batch[i] \in InBatch /\ phase = "calls"
        /\ UNCHANGED <<batch, phase, kind, batchMode, mode, throws>>
        /\ \A x \in InBatch : st[x] \notin InFlight
    BY <1>7 DEF InBatch, StartNext, MayStart, Moves, loopVars, configVars, countVars
  <2>2. /\ st'[batch[i]] \in {"begun", "failed"}
        /\ \A x \in Slot \ {batch[i]} : st'[x] = st[x]
    BY <1>0, <1>7, <2>1 DEF StartNext, Moves, TypeOK
  <2>3. InBatch' = InBatch /\ Strays' = Strays
    BY <1>0, <2>1, <2>2 DEF InBatch, Strays
  <2>4. OneAtATime'
    BY <1>0, <2>1, <2>2, <2>3 DEF OneAtATime, Strays
  <2>5. PhaseInv' /\ SlotInv' /\ StrayInv'
    BY <1>0, <2>1, <2>2, <2>3 DEF PhaseInv, SlotInv, StrayInv
  <2>6. QED
    BY <1>0, <2>4, <2>5
<1>8. ASSUME NEW b \in Batches, Request(b) PROVE BaseInv'
  <2>1. b \in Seq(Kind) /\ Len(b) \in Nat
    BY BatchAssumption DEF BatchAssumption
  <2>2. PICK q \in [1..Len(b) -> {s \in Slot : st[s] = "free"}] :
          LET New == {q[i] : i \in 1..Len(b)}
          IN /\ batch' = q
             /\ kind' = [s \in Slot |-> IF s \in New THEN ToolIn(b, q, s) ELSE kind[s]]
             /\ st' = [s \in Slot |-> IF s \in New THEN Starts(ToolIn(b, q, s), Len(b)) ELSE st[s]]
             /\ batchMode' = [s \in Slot |-> IF s \in New THEN mode ELSE batchMode[s]]
    BY <1>8 DEF Request
  <2>3. InBatch' = {q[i] : i \in 1..Len(b)}
    BY <2>1, <2>2 DEF InBatch
  <2>4. \A x \in InBatch' : /\ x \in Slot /\ st[x] = "free" /\ batchMode'[x] = mode
                            /\ kind'[x] \in Kind
                            /\ st'[x] = "queued" \/ (st'[x] = "begun" /\ kind'[x] \in ConcurrencySafe)
    <3>1. \A x \in InBatch' : ToolIn(b, q, x) \in Kind
      BY <2>1, <2>3 DEF ToolIn
    <3>2. QED
      BY <2>2, <2>3, <3>1 DEF Starts
  <2>5. \A x \in Slot \ InBatch' : st'[x] = st[x] /\ kind'[x] = kind[x]
    BY <2>2, <2>3
  <2>6. batch = <<>> /\ InBatch = {} /\ phase' = "calls" /\ mode' = mode /\ throws' = throws
    BY <1>8 DEF Request, PhaseInv, InBatch, configVars
  <2>7. Strays' = Strays
    BY <2>4, <2>5, <2>6 DEF Strays
  <2>8. OneAtATime'
    BY <2>4, <2>5, <2>6, <2>7 DEF OneAtATime, InFlight, Strays
  <2>9. PhaseInv' /\ SlotInv' /\ StrayInv'
    BY <2>4, <2>5, <2>6, <2>7 DEF PhaseInv, SlotInv, StrayInv
  <2>10. QED
    BY <1>0, <2>8, <2>9
<1>9. ASSUME NEW s \in Slot, CallStep(s) \/ Answer(s) \/ AnswerPlan(s) PROVE BaseInv'
  BY <1>0, <1>9, StepChanges, ChangesKeep
<1>10. ASSUME NEW s \in Slot, Throw(s) PROVE BaseInv'
  <2>1. /\ st[s] \in InFlight /\ throws' = throws + 1 /\ Returns(s, "failed")
        /\ UNCHANGED <<batch, mode>> /\ phase' = IF s \in InBatch THEN "givenUp" ELSE phase
    BY <1>10 DEF Throw, InFlight, configVars
  <2>2. /\ \A x \in Slot \ {s} : st'[x] = st[x] /\ kind'[x] = kind[x] /\ batchMode'[x] = batchMode[x]
        /\ s \in InBatch => st'[s] = "failed" /\ kind'[s] = kind[s] /\ batchMode'[s] = batchMode[s]
        /\ s \notin InBatch => st'[s] = "free"
    BY <2>1, ReturnsType DEF Final
  <2>3. InBatch' = InBatch /\ Strays' \subseteq Strays /\ \A x \in Strays' : kind'[x] = kind[x]
    BY <1>0, <2>1, <2>2 DEF InBatch, Strays
  <2>4. OneAtATime'
    BY <1>0, <2>1, <2>2, <2>3 DEF OneAtATime, InFlight
  <2>5. SlotInv'
    BY <1>0, <2>1, <2>2, <2>3 DEF SlotInv, InFlight
  <2>6. StrayInv'
    BY <2>1 DEF StrayInv, TypeOK
  <2>7. PhaseInv'
    <3>1. s \in InBatch => phase \in {"calls", "givenUp"}
      BY <2>1 DEF PhaseInv, InBatch, InFlight, Final, TypeOK
    <3>2. \A x \in InBatch \ {s} : s \in InBatch /\ st[x] \in InFlight => kind[x] \in ConcurrencySafe
      BY <2>1 DEF OneAtATime
    <3>3. QED
      BY <1>0, <2>1, <2>2, <2>3, <3>1, <3>2 DEF PhaseInv, InFlight, Final
  <2>8. QED
    BY <1>0, <2>4, <2>5, <2>6, <2>7
<1>11. ASSUME UNCHANGED vars \/ (\E t \in BgTask : TaskExits(t) \/ GraceIsOver(t)) PROVE BaseInv'
  <2>1. UNCHANGED <<batch, phase, st, kind, batchMode, mode, throws>>
    BY <1>11 DEF vars, TaskExits, GraceIsOver, configVars, loopVars, callVars, countVars
  <2>2. InBatch' = InBatch /\ Strays' = Strays
    BY <2>1 DEF InBatch, Strays
  <2>3. QED
    BY <1>0, <2>1, <2>2 DEF PhaseInv, SlotInv, OneAtATime, StrayInv
<1>12. QED
  BY <1>1, <1>2, <1>3, <1>4, <1>5, <1>6, <1>7, <1>8, <1>9, <1>10, <1>11
  DEF Next, UserStep, LoopStep

LEMMA BaseInit == Init => BaseInv
<1> SUFFICES ASSUME Init PROVE BaseInv
  OBVIOUS
<1>1. batch = <<>> /\ InBatch = {} /\ Strays = {} /\ \A s \in Slot : st[s] = "free"
  BY DEF Init, InBatch, Strays
<1>2. TypeOK
  <2>1. BgTypeOK
    BY DEF Init, BgInit, BgTypeOK, BgState
  <2>2. batch \in Seq(Slot) /\ applied \in Nat
    BY DEF Init
  <2>3. turns \in 0..MaxTurns /\ batches \in 0..MaxBatches /\ throws \in 0..MaxThrows
    BY BatchAssumption DEF Init, BatchAssumption
  <2>4. mode \in Mode
    BY BatchAssumption DEF Init, BatchAssumption
  <2>5. QED
    BY <2>1, <2>2, <2>3, <2>4 DEF Init, TypeOK
<1>3. PhaseInv /\ SlotInv /\ OneAtATime /\ StrayInv
  BY <1>1 DEF Init, PhaseInv, SlotInv, OneAtATime, StrayInv
<1>4. QED
  BY <1>2, <1>3 DEF BaseInv

LEMMA BaseInvariant == Spec => []BaseInv
  BY BaseInit, BaseStep, PTL DEF Spec

\* The tables of calls, tasks, modes and plan keep their form whatever the calls, the user
\* and the exceptions do (ToolRuntime, AgentLoop, PlanTodoState, BackgroundTaskRuntime).
THEOREM TypeCorrect == Spec => []TypeOK
<1>1. BaseInv => TypeOK
  BY DEF BaseInv
<1>2. QED
  BY <1>1, BaseInvariant, PTL

\* A call that must not overlap others has its batch to itself, and nothing that outlives a
\* batch is such a call (ConcurrentToolScheduler.executeAll, batches given up included).
THEOREM CallsAlone == Spec => []OneAtATime
<1>1. BaseInv => OneAtATime
  BY DEF BaseInv
<1>2. QED
  BY <1>1, BaseInvariant, PTL

---------------------------------------------------------------------------
\* The todo gate.

\* The calls that this step of s lets through were looked at by Check, with the list as it is.
Admits(s) ==
  /\ Check(s) /\ ~GateBlocks(kind[s])
  /\ Decide(kind[s], batchMode[s], remembered) # "deny"

\* Whatever the step, a call of the batch that has passed the gate after it had passed the
\* gate before, or passes it in this step.
LEMMA PassedStep ==
  ASSUME BaseInv, [Next]_vars, NEW s \in Slot, s \in InBatch', Passed(s)'
  PROVE  /\ s \in InBatch /\ kind'[s] = kind[s] /\ batchMode'[s] = batchMode[s]
         /\ Passed(s) \/ Admits(s)
<1> USE DEF BaseInv
<1>0. InBatch \subseteq Slot /\ DOMAIN batch = 1..Len(batch)
  BY InBatchSlots
<1>1. CASE UNCHANGED <<batch, st, kind, batchMode>>
  BY <1>1 DEF InBatch, Passed
<1>2. CASE batch' = <<>>
  BY <1>2 DEF InBatch
<1>3. ASSUME NEW i \in 1..Len(batch), StartNext(i) PROVE /\ s \in InBatch /\ kind'[s] = kind[s] /\ batchMode'[s] = batchMode[s]
                                                         /\ Passed(s)
  <2>1. batch' = batch /\ kind' = kind /\ batchMode' = batchMode /\ batch[i] \in Slot
    BY <1>3 DEF StartNext, Moves, loopVars, TypeOK
  <2>2. st' = [st EXCEPT ![batch[i]] = IF aborted THEN "failed" ELSE "begun"]
    BY <1>3 DEF StartNext, Moves
  <2>3. QED
    BY <2>1, <2>2 DEF InBatch, Passed, TypeOK
<1>4. ASSUME NEW b \in Batches, Request(b) PROVE FALSE
  <2>1. PICK q \in [1..Len(b) -> {x \in Slot : st[x] = "free"}] :
          LET New == {q[i] : i \in 1..Len(b)}
          IN /\ batch' = q
             /\ st' = [x \in Slot |-> IF x \in New THEN Starts(ToolIn(b, q, x), Len(b)) ELSE st[x]]
    BY <1>4 DEF Request
  <2>2. Len(b) \in Nat
    BY BatchAssumption DEF BatchAssumption
  <2>3. s \in {q[i] : i \in 1..Len(b)}
    BY <2>1, <2>2 DEF InBatch
  <2>4. st'[s] \in {"begun", "queued"}
    BY <2>1, <2>3 DEF Starts
  <2>5. QED
    BY <2>4 DEF Passed
<1>5. ASSUME NEW r \in Slot, CallStep(r) \/ Answer(r) \/ AnswerPlan(r)
      PROVE  /\ s \in InBatch /\ kind'[s] = kind[s] /\ batchMode'[s] = batchMode[s]
             /\ Passed(s) \/ Admits(s)
  <2>1. Changes(r)
    BY <1>5, StepChanges
  <2>2. s \in InBatch
    BY <2>1 DEF Changes, InBatch
  <2>3. kind'[s] = kind[s] /\ batchMode'[s] = batchMode[s]
    BY <2>1, <2>2 DEF Changes
  <2>4. CASE s # r
    BY <2>1, <2>2, <2>3, <2>4 DEF Changes, Passed
  <2>5. CASE s = r
    <3>1. CASE Check(s)
      <4>1. ~GateBlocks(kind[s]) /\ Decide(kind[s], batchMode[s], remembered) # "deny"
        BY <2>2, <3>1 DEF Check, Returns, Moves, Passed, TypeOK
      <4>2. QED
        BY <2>2, <2>3, <3>1, <4>1 DEF Admits
    <3>2. CASE Answer(s)
      BY <2>2, <2>3, <3>2 DEF Answer, Passed
    <3>3. CASE ~Check(s) /\ ~Answer(s)
      <4>1. \E w \in Final \cup {"running"} : st' = [st EXCEPT ![s] = w]
        BY <1>5, <2>2, <2>5, <3>3 DEF CallStep, AnswerPlan, Refuse, DropPrompt, TodoWrite, EnterPlanMode,
           TaskCreate, TaskStop, RunTool, Finish, Fail, Returns, Moves, Final
      <4>2. QED
        BY <4>1 DEF Passed, TypeOK, Final
    <3>4. QED
      BY <3>1, <3>2, <3>3
  <2>6. QED
    BY <2>4, <2>5
<1>6. ASSUME NEW r \in Slot, Throw(r)
      PROVE  s \in InBatch /\ kind'[s] = kind[s] /\ batchMode'[s] = batchMode[s] /\ Passed(s)
  <2>1. Returns(r, "failed") /\ batch' = batch
    BY <1>6 DEF Throw
  <2>2. s \in InBatch
    BY <2>1 DEF InBatch
  <2>3. s # r
    BY <2>1, <2>2, ReturnsType DEF Passed, Final
  <2>4. QED
    BY <2>1, <2>2, <2>3, ReturnsType DEF Passed, Final
<1>7. QED
  <2>1. CASE StartTurn \/ Abort \/ ApplyResult \/ UNCHANGED vars
    BY <1>1, <2>1 DEF StartTurn, Abort, ApplyResult, vars, callVars, loopVars
  <2>2. CASE \E t \in BgTask : TaskExits(t) \/ GraceIsOver(t)
    BY <1>1, <2>2 DEF TaskExits, GraceIsOver, callVars, loopVars
  <2>3. CASE Settle
    BY <1>1, <1>2, <2>3 DEF Settle, TurnIsOver, callVars
  <2>4. CASE EndTurn \/ GiveUp \/ AllApplied
    BY <1>2, <2>4 DEF EndTurn, GiveUp, AllApplied, TurnIsOver, NextRequest
  <2>5. QED
    BY <1>3, <1>4, <1>5, <1>6, <2>1, <2>2, <2>3, <2>4 DEF Next, UserStep, LoopStep

\* A call that may make the list owed is in flight and shares no batch with one that runs alone.
LEMMA GateStep == ASSUME BaseInv, GateInv, [Next]_vars PROVE GateInv'
<1> SUFFICES ASSUME throws' = 0, NEW s \in InBatch', Passed(s)', kind'[s] \notin ReadOnly \cup ConcurrencySafe
             PROVE  ~Owed'
  BY DEF GateInv
<1> USE DEF BaseInv
<1>1. s \in Slot /\ BaseInv'
  BY BaseStep, InBatchSlots DEF InBatch, TypeOK
<1>2. s \in InBatch /\ kind'[s] = kind[s] /\ (Passed(s) \/ Admits(s))
  BY <1>1, PassedStep
<1>3. throws = 0
  <2>1. throws' \in {throws, throws + 1}
    BY DEF Next, UserStep, LoopStep, StartTurn, Abort, EndTurn, Settle, GiveUp, ApplyResult, AllApplied, StartNext,
       Request, CallStep, Refuse, Check, DropPrompt, TodoWrite, EnterPlanMode, TaskCreate, TaskStop, RunTool,
       Finish, Fail, Answer, AnswerPlan, Throw, TaskExits, GraceIsOver, vars, countVars
  <2>2. QED
    BY <2>1, BatchAssumption DEF TypeOK, BatchAssumption
<1>4. ~Owed
  BY <1>2, <1>3 DEF GateInv, Admits, GateBlocks
<1>5. st[s] \in InFlight
  BY <1>2 DEF Passed, Admits, Check, InFlight
<1>6. plan' # plan => \E r \in Slot : TodoWrite(r) \/ AnswerPlan(r) \/ Finish(r)
  BY DEF Next, UserStep, LoopStep, StartTurn, Abort, EndTurn, Settle, GiveUp, ApplyResult, AllApplied, StartNext,
     Request, CallStep, Refuse, Check, DropPrompt, EnterPlanMode, TaskCreate, TaskStop, RunTool,
     Fail, Answer, Throw, TaskExits, GraceIsOver, vars
<1>7. ASSUME NEW r \in Slot, AnswerPlan(r) \/ Finish(r) PROVE FALSE
  <2>1. st[r] = "running"
    BY <1>7 DEF AnswerPlan, Finish
  <2>2. r \in InBatch /\ r # s
    <3>1. r \notin Strays
      BY <1>3 DEF StrayInv
    <3>2. s # r
      BY <1>2, <2>1 DEF Passed, Admits, Check
    <3>3. QED
      BY <2>1, <3>1, <3>2 DEF Strays
  <2>3. QED
    BY <1>2, <1>5, <2>1, <2>2 DEF OneAtATime, InFlight
<1>8. ASSUME NEW r \in Slot, TodoWrite(r) PROVE ~Owed'
  BY <1>8 DEF TodoWrite, Owed
<1>9. QED
  BY <1>4, <1>6, <1>7, <1>8 DEF Owed

\* Once a plan is approved, a call that runs alone starts only while the todo list is written
\* and up to date (PlanTodoState.blockingMessageFor, asked before the permission prompt).
THEOREM TodoIsFirst == Spec => TodoFirst
<1>1. Init => GateInv
  BY DEF Init, GateInv, InBatch
<1>2. BaseInv /\ GateInv => \A s \in Slot : Started(s) /\ kind[s] \notin ConcurrencySafe /\ throws = 0 => ~Owed
  <2> SUFFICES ASSUME BaseInv, GateInv, NEW s \in Slot, Started(s), kind[s] \notin ConcurrencySafe, throws = 0
               PROVE  ~Owed
    OBVIOUS
  <2>1. s \in InBatch
    BY DEF Started, BaseInv, StrayInv, Strays
  <2>2. QED
    BY <2>1 DEF Started, GateInv, Passed
<1>3. QED
  BY <1>1, <1>2, GateStep, BaseInvariant, PTL DEF Spec, TodoFirst

---------------------------------------------------------------------------
\* Plan mode.

LEMMA DecisionStep == ASSUME BaseInv, DecisionInv, [Next]_vars PROVE DecisionInv'
<1> SUFFICES ASSUME NEW s \in InBatch', Passed(s)', batchMode'[s] = "plan", Alters(kind'[s], "plan")
             PROVE  PlanAllows(kind'[s]) \/ ToolName(kind'[s]) \in remembered' \cup UserAsk
  BY DEF DecisionInv
<1>1. s \in Slot
  <2>1. BaseInv'
    BY BaseStep
  <2>2. QED
    BY <2>1, InBatchSlots DEF InBatch, TypeOK, BaseInv
<1>2. s \in InBatch /\ kind'[s] = kind[s] /\ batchMode'[s] = batchMode[s] /\ (Passed(s) \/ Admits(s))
  BY <1>1, PassedStep
<1>3. remembered \subseteq remembered'
  BY DEF Next, UserStep, LoopStep, StartTurn, Abort, EndTurn, Settle, GiveUp, ApplyResult, AllApplied, StartNext,
     Request, CallStep, Refuse, Check, DropPrompt, TodoWrite, EnterPlanMode, TaskCreate, TaskStop, RunTool,
     Finish, Fail, Answer, AnswerPlan, Throw, TaskExits, GraceIsOver, vars
<1>4. CASE Passed(s)
  BY <1>2, <1>3, <1>4 DEF DecisionInv
<1>5. CASE Admits(s)
  <2>1. kind[s] \notin ReadOnly /\ kind[s] # "agent" /\ batchMode[s] = "plan"
    BY <1>2 DEF Alters
  <2>2. Decide(kind[s], "plan", remembered) # "deny"
    BY <1>5, <2>1 DEF Admits
  <2>3. DecideByMode(kind[s], "plan") # "deny" => PlanAllows(kind[s])
    BY <2>1 DEF DecideByMode
  <2>6. DecideOwnAsk(kind[s], "plan") # "deny" => PlanAllows(kind[s])
    BY <2>1 DEF DecideOwnAsk, PlanAllows
  <2>7. DecideOwn(kind[s], "plan") # "deny" => PlanAllows(kind[s])
    BY <2>1, <2>3, <2>6 DEF DecideOwn, OwnWish
  <2>4. PlanAllows(kind[s]) \/ ToolName(kind[s]) \in remembered \cup UserAsk
    BY <2>2, <2>7 DEF Decide, AllowRuleHolds
  <2>5. QED
    BY <1>2, <1>3, <2>4
<1>6. QED
  BY <1>2, <1>4, <1>5

\* In plan mode the calls of a batch change nothing but plan files, except what the user has
\* allowed for the session or asked to be asked about, although each call is decided with the
\* mode its batch began with (PermissionRuntime.decide, AgentLoop.createToolContext).
THEOREM PlanKeepsReadOnly == Spec => PlanIsReadOnly
<1>1. Init => DecisionInv
  BY DEF Init, DecisionInv, InBatch
<1>2. BaseInv /\ DecisionInv =>
        \A s \in InBatch : Started(s) /\ mode = "plan" /\ Alters(kind[s], mode) =>
          PlanAllows(kind[s]) \/ ToolName(kind[s]) \in remembered \cup UserAsk
  <2> SUFFICES ASSUME BaseInv, DecisionInv, NEW s \in InBatch, Started(s), mode = "plan", Alters(kind[s], mode)
               PROVE  PlanAllows(kind[s]) \/ ToolName(kind[s]) \in remembered \cup UserAsk
    OBVIOUS
  <2>1. phase \in {"calls", "givenUp"}
    <3>1. phase # "applying"
      BY DEF Started, BaseInv, PhaseInv, Final
    <3>2. batch # <<>>
      BY DEF InBatch
    <3>3. QED
      BY <3>1, <3>2 DEF BaseInv, PhaseInv, TypeOK
  <2>2. batchMode[s] = "plan"
    BY <2>1 DEF BaseInv, PhaseInv
  <2>3. QED
    BY <2>2 DEF Started, DecisionInv, Passed
<1>3. QED
  BY <1>1, <1>2, DecisionStep, BaseInvariant, PTL DEF Spec, PlanIsReadOnly
=============================================================================
