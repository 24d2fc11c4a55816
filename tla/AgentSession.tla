------------------------------ MODULE AgentSession ------------------------------
(***************************************************************************)
(* One agent session: submit runs a turn (TurnRunner.run), the turn runs   *)
(* the agent loop (AgentLoop.run), and what is said is appended to the     *)
(* session's transcript, from which a later process resumes the session.   *)
(*                                                                         *)
(* A step runs from one await to the next.  Between two steps the user may *)
(* abort the turn, the consumer of its events may abandon it, and the      *)
(* process may be restarted.  The model, the tools and the hooks are       *)
(* external: any answer they may give is possible.                         *)
(***************************************************************************)
EXTENDS Conversation

CONSTANTS
  MaxTurns,        \* model calls a turn may take: maxTurns of the submission
  MaxCorrections,  \* MAX_JSON_SELF_CORRECT_RETRIES
  MaxInvalid,      \* MAX_CONSECUTIVE_ALL_INVALID_TURNS
  MaxSubmits,      \* bound: submissions
  MaxTroubles      \* bound: model errors, failed writes, hooks' messages, compactions, aborts ...

ASSUME AgentAssumption ==
  /\ MaxTurns \in Nat \ {0}
  /\ MaxCorrections \in Nat
  /\ MaxInvalid \in Nat \ {0}
  /\ MaxSubmits \in Nat
  /\ MaxTroubles \in Nat

VARIABLES
  memory,    \* AgentSession.state.messages
  file,      \* the entries of the transcript on disk
  broken,    \* an append has failed, and the chain of writes with it
  turn,      \* number of the current turn, or of the last
  phase,     \* where the turn stands
  aborted,   \* its abort signal has fired
  accepted,  \* messages of TurnRunner.run
  working,   \* messages of AgentLoop.run
  request,   \* the messages last sent to the model
  answer,    \* its last answer: the error it carries, and whether it asks for tools
  batch,     \* how the tools it asked for ended
  tried,     \* the loop's counters and single-shot flags
  end,       \* how the loop ended
  answers,   \* auxiliary: answers of the model in this turn
  told,      \* auxiliary: messages of this turn handed to the transcript
  troubles   \* auxiliary: what has gone wrong so far

sessionVars == <<memory, turn>>
diskVars == <<file, broken>>
loopVars == <<accepted, working, request, answer, batch, tried, end>>
vars == <<sessionVars, diskVars, phase, aborted, loopVars, answers, told, troubles>>

NoError == "none"
ModelError == {"invalid_tool_arguments", "prompt_too_long", "multimodal",
               "max_output_reached", "other"}
Batch == {"none", "mixed", "invalid", "blocked", "structured"}
Writing == {"accepting", "saying", "failedCalls", "projecting", "ending"}
Phase == Writing \cup {"idle", "hooks", "top", "requested", "streaming", "recovering",
                       "stopping", "detected", "running", "throwing", "thrown"}

NothingTried == [turns |-> 1, corrected |-> 0, compacted |-> FALSE, bumped |-> FALSE,
                 stripped |-> 0, invalid |-> 0]
NoAnswer == [error |-> NoError, calls |-> FALSE]

\* Everything but the messages, and the messages themselves.
ControlTypeOK ==
  /\ file \in Seq(Entry)
  /\ broken \in BOOLEAN
  /\ turn \in 0..MaxSubmits
  /\ phase \in Phase
  /\ aborted \in BOOLEAN
  /\ answer \in [error : ModelError \cup {NoError}, calls : BOOLEAN]
  /\ batch \in Batch
  /\ tried \in [turns : 1..MaxTurns, corrected : 0..MaxCorrections, compacted : BOOLEAN,
                bumped : BOOLEAN, stripped : Nat, invalid : 0..MaxInvalid]
  /\ end \in EndOf
  /\ answers \in Nat
  /\ told \in Seq(Message)
  /\ troubles \in 0..MaxTroubles

MessagesTypeOK ==
  /\ memory \in Seq(Message)
  /\ accepted \in Seq(Message)
  /\ working \in Seq(Message)
  /\ request \in Seq(Message)

TypeOK == ControlTypeOK /\ MessagesTypeOK

Init ==
  /\ memory = <<>> /\ file = <<>> /\ broken = FALSE
  /\ turn = 0 /\ phase = "idle" /\ aborted = FALSE
  /\ accepted = <<>> /\ working = <<>> /\ request = <<>>
  /\ answer = NoAnswer /\ batch = "none" /\ tried = NothingTried /\ end = "success"
  /\ answers = 0 /\ told = <<>> /\ troubles = 0

\* Something goes wrong, or does not.
Trouble == troubles < MaxTroubles /\ troubles' = troubles + 1
NoTrouble == UNCHANGED troubles

-----------------------------------------------------------------------------
(* The transcript: writes are chained, and a rejected one rejects all that follow *)

Writes(entry) == ~broken /\ file' = Append(file, entry) /\ UNCHANGED broken /\ NoTrouble

\* The chain goes on after a rejected append.
CannotWrite_Once == UNCHANGED diskVars /\ Trouble

CannotWrite ==
  \/ broken /\ UNCHANGED diskVars /\ NoTrouble
  \/ ~broken /\ broken' = TRUE /\ UNCHANGED file /\ Trouble

\* An exception leaves the loop: TurnRunner catches it.
Throw == phase' = "throwing" /\ UNCHANGED <<sessionVars, aborted, loopVars, answers, told>>

\* The generators of the turn are gone, and what they held.
TurnOver ==
  /\ phase' = "idle"
  /\ accepted' = <<>> /\ working' = <<>> /\ request' = <<>>
  /\ answer' = NoAnswer /\ batch' = "none" /\ tried' = NothingTried /\ end' = "success"
  /\ answers' = 0

\* The loop returns its result.
EndTurn(how) ==
  /\ end' = how
  /\ phase' = "ending"

-----------------------------------------------------------------------------
(* A turn before its loop *)

Submit ==
  /\ phase = "idle" /\ turn < MaxSubmits
  /\ turn' = turn + 1
  /\ aborted' = FALSE
  /\ accepted' = Append(memory, Prompt(turn'))
  /\ told' = <<>>
  /\ phase' = "accepting"
  /\ UNCHANGED <<memory, diskVars, working, request, answer, batch, tried, end, answers,
                 troubles>>

\* Nothing of an input that cannot be recorded is kept.
RecordInput ==
  /\ phase = "accepting"
  /\ \/ Writes(Input(turn)) /\ phase' = "hooks" /\ UNCHANGED <<loopVars, answers>>
     \/ CannotWrite /\ TurnOver
  /\ UNCHANGED <<sessionVars, aborted, told>>

\* Hooks may add messages.
NotesAdded(before, after) ==
  \/ after = before /\ NoTrouble
  \/ after = Append(before, Note) /\ Trouble

\* The UserPromptSubmit hooks may also block the turn.
PromptHooks ==
  /\ phase = "hooks"
  /\ \/ /\ NotesAdded(accepted, accepted')
        /\ working' = accepted'
        /\ phase' = "top"
        /\ UNCHANGED <<memory, request, answer, batch, tried, end, answers>>
     \/ memory' = accepted /\ TurnOver /\ NoTrouble
  /\ UNCHANGED <<turn, diskVars, aborted, told>>

-----------------------------------------------------------------------------
(* One round of the loop *)

AbortCheck(at) ==
  /\ phase = at /\ aborted
  /\ EndTurn("aborted")
  /\ UNCHANGED <<sessionVars, diskVars, aborted, accepted, working, request, answer, batch,
                 tried, answers, told, troubles>>

\* tryAutoCompact: nothing to do, or one tier after the other until the messages fit; the
\* last asks for a summary of what the snip has left, and may not get it.
Compactions ==
  LET snipped == Snips(working)
      left == IF snipped = {} THEN {working} ELSE snipped
  IN  MicroCompacted(working) \cup snipped
        \cup {Compacted(msgs, summarized) : msgs \in left, summarized \in BOOLEAN}
MayCompact ==
  \/ working' = working /\ NoTrouble
  \/ working' \in Compactions /\ Trouble

\* A round starts without the answer and the results of the one before.
BuildRequest ==
  /\ phase = "top" /\ ~aborted
  /\ MayCompact
  /\ request' = Repaired(working')
  /\ answer' = NoAnswer /\ batch' = "none"
  /\ phase' = "requested"
  /\ UNCHANGED <<sessionVars, diskVars, aborted, accepted, tried, end, answers, told>>

\* A model with a smaller window may be chosen: then the conversation is compacted again.
Route ==
  /\ phase = "requested" /\ ~aborted
  /\ MayCompact
  /\ request' = IF working' = working THEN request ELSE Repaired(working')
  /\ phase' = "streaming"
  /\ UNCHANGED <<sessionVars, diskVars, aborted, accepted, answer, batch, tried, end,
                 answers, told>>

\* Building the request, or routing it, fails.
RequestFails ==
  /\ phase \in {"top", "requested"} /\ ~aborted
  /\ Trouble
  /\ Throw
  /\ UNCHANGED diskVars

StreamFails ==
  /\ phase = "streaming" /\ ~aborted
  /\ Trouble
  /\ EndTurn("error")
  /\ UNCHANGED <<sessionVars, diskVars, aborted, accepted, working, request, answer, batch,
                 tried, answers, told>>

Answer(error, calls) ==
  /\ phase = "streaming" /\ ~aborted
  /\ IF error = NoError THEN NoTrouble ELSE Trouble
  /\ answers' = answers + 1
  /\ answer' = [error |-> error, calls |-> calls]
  /\ LET id == <<turn, answers'>>
         message == IF calls THEN Asks(id) ELSE Says(id)
     IN  /\ working' = Append(working, message)
         /\ told' = Append(told, message)
  /\ phase' = "saying"
  /\ UNCHANGED <<sessionVars, diskVars, aborted, accepted, request, batch, tried, end>>

\* The calls of an answer that broke off are left without results.
AfterSaying_Unanswered ==
  /\ phase' = IF answer.error # NoError THEN "recovering"
              ELSE IF answer.calls THEN "detected" ELSE "stopping"
  /\ UNCHANGED <<working, told>>

\* They get made-up results.
AfterSaying ==
  IF answer.error # NoError /\ answer.calls
  THEN /\ working' = Append(working, Results(<<turn, answers>>))
       /\ told' = Append(told, Results(<<turn, answers>>))
       /\ phase' = "failedCalls"
  ELSE /\ phase' = IF answer.error # NoError THEN "recovering"
                   ELSE IF answer.calls THEN "detected" ELSE "stopping"
       /\ UNCHANGED <<working, told>>

RecordAnswer ==
  /\ phase = "saying"
  /\ \/ /\ Writes(Durable(turn, Last(told)))
        /\ AfterSaying
        /\ UNCHANGED <<sessionVars, aborted, accepted, request, answer, batch, tried, end,
                       answers>>
     \/ CannotWrite /\ Throw

RecordFailedCalls ==
  /\ phase = "failedCalls"
  /\ \/ /\ Writes(Durable(turn, Last(told)))
        /\ phase' = "recovering"
        /\ UNCHANGED <<sessionVars, aborted, loopVars, answers, told>>
     \/ CannotWrite /\ Throw

-----------------------------------------------------------------------------
(* After an error of the model: ask again, or give up *)

Correct ==
  /\ answer.error = "invalid_tool_arguments"
  /\ tried.corrected < MaxCorrections
  /\ tried' = [tried EXCEPT !.corrected = @ + 1]
  /\ working' = Append(working, Note)

\* The flag that makes it a single shot is forgotten.
Truncate_Again ==
  /\ answer.error = "prompt_too_long"
  /\ working' = TruncatedHead(WithoutErrorPair(working))
  /\ UNCHANGED tried

Truncate ==
  /\ answer.error = "prompt_too_long"
  /\ ~tried.compacted
  /\ tried' = [tried EXCEPT !.compacted = TRUE]
  /\ working' = TruncatedHead(WithoutErrorPair(working))

StripImages ==
  /\ answer.error = "multimodal"
  /\ tried' = [tried EXCEPT !.stripped = @ + 1]
  /\ working' = WithoutErrorPair(working)

RaiseLimit ==
  /\ answer.error = "max_output_reached"
  /\ ~tried.bumped
  /\ tried' = [tried EXCEPT !.bumped = TRUE]
  /\ working' = WithoutErrorPair(working)

AskAgain ==
  /\ phase = "recovering"
  /\ Correct \/ Truncate \/ StripImages \/ RaiseLimit
  /\ phase' = "top"
  /\ UNCHANGED <<sessionVars, diskVars, aborted, accepted, request, answer, batch, end,
                 answers, told, troubles>>

NothingLeftToTry ==
  \/ answer.error = "other"
  \/ answer.error = "invalid_tool_arguments" /\ tried.corrected >= MaxCorrections
  \/ answer.error = "prompt_too_long" /\ tried.compacted
  \/ answer.error = "max_output_reached" /\ tried.bumped

GiveUp ==
  /\ phase = "recovering" /\ NothingLeftToTry
  /\ EndTurn("error")
  /\ UNCHANGED <<sessionVars, diskVars, aborted, accepted, working, request, answer, batch,
                 tried, answers, told, troubles>>

-----------------------------------------------------------------------------
(* After an answer: stop, or run the tools *)

\* The Stop hooks may also block.
StopHooks ==
  /\ phase = "stopping"
  /\ NotesAdded(working, working')
  /\ \E how \in {"success", "error"} : EndTurn(how)
  /\ UNCHANGED <<sessionVars, diskVars, aborted, accepted, request, answer, batch, tried,
                 answers, told>>

StartTools ==
  /\ phase = "detected" /\ ~aborted
  /\ phase' = "running"
  /\ UNCHANGED <<sessionVars, diskVars, aborted, loopVars, answers, told, troubles>>

\* Every call gets a result: its own, or one made up when the scheduler threw.
ToolsEnd ==
  /\ phase = "running" /\ ~aborted
  /\ batch' \in Batch \ {"none"}
  /\ working' = Append(working, Results(<<turn, answers>>))
  /\ told' = Append(told, Results(<<turn, answers>>))
  /\ phase' = "projecting"
  /\ UNCHANGED <<sessionVars, diskVars, aborted, accepted, request, answer, tried, end,
                 answers, troubles>>

\* The turn ends when a hook blocked a tool, when the model keeps sending input that no
\* tool accepts, when the structured output it was to produce is there, and when it has
\* used up its rounds.
InvalidSoFar == IF batch = "invalid" THEN tried.invalid + 1 ELSE 0

\* The limit on rounds is checked before the next one is counted.
AfterTools_OneMore ==
  IF batch = "blocked" \/ InvalidSoFar >= MaxInvalid \/ tried.turns > MaxTurns
  THEN EndTurn("error") /\ UNCHANGED tried
  ELSE /\ tried' = [tried EXCEPT !.invalid = InvalidSoFar, !.turns = @ + 1]
       /\ phase' = "top"
       /\ UNCHANGED end

AfterTools ==
  IF batch = "blocked"
  THEN EndTurn("error") /\ UNCHANGED tried
  ELSE IF InvalidSoFar >= MaxInvalid
  THEN EndTurn("error") /\ tried' = [tried EXCEPT !.invalid = InvalidSoFar]
  ELSE IF batch = "structured"
  THEN EndTurn("success") /\ tried' = [tried EXCEPT !.invalid = InvalidSoFar]
  ELSE IF tried.turns + 1 > MaxTurns
  THEN EndTurn("max_turns") /\ tried' = [tried EXCEPT !.invalid = InvalidSoFar]
  ELSE /\ tried' = [tried EXCEPT !.invalid = InvalidSoFar, !.turns = @ + 1]
       /\ phase' = "top"
       /\ UNCHANGED end

RecordResults ==
  /\ phase = "projecting"
  /\ \/ /\ Writes(Durable(turn, Last(told)))
        /\ AfterTools
        /\ UNCHANGED <<sessionVars, aborted, accepted, working, request, answer, batch,
                       answers, told>>
     \/ CannotWrite /\ Throw

-----------------------------------------------------------------------------
(* The end of a turn *)

\* The session takes over the loop's messages once the result is on disk.
\* It takes them over even if the result could not be recorded.
RecordTurn_Anyway ==
  /\ phase = "ending"
  /\ Writes(Ended(turn, end)) \/ CannotWrite
  /\ memory' = working
  /\ TurnOver
  /\ UNCHANGED <<turn, aborted, told>>

RecordTurn ==
  /\ phase = "ending"
  /\ \/ /\ Writes(Ended(turn, end))
        /\ memory' = working
        /\ TurnOver
        /\ UNCHANGED <<turn, aborted, told>>
     \/ CannotWrite /\ Throw

\* After an exception the result is recorded if it can be.
RecordThrown ==
  /\ phase = "throwing"
  /\ Writes(Ended(turn, "error")) \/ CannotWrite
  /\ phase' = "thrown"
  /\ UNCHANGED <<sessionVars, aborted, loopVars, answers, told>>

\* What the loop had added is gone from memory.
Thrown ==
  /\ phase = "thrown"
  /\ memory' = accepted
  /\ TurnOver
  /\ UNCHANGED <<turn, diskVars, aborted, told, troubles>>

-----------------------------------------------------------------------------
(* The surroundings of a turn *)

Abort ==
  /\ phase # "idle" /\ ~aborted
  /\ Trouble
  /\ aborted' = TRUE
  /\ UNCHANGED <<sessionVars, diskVars, phase, loopVars, answers, told>>

\* The consumer of the turn's events stops: the generators return at their next yield.
Abandon ==
  /\ phase \notin {"idle", "throwing"}
  /\ Trouble
  /\ TurnOver
  /\ UNCHANGED <<sessionVars, diskVars, aborted, told>>

\* The process ends, or the session is closed, and the session is resumed from its file.
Resume ==
  /\ Trouble
  /\ memory' = Replayed(file)
  /\ broken' = FALSE
  /\ TurnOver
  /\ UNCHANGED <<turn, file, aborted, told>>

Next ==
  \/ Submit \/ RecordInput \/ PromptHooks
  \/ \E at \in {"top", "requested", "streaming", "detected", "running"} : AbortCheck(at)
  \/ BuildRequest \/ Route \/ RequestFails \/ StreamFails
  \/ \E error \in ModelError \cup {NoError}, calls \in BOOLEAN : Answer(error, calls)
  \/ RecordAnswer \/ RecordFailedCalls \/ AskAgain \/ GiveUp
  \/ StopHooks \/ StartTools \/ ToolsEnd \/ RecordResults
  \/ RecordTurn \/ RecordThrown \/ Thrown
  \/ Abort \/ Abandon \/ Resume

Spec == Init /\ [][Next]_vars

-----------------------------------------------------------------------------
(* Properties *)

\* Every request is one a model accepts: the calls of an assistant message have exactly
\* one message with their results before the next assistant message, and there are no
\* results without the calls.  MessageProjector repairs what truncation, compaction and
\* aborted turns have broken.
Segment(msgs, i) ==
  {j \in i + 1..Len(msgs) : \A k \in i + 1..j : ~FromAssistant(msgs[k])}

RequestPaired ==
  /\ \A i \in DOMAIN request : request[i].kind = "asks" =>
       \E j \in Segment(request, i) : request[j] = Results(request[i].id)
  /\ \A j \in DOMAIN request : request[j].kind = "results" =>
       \E i \in 1..j - 1 : /\ request[i] = Asks(request[j].id)
                           /\ j \in Segment(request, i)
  /\ \A i, j \in DOMAIN request :
       request[i].kind = "results" /\ request[i] = request[j] => i = j

\* A resumed session remembers all that the running one remembers: what memory holds of
\* the prompts, answers and results is also in the replay of the transcript, in the same
\* order.  (The transcript may hold more: answers that were retried, and those of turns
\* that ended with an exception.)
NothingForgotten ==
  LET spoken == Kept(memory, {m \in ToSet(memory) : Spoken(m)})
  IN  spoken = Kept(Replayed(file), ToSet(spoken))

\* A turn whose result is on disk is there in full: no message between was lost, since
\* after a failed append nothing more is appended.
WhollyRecorded ==
  HasEnded(file, turn) => \A m \in ToSet(told) : Durable(turn, m) \in ToSet(file)

\* Only a turn that was aborted leaves calls without results behind, in memory and in the
\* transcript.
OnlyAbortsDangle ==
  \A msgs \in {memory, Replayed(file)} : \A i \in DOMAIN msgs :
    msgs[i].kind = "asks" =>
      \/ i < Len(msgs) /\ msgs[i + 1] = Results(msgs[i].id)
      \/ Ended(msgs[i].id[1], "aborted") \in ToSet(file)

\* What lets a turn come to an end: every answer of the model uses up one of its rounds,
\* of its corrections, the one truncation, the one raised output limit, or is followed by
\* stripping images, the only recovery without a limit.
Once(flag) == IF flag THEN 1 ELSE 0
Paid == tried.turns + tried.corrected + Once(tried.compacted) + Once(tried.bumped)
          + tried.stripped

RoundsBounded == answers <= Paid
=============================================================================
