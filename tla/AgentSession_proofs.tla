-------------------------- MODULE AgentSession_proofs --------------------------
(***************************************************************************)
(* Proofs about AgentSession: a turn whose result is on disk is there in   *)
(* full, every answer of the model is paid for by a counter that has a     *)
(* limit, every request is paired, only aborted turns leave calls without  *)
(* results, and a resumed session remembers what the running one does.     *)
(***************************************************************************)
EXTENDS AgentSession, Conversation_proofs

(***************************************************************************)
(* Sequences that grow                                                     *)
(***************************************************************************)

LEMMA AppendAdds ==
  ASSUME NEW S, NEW s \in Seq(S), NEW e \in S
  PROVE  /\ Append(s, e) \in Seq(S)
         /\ ToSet(Append(s, e)) = ToSet(s) \cup {e}
         /\ Last(Append(s, e)) = e
<1>1. /\ Append(s, e) \in Seq(S)
      /\ Len(Append(s, e)) = Len(s) + 1
      /\ DOMAIN Append(s, e) = 1..Len(s) + 1
      /\ DOMAIN s = 1..Len(s)
      /\ \A i \in 1..Len(s) : Append(s, e)[i] = s[i]
      /\ Append(s, e)[Len(s) + 1] = e
      /\ Len(s) \in Nat
  OBVIOUS
<1>2. ToSet(Append(s, e)) \subseteq ToSet(s) \cup {e}
  <2>1. SUFFICES ASSUME NEW i \in 1..Len(s) + 1
                 PROVE  Append(s, e)[i] \in ToSet(s) \cup {e}
    BY <1>1 DEF ToSet
  <2>2. CASE i \in 1..Len(s)
    BY <1>1, <2>2 DEF ToSet
  <2>3. CASE i = Len(s) + 1
    BY <1>1, <2>3
  <2>4. QED
    BY <1>1, <2>1, <2>2, <2>3
<1>3. ToSet(s) \subseteq ToSet(Append(s, e))
  <2>1. SUFFICES ASSUME NEW i \in 1..Len(s)
                 PROVE  s[i] \in ToSet(Append(s, e))
    BY <1>1 DEF ToSet
  <2>2. i \in 1..Len(s) + 1 /\ Append(s, e)[i] = s[i]
    BY <1>1, <2>1
  <2>3. QED
    BY <1>1, <2>2 DEF ToSet
<1>4. e \in ToSet(Append(s, e))
  <2>1. Len(s) + 1 \in 1..Len(s) + 1
    BY <1>1
  <2>2. QED
    BY <1>1, <2>1 DEF ToSet
<1>5. QED
  BY <1>1, <1>2, <1>3, <1>4 DEF Last

LEMMA WriteAdds ==
  ASSUME NEW entry \in Entry, file \in Seq(Entry), Writes(entry)
  PROVE  /\ file' \in Seq(Entry)
         /\ ToSet(file') = ToSet(file) \cup {entry}
         /\ broken' = broken
         /\ troubles' = troubles
<1>1. file' = Append(file, entry) /\ ~broken /\ broken' = broken /\ troubles' = troubles
  BY DEF Writes, NoTrouble
<1>2. QED
  BY <1>1, AppendAdds

LEMMA EntryTypes ==
  ASSUME NEW t \in Nat, NEW m \in Message, NEW how \in EndOf
  PROVE  /\ Input(t) \in Entry /\ Durable(t, m) \in Entry /\ Ended(t, how) \in Entry
         /\ \A u \in Nat, e \in EndOf : Ended(u, e) # Input(t)
         /\ \A u \in Nat, e \in EndOf : Ended(u, e) # Durable(t, m)
         /\ \A u \in Nat, e \in EndOf : Ended(u, e) = Ended(t, how) => u = t
<1>1. Input(t) \in Entry /\ Durable(t, m) \in Entry /\ Ended(t, how) \in Entry
  BY DEF Input, Durable, Ended, Entry
<1>2. /\ Input(t).type = "accepted_input" /\ Durable(t, m).type = "message"
      /\ \A u \in Nat, e \in EndOf : Ended(u, e).type = "turn_result" /\ Ended(u, e).turn = u
  BY DEF Input, Durable, Ended
<1>3. "turn_result" # "accepted_input" /\ "turn_result" # "message"
  OBVIOUS
<1>4. QED
  BY <1>1, <1>2, <1>3

LEMMA MessageTypes ==
  ASSUME NEW t \in Nat, NEW n \in Nat
  PROVE  Asks(<<t, n>>) \in Message /\ Says(<<t, n>>) \in Message
         /\ Results(<<t, n>>) \in Message
BY DEF Asks, Says, Results, Message, Kind

LEMMA LastIsMessage ==
  ASSUME NEW s \in Seq(Message), s # <<>>
  PROVE  Last(s) \in Message /\ Last(s) \in ToSet(s)
<1>1. Len(s) \in 1..Len(s) /\ DOMAIN s = 1..Len(s)
  OBVIOUS
<1>2. QED
  BY <1>1 DEF Last, ToSet

(***************************************************************************)
(* The invariant                                                           *)
(***************************************************************************)

AllRecorded == \A m \in ToSet(told) : Durable(turn, m) \in ToSet(file)
AllButLast ==
  /\ told # <<>>
  /\ \A m \in ToSet(told) : m # Last(told) => Durable(turn, m) \in ToSet(file)

LastUnwritten == {"saying", "failedCalls", "projecting"}
Recorded == {"accepting", "hooks", "top", "requested", "streaming", "recovering",
             "stopping", "detected", "running", "ending"}

\* Results are on disk for turns that are over only, and what has been handed to the
\* transcript is on disk but for what is being written, unless the chain has broken.
RecordedInv ==
  /\ \A t \in Nat, how \in EndOf : Ended(t, how) \in ToSet(file) => t <= turn
  /\ phase \notin {"idle", "thrown"} => ~HasEnded(file, turn)
  /\ phase \in Recorded => AllRecorded
  /\ phase \in LastUnwritten => AllButLast
  /\ phase = "throwing" /\ broken = FALSE => AllRecorded
  /\ WhollyRecorded

\* Before the model is asked its next answer has been paid for.
Unanswered == {"idle", "accepting", "hooks", "top", "requested", "streaming"}
RoundsInv ==
  /\ RoundsBounded
  /\ phase \in Unanswered => answers + 1 <= Paid

\* While the loop runs, it has not yet seen too many rounds with invalid input.
LimitLeft == phase \notin {"ending", "throwing", "thrown"} => tried.invalid < MaxInvalid

Inv == ControlTypeOK /\ LimitLeft /\ RecordedInv /\ RoundsInv

LEMMA InitInv ==
  ASSUME Init, AgentAssumption
  PROVE  Inv
<1>1. ToSet(file) = {} /\ ToSet(told) = {} /\ file = <<>> /\ told = <<>>
  BY DEF Init, ToSet
<1>2. ControlTypeOK
  <2>1. <<>> \in Seq(Entry) /\ <<>> \in Seq(Message)
    OBVIOUS
  <2>2. /\ NothingTried \in [turns : 1..MaxTurns, corrected : 0..MaxCorrections,
                             compacted : BOOLEAN, bumped : BOOLEAN, stripped : Nat,
                             invalid : 0..MaxInvalid]
        /\ NoAnswer \in [error : ModelError \cup {NoError}, calls : BOOLEAN]
    BY AgentAssumption DEF AgentAssumption, NothingTried, NoAnswer
  <2>3. 0 \in 0..MaxSubmits /\ 0 \in 0..MaxTroubles
    BY AgentAssumption DEF AgentAssumption
  <2>4. QED
    BY <2>1, <2>2, <2>3 DEF Init, ControlTypeOK, Phase, Batch, EndOf
<1>3. RecordedInv
  BY <1>1 DEF Init, RecordedInv, HasEnded, AllRecorded, AllButLast, LastUnwritten, Recorded,
              WhollyRecorded
<1>4. RoundsInv
  BY DEF Init, RoundsInv, RoundsBounded, Paid, Once, NothingTried, Unanswered
<1>5. LimitLeft
  BY AgentAssumption DEF Init, LimitLeft, NothingTried, AgentAssumption
<1>6. QED
  BY <1>2, <1>3, <1>4, <1>5 DEF Inv

\* Raising one of the counters that pay for answers raises what is paid by one.
Paying(r) == r.turns + r.corrected + Once(r.compacted) + Once(r.bumped) + r.stripped

Tried == [turns : 1..MaxTurns, corrected : 0..MaxCorrections, compacted : BOOLEAN,
          bumped : BOOLEAN, stripped : Nat, invalid : 0..MaxInvalid]

LEMMA CountersPay ==
  ASSUME NEW r \in Tried
  PROVE  /\ Paying([r EXCEPT !.corrected = r.corrected + 1]) = Paying(r) + 1
         /\ Paying([r EXCEPT !.stripped = r.stripped + 1]) = Paying(r) + 1
         /\ ~r.compacted => Paying([r EXCEPT !.compacted = TRUE]) = Paying(r) + 1
         /\ ~r.bumped => Paying([r EXCEPT !.bumped = TRUE]) = Paying(r) + 1
         /\ \A i : /\ Paying([r EXCEPT !.invalid = i]) = Paying(r)
                   /\ Paying([r EXCEPT !.invalid = i, !.turns = r.turns + 1])
                        = Paying(r) + 1
         /\ Paying(r) \in Nat
<1> USE DEF Paying, Once, Tried
<1>1. Paying([r EXCEPT !.corrected = r.corrected + 1]) = Paying(r) + 1
  OBVIOUS
<1>2. Paying([r EXCEPT !.stripped = r.stripped + 1]) = Paying(r) + 1
  OBVIOUS
<1>3. ~r.compacted => Paying([r EXCEPT !.compacted = TRUE]) = Paying(r) + 1
  OBVIOUS
<1>4. ~r.bumped => Paying([r EXCEPT !.bumped = TRUE]) = Paying(r) + 1
  OBVIOUS
<1>5. ASSUME NEW i
      PROVE  /\ Paying([r EXCEPT !.invalid = i]) = Paying(r)
             /\ Paying([r EXCEPT !.invalid = i, !.turns = r.turns + 1]) = Paying(r) + 1
  OBVIOUS
<1>6. Paying(r) \in Nat
  OBVIOUS
<1>7. QED
  BY <1>1, <1>2, <1>3, <1>4, <1>5, <1>6

LEMMA RoundsStep ==
  ASSUME AgentAssumption, ControlTypeOK, RoundsInv, [Next]_vars
  PROVE  RoundsInv'
<1>pay. /\ tried \in Tried /\ answers \in Nat
        /\ Paid = Paying(tried) /\ Paid' = Paying(tried')
  BY DEF ControlTypeOK, Tried, Paid, Paying
<1>over. ASSUME TurnOver
         PROVE  RoundsInv'
  BY <1>over DEF TurnOver, NothingTried, RoundsInv, RoundsBounded, Unanswered, Paid, Once
<1>same. ASSUME UNCHANGED <<tried, answers>>, phase' \in Unanswered => phase \in Unanswered
         PROVE  RoundsInv'
  BY <1>same DEF RoundsInv, RoundsBounded, Unanswered, Paid
<1>1. CASE Submit
  BY <1>1, <1>same DEF Submit, Unanswered
<1>2. CASE RecordInput
  BY <1>2, <1>over, <1>same DEF RecordInput, loopVars, Unanswered
<1>3. CASE PromptHooks
  BY <1>3, <1>over, <1>same DEF PromptHooks, Unanswered
<1>4. ASSUME NEW at \in {"top", "requested", "streaming", "detected", "running"},
             AbortCheck(at)
      PROVE  RoundsInv'
  BY <1>4, <1>same DEF AbortCheck, EndTurn, Unanswered
<1>5. CASE BuildRequest \/ Route \/ RequestFails \/ StreamFails
  BY <1>5, <1>same DEF BuildRequest, Route, RequestFails, StreamFails, Throw, EndTurn, loopVars,
                   Unanswered
<1>6. ASSUME NEW error \in ModelError \cup {NoError}, NEW calls \in BOOLEAN,
             Answer(error, calls)
      PROVE  RoundsInv'
  <2>1. answers' = answers + 1 /\ phase = "streaming" /\ phase' = "saying" /\ tried' = tried
    BY <1>6 DEF Answer
  <2>2. QED
    BY <2>1 DEF RoundsInv, RoundsBounded, Unanswered, Paid
<1>7. CASE RecordAnswer \/ RecordFailedCalls
  BY <1>7, <1>same DEF RecordAnswer, RecordFailedCalls, AfterSaying, Throw, loopVars, Unanswered
<1>8. CASE AskAgain
  <2>1. Paid' = Paid + 1
    BY <1>8, <1>pay, CountersPay DEF AskAgain, Correct, Truncate, StripImages, RaiseLimit
  <2>2. answers' = answers /\ Paid \in Nat
    BY <1>8, <1>pay, CountersPay DEF AskAgain
  <2>3. QED
    BY <2>1, <2>2, <1>pay DEF RoundsInv, RoundsBounded
<1>9. CASE GiveUp \/ StopHooks \/ StartTools \/ ToolsEnd
  BY <1>9, <1>same DEF GiveUp, StopHooks, StartTools, ToolsEnd, EndTurn, loopVars, Unanswered
<1>10. CASE RecordResults
  <2>1. CASE Throw
    BY <2>1, <1>same DEF Throw, loopVars, Unanswered
  <2>2. CASE AfterTools /\ UNCHANGED answers
    <3>1. \/ phase' = "ending" /\ Paid' = Paid
          \/ Paid' = Paid + 1
      <4>1. \/ phase' = "ending" /\ tried' = tried
            \/ phase' = "ending" /\ tried' = [tried EXCEPT !.invalid = InvalidSoFar]
            \/ tried' = [tried EXCEPT !.invalid = InvalidSoFar, !.turns = tried.turns + 1]
        BY <2>2 DEF AfterTools, EndTurn
      <4>2. /\ Paying([tried EXCEPT !.invalid = InvalidSoFar]) = Paying(tried)
            /\ Paying([tried EXCEPT !.invalid = InvalidSoFar, !.turns = tried.turns + 1])
                 = Paying(tried) + 1
        BY <1>pay, CountersPay
      <4>3. QED
        BY <4>1, <4>2, <1>pay
    <3>2. answers' = answers /\ Paid \in Nat
      BY <2>2, <1>pay, CountersPay
    <3>3. QED
      BY <3>1, <3>2, <1>pay DEF RoundsInv, RoundsBounded, Unanswered
  <2>3. QED
    BY <1>10, <2>1, <2>2 DEF RecordResults
<1>11. CASE RecordTurn \/ RecordThrown \/ Thrown
  BY <1>11, <1>over, <1>same DEF RecordTurn, RecordThrown, Thrown, Throw, loopVars,
                           Unanswered
<1>12. CASE Abort \/ Abandon \/ Resume
  BY <1>12, <1>over, <1>same DEF Abort, Abandon, Resume, loopVars, Unanswered
<1>13. CASE UNCHANGED vars
  BY <1>13, <1>same DEF vars, loopVars
<1>14. QED
  BY <1>1, <1>2, <1>3, <1>4, <1>5, <1>6, <1>7, <1>8, <1>9, <1>10, <1>11, <1>12, <1>13
     DEF Next

(***************************************************************************)
(* What is recorded                                                        *)
(***************************************************************************)

\* A step that writes nothing, hands nothing over and stays in the turn.
LEMMA NothingWritten ==
  ASSUME RecordedInv, UNCHANGED <<file, told, turn>>,
         \/ phase' \in {"idle", "thrown"}
         \/ phase' = phase /\ broken' = broken
         \/ phase \in Recorded /\ phase' \in Recorded \cup {"throwing"}
         \/ phase \in LastUnwritten \cup Recorded /\ phase' = "throwing" /\ broken' = TRUE
  PROVE  RecordedInv'
<1>1. /\ HasEnded(file, turn)' = HasEnded(file, turn) /\ AllRecorded' = AllRecorded
      /\ AllButLast' = AllButLast /\ WhollyRecorded' = WhollyRecorded
  BY DEF HasEnded, AllRecorded, AllButLast, WhollyRecorded
<1>2. \A t \in Nat, how \in EndOf : Ended(t, how) \in ToSet(file') => t <= turn'
  BY DEF RecordedInv
<1>3. (phase \notin {"idle", "thrown"} => ~HasEnded(file, turn))'
  BY <1>1 DEF RecordedInv, Recorded, LastUnwritten
<1>4. (phase \in Recorded => AllRecorded)'
  BY <1>1 DEF RecordedInv, Recorded, LastUnwritten
<1>5. (phase \in LastUnwritten => AllButLast)'
  BY <1>1 DEF RecordedInv, Recorded, LastUnwritten
<1>6. (phase = "throwing" /\ broken = FALSE => AllRecorded)'
  BY <1>1 DEF RecordedInv, Recorded, LastUnwritten
<1>7. WhollyRecorded'
  BY <1>1 DEF RecordedInv
<1>8. QED
  BY <1>2, <1>3, <1>4, <1>5, <1>6, <1>7 DEF RecordedInv

\* A message is handed over when all the others have been written.
LEMMA HandedOver ==
  ASSUME RecordedInv, told \in Seq(Message), NEW m \in Message,
         UNCHANGED <<file, turn>>, told' = Append(told, m),
         phase \in Recorded, phase' \in LastUnwritten
  PROVE  RecordedInv'
<1>1. ToSet(told') = ToSet(told) \cup {m} /\ Last(told') = m /\ told' # <<>>
  BY AppendAdds
<1>2. AllRecorded
  BY DEF RecordedInv
<1>3. AllButLast'
  BY <1>1, <1>2 DEF AllRecorded, AllButLast
<1>4. ~HasEnded(file, turn) /\ HasEnded(file, turn)' = HasEnded(file, turn)
  BY DEF RecordedInv, HasEnded, Recorded
<1>5. \A t \in Nat, how \in EndOf : Ended(t, how) \in ToSet(file') => t <= turn'
  BY DEF RecordedInv
<1>6. WhollyRecorded'
  BY <1>4 DEF WhollyRecorded, HasEnded
<1>7. QED
  BY <1>3, <1>4, <1>5, <1>6 DEF RecordedInv, Recorded, LastUnwritten

\* The message handed over last is written; the turn goes on, or hands over another one.
LEMMA LastWritten ==
  ASSUME ControlTypeOK, RecordedInv, phase \in LastUnwritten,
         Writes(Durable(turn, Last(told))), turn' = turn,
         \/ told' = told /\ phase' \in Recorded
         \/ /\ \E m \in Message : told' = Append(told, m)
            /\ phase' \in LastUnwritten
  PROVE  file' \in Seq(Entry) /\ RecordedInv'
<1>1. AllButLast /\ ~HasEnded(file, turn) /\ turn \in Nat
  BY DEF RecordedInv, LastUnwritten, ControlTypeOK
<1>2. Last(told) \in Message /\ Last(told) \in ToSet(told)
  BY <1>1, LastIsMessage DEF AllButLast, ControlTypeOK
<1>3. Durable(turn, Last(told)) \in Entry
  BY <1>1, <1>2 DEF Durable, Entry
<1>4. file' \in Seq(Entry) /\ ToSet(file') = ToSet(file) \cup {Durable(turn, Last(told))}
  BY <1>3, WriteAdds DEF ControlTypeOK
<1>5. \A t \in Nat, how \in EndOf :
        Ended(t, how) \in ToSet(file') => Ended(t, how) \in ToSet(file)
  BY <1>1, <1>2, <1>4, EntryTypes DEF EndOf
<1>6. \A m \in ToSet(told) : Durable(turn, m) \in ToSet(file')
  BY <1>1, <1>4 DEF AllButLast
<1>7. ~HasEnded(file, turn)'
  BY <1>1, <1>5 DEF HasEnded
<1>8. \A t \in Nat, how \in EndOf : Ended(t, how) \in ToSet(file') => t <= turn'
  BY <1>5 DEF RecordedInv
<1>9. WhollyRecorded'
  BY <1>7 DEF WhollyRecorded
<1>10. CASE told' = told /\ phase' \in Recorded
  <2>1. AllRecorded'
    BY <1>6, <1>10 DEF AllRecorded
  <2>2. QED
    BY <1>4, <1>7, <1>8, <1>9, <1>10, <2>1 DEF RecordedInv, Recorded, LastUnwritten
<1>11. ASSUME NEW m \in Message, told' = Append(told, m), phase' \in LastUnwritten
       PROVE  file' \in Seq(Entry) /\ RecordedInv'
  <2>1. ToSet(told') = ToSet(told) \cup {m} /\ Last(told') = m /\ told' # <<>>
    BY <1>11, AppendAdds DEF ControlTypeOK
  <2>2. AllButLast'
    BY <1>6, <2>1 DEF AllButLast
  <2>3. QED
    BY <1>4, <1>7, <1>8, <1>9, <1>11, <2>2 DEF RecordedInv, Recorded, LastUnwritten
<1>12. QED
  BY <1>10, <1>11

\* The result of a turn is written when its messages have been.
LEMMA ResultWritten ==
  ASSUME ControlTypeOK, RecordedInv, AllRecorded, NEW how \in EndOf,
         Writes(Ended(turn, how)), UNCHANGED <<told, turn>>,
         phase' \in {"idle", "thrown"}
  PROVE  file' \in Seq(Entry) /\ RecordedInv'
<1>1. turn \in Nat /\ Ended(turn, how) \in Entry
  BY DEF ControlTypeOK, Ended, Entry
<1>2. file' \in Seq(Entry) /\ ToSet(file') = ToSet(file) \cup {Ended(turn, how)}
  BY <1>1, WriteAdds DEF ControlTypeOK
<1>3. \A t \in Nat, e \in EndOf : Ended(t, e) = Ended(turn, how) => t = turn
  BY DEF Ended
<1>4. \A t \in Nat, e \in EndOf : Ended(t, e) \in ToSet(file') => t <= turn'
  BY <1>1, <1>2, <1>3 DEF RecordedInv
<1>5. WhollyRecorded'
  BY <1>2 DEF WhollyRecorded, AllRecorded
<1>6. QED
  BY <1>2, <1>4, <1>5 DEF RecordedInv, Recorded, LastUnwritten

LEMMA InputWritten ==
  ASSUME ControlTypeOK, RecordedInv, phase = "accepting", phase' = "hooks",
         Writes(Input(turn)), UNCHANGED <<told, turn>>
  PROVE  file' \in Seq(Entry) /\ RecordedInv'
<1>1. turn \in Nat /\ Input(turn) \in Entry
  BY DEF ControlTypeOK, Input, Entry
<1>2. file' \in Seq(Entry) /\ ToSet(file') = ToSet(file) \cup {Input(turn)}
  BY <1>1, WriteAdds DEF ControlTypeOK
<1>3. \A t \in Nat, e \in EndOf : Ended(t, e) # Input(turn)
  BY <1>1 DEF Ended, Input
<1>4. \A t \in Nat, e \in EndOf : Ended(t, e) \in ToSet(file') => t <= turn'
  BY <1>1, <1>2, <1>3 DEF RecordedInv
<1>5. ~HasEnded(file, turn)'
  BY <1>1, <1>2, <1>3 DEF HasEnded, RecordedInv
<1>6. AllRecorded'
  BY <1>2 DEF RecordedInv, Recorded, AllRecorded
<1>7. WhollyRecorded'
  BY <1>5 DEF WhollyRecorded
<1>8. QED
  BY <1>2, <1>4, <1>5, <1>6, <1>7 DEF RecordedInv, Recorded, LastUnwritten

LEMMA Submitted ==
  ASSUME ControlTypeOK, RecordedInv, Submit
  PROVE  RecordedInv'
<1>1. /\ file' = file /\ turn' = turn + 1 /\ told' = <<>> /\ phase' = "accepting"
      /\ turn \in Nat
  BY DEF Submit, diskVars, ControlTypeOK
<1>2. \A t \in Nat, e \in EndOf : Ended(t, e) \in ToSet(file') => t <= turn
  BY <1>1 DEF RecordedInv
<1>3. ~HasEnded(file, turn)'
  BY <1>1, <1>2 DEF HasEnded
<1>4. ToSet(<<>>) = {}
  BY DEF ToSet
<1>5. AllRecorded' /\ WhollyRecorded'
  BY <1>1, <1>4 DEF AllRecorded, WhollyRecorded
<1>6. \A t \in Nat, e \in EndOf : Ended(t, e) \in ToSet(file') => t <= turn'
  BY <1>1, <1>2
<1>7. QED
  BY <1>1, <1>3, <1>5, <1>6 DEF RecordedInv, Recorded, LastUnwritten

LEMMA FileStep ==
  ASSUME ControlTypeOK, RecordedInv, [Next]_vars
  PROVE  file' \in Seq(Entry) /\ RecordedInv'
<1>same. ASSUME UNCHANGED file PROVE file' \in Seq(Entry)
  BY <1>same DEF ControlTypeOK
<1>wrote. turn \in Nat /\ told \in Seq(Message)
  BY DEF ControlTypeOK
<1>failed. ASSUME CannotWrite, phase \in LastUnwritten \cup Recorded,
                  UNCHANGED <<told, turn>>, phase' \in {"idle", "throwing"}
           PROVE  file' \in Seq(Entry) /\ RecordedInv'
  <2>1. file' = file /\ broken' = TRUE
    BY <1>failed DEF CannotWrite, diskVars, ControlTypeOK
  <2>2. QED
    BY <2>1, <1>failed, <1>same, NothingWritten
<1>1. CASE Submit
  BY <1>1, <1>same, Submitted DEF Submit, diskVars
<1>2. CASE RecordInput
  <2>1. phase \in Recorded /\ phase = "accepting" /\ UNCHANGED <<told, turn>>
    BY <1>2 DEF RecordInput, Recorded, sessionVars
  <2>2. CASE Writes(Input(turn)) /\ phase' = "hooks"
    BY <2>1, <2>2, InputWritten
  <2>3. CASE CannotWrite /\ TurnOver
    BY <2>1, <2>3, <1>failed DEF TurnOver
  <2>4. QED
    BY <1>2, <2>2, <2>3 DEF RecordInput
<1>3. CASE PromptHooks
  BY <1>3, <1>same, NothingWritten DEF PromptHooks, TurnOver, diskVars, Recorded
<1>4. ASSUME NEW at \in {"top", "requested", "streaming", "detected", "running"},
             AbortCheck(at)
      PROVE  file' \in Seq(Entry) /\ RecordedInv'
  BY <1>4, <1>same, NothingWritten DEF AbortCheck, EndTurn, sessionVars, diskVars, Recorded
<1>5. CASE BuildRequest \/ Route \/ RequestFails \/ StreamFails
  BY <1>5, <1>same, NothingWritten
     DEF BuildRequest, Route, RequestFails, StreamFails, Throw, EndTurn, sessionVars, diskVars,
         Recorded
<1>6. ASSUME NEW error \in ModelError \cup {NoError}, NEW calls \in BOOLEAN,
             Answer(error, calls)
      PROVE  file' \in Seq(Entry) /\ RecordedInv'
  <2>1. /\ UNCHANGED <<file, turn>> /\ phase \in Recorded /\ phase' \in LastUnwritten
        /\ answers' \in Nat
    BY <1>6 DEF Answer, sessionVars, diskVars, Recorded, LastUnwritten, ControlTypeOK
  <2>2. Asks(<<turn, answers'>>) \in Message /\ Says(<<turn, answers'>>) \in Message
    BY <2>1, <1>wrote, MessageTypes
  <2>3. PICK m \in Message : told' = Append(told, m)
    BY <1>6, <2>2 DEF Answer
  <2>4. QED
    BY <2>1, <2>3, <1>wrote, <1>same, HandedOver
<1>7. CASE RecordAnswer
  <2>1. phase \in LastUnwritten /\ turn' = turn
    BY <1>7 DEF RecordAnswer, LastUnwritten, sessionVars, Throw
  <2>2. CASE CannotWrite /\ Throw
    BY <2>1, <2>2, <1>failed DEF Throw
  <2>3. CASE Writes(Durable(turn, Last(told))) /\ AfterSaying
    <3>1. Results(<<turn, answers>>) \in Message
      BY <1>wrote, MessageTypes DEF ControlTypeOK
    <3>2. \/ told' = told /\ phase' \in Recorded
          \/ /\ \E m \in Message : told' = Append(told, m)
             /\ phase' \in LastUnwritten
      BY <2>3, <3>1 DEF AfterSaying, Recorded, LastUnwritten
    <3>3. QED
      BY <2>1, <2>3, <3>2, LastWritten
  <2>4. QED
    BY <1>7, <2>2, <2>3 DEF RecordAnswer
<1>8. CASE RecordFailedCalls
  <2>1. phase \in LastUnwritten /\ UNCHANGED <<turn, told>>
    BY <1>8 DEF RecordFailedCalls, LastUnwritten, sessionVars, Throw
  <2>2. CASE CannotWrite /\ Throw
    BY <2>1, <2>2, <1>failed DEF Throw
  <2>3. CASE Writes(Durable(turn, Last(told))) /\ phase' = "recovering"
    BY <2>1, <2>3, LastWritten DEF Recorded
  <2>4. QED
    BY <1>8, <2>2, <2>3 DEF RecordFailedCalls
<1>9. CASE AskAgain \/ GiveUp \/ StopHooks \/ StartTools
  BY <1>9, <1>same, NothingWritten
     DEF AskAgain, GiveUp, StopHooks, StartTools, EndTurn, sessionVars, diskVars, Recorded
<1>10. CASE ToolsEnd
  <2>1. /\ UNCHANGED <<file, turn>> /\ phase \in Recorded /\ phase' \in LastUnwritten
        /\ told' = Append(told, Results(<<turn, answers>>))
    BY <1>10 DEF ToolsEnd, sessionVars, diskVars, Recorded, LastUnwritten
  <2>2. Results(<<turn, answers>>) \in Message
    BY <1>wrote, MessageTypes DEF ControlTypeOK
  <2>3. QED
    BY <2>1, <2>2, <1>wrote, <1>same, HandedOver
<1>11. CASE RecordResults
  <2>1. phase \in LastUnwritten /\ UNCHANGED <<turn, told>>
    BY <1>11 DEF RecordResults, LastUnwritten, sessionVars, Throw
  <2>2. CASE CannotWrite /\ Throw
    BY <2>1, <2>2, <1>failed DEF Throw
  <2>3. CASE Writes(Durable(turn, Last(told))) /\ AfterTools
    <3>1. phase' \in Recorded
      BY <2>3 DEF AfterTools, EndTurn, Recorded
    <3>2. QED
      BY <2>1, <2>3, <3>1, LastWritten
  <2>4. QED
    BY <1>11, <2>2, <2>3 DEF RecordResults
<1>12. CASE RecordTurn
  <2>1. phase \in Recorded /\ UNCHANGED <<turn, told>> /\ AllRecorded /\ end \in EndOf
    BY <1>12 DEF RecordTurn, Recorded, RecordedInv, sessionVars, Throw, ControlTypeOK
  <2>2. CASE CannotWrite /\ Throw
    BY <2>1, <2>2, <1>failed DEF Throw
  <2>3. CASE Writes(Ended(turn, end)) /\ TurnOver
    BY <2>1, <2>3, ResultWritten DEF TurnOver
  <2>4. QED
    BY <1>12, <2>2, <2>3 DEF RecordTurn
<1>13. CASE RecordThrown
  <2>1. phase = "throwing" /\ phase' = "thrown" /\ UNCHANGED <<turn, told>>
    BY <1>13 DEF RecordThrown, sessionVars
  <2>2. CASE CannotWrite
    BY <2>1, <2>2, <1>same, NothingWritten DEF CannotWrite, diskVars
  <2>3. CASE Writes(Ended(turn, "error"))
    <3>1. AllRecorded
      BY <2>1, <2>3 DEF RecordedInv, Writes, ControlTypeOK
    <3>2. "error" \in EndOf
      BY DEF EndOf
    <3>3. QED
      BY <2>1, <2>3, <3>1, <3>2, ResultWritten
  <2>4. QED
    BY <1>13, <2>2, <2>3 DEF RecordThrown
<1>14. CASE Thrown \/ Abandon \/ Resume
  BY <1>14, <1>same, NothingWritten
     DEF Thrown, Abandon, Resume, TurnOver, diskVars, sessionVars
<1>15. CASE Abort \/ UNCHANGED vars
  BY <1>15, <1>same, NothingWritten DEF Abort, vars, sessionVars, diskVars
<1>16. QED
  BY <1>1, <1>2, <1>3, <1>4, <1>5, <1>6, <1>7, <1>8, <1>9, <1>10, <1>11, <1>12, <1>13, <1>14,
     <1>15 DEF Next

(***************************************************************************)
(* Types                                                                   *)
(***************************************************************************)

LEMMA CountersStep ==
  ASSUME AgentAssumption, ControlTypeOK, LimitLeft, [Next]_vars
  PROVE  tried' \in Tried /\ LimitLeft'
<1>typed. tried \in Tried
  BY DEF ControlTypeOK, Tried
<1>over. ASSUME TurnOver
         PROVE  tried' \in Tried /\ LimitLeft'
  BY <1>over, AgentAssumption DEF TurnOver, NothingTried, Tried, LimitLeft, AgentAssumption
<1>same. ASSUME tried' = tried,
                \/ phase' \in {"ending", "throwing", "thrown"}
                \/ phase \notin {"ending", "throwing", "thrown"}
                \/ phase' = phase
         PROVE  tried' \in Tried /\ LimitLeft'
  BY <1>same, <1>typed DEF LimitLeft
<1>1. CASE Submit \/ RecordInput \/ PromptHooks
  BY <1>1, <1>over, <1>same DEF Submit, RecordInput, PromptHooks, loopVars
<1>2. ASSUME NEW at \in {"top", "requested", "streaming", "detected", "running"},
             AbortCheck(at)
      PROVE  tried' \in Tried /\ LimitLeft'
  BY <1>2, <1>same DEF AbortCheck, EndTurn
<1>3. CASE BuildRequest \/ Route \/ RequestFails \/ StreamFails
  BY <1>3, <1>same DEF BuildRequest, Route, RequestFails, StreamFails, Throw, EndTurn, loopVars
<1>4. ASSUME NEW error \in ModelError \cup {NoError}, NEW calls \in BOOLEAN,
             Answer(error, calls)
      PROVE  tried' \in Tried /\ LimitLeft'
  BY <1>4, <1>same DEF Answer
<1>5. CASE RecordAnswer \/ RecordFailedCalls
  BY <1>5, <1>same DEF RecordAnswer, RecordFailedCalls, Throw, loopVars
<1>6. CASE AskAgain
  <2>1. phase = "recovering" /\ tried.invalid < MaxInvalid
    BY <1>6 DEF AskAgain, LimitLeft
  <2>2. CASE Correct
    <3>1. tried' = [tried EXCEPT !.corrected = tried.corrected + 1]
          /\ tried.corrected + 1 \in 0..MaxCorrections
      BY <2>2, <1>typed, AgentAssumption DEF Correct, Tried, AgentAssumption
    <3>2. QED
      BY <2>1, <3>1, <1>typed DEF Tried, LimitLeft
  <2>3. CASE Truncate
    BY <2>1, <2>3, <1>typed DEF Truncate, Tried, LimitLeft
  <2>4. CASE StripImages
    BY <2>1, <2>4, <1>typed DEF StripImages, Tried, LimitLeft
  <2>5. CASE RaiseLimit
    BY <2>1, <2>5, <1>typed DEF RaiseLimit, Tried, LimitLeft
  <2>6. QED
    BY <1>6, <2>2, <2>3, <2>4, <2>5 DEF AskAgain
<1>7. CASE GiveUp \/ StopHooks \/ StartTools \/ ToolsEnd
  BY <1>7, <1>same DEF GiveUp, StopHooks, StartTools, ToolsEnd, EndTurn, loopVars
<1>8. CASE RecordResults
  <2>1. phase = "projecting" /\ tried.invalid < MaxInvalid
    BY <1>8 DEF RecordResults, LimitLeft
  <2>2. InvalidSoFar \in 0..MaxInvalid
    BY <2>1, <1>typed, AgentAssumption DEF InvalidSoFar, Tried, AgentAssumption
  <2>3. CASE Throw
    BY <2>3, <1>same DEF Throw, loopVars
  <2>4. CASE AfterTools
    <3>1. CASE phase' = "ending" /\ tried' = tried
      BY <3>1, <1>same
    <3>2. CASE phase' = "ending" /\ tried' = [tried EXCEPT !.invalid = InvalidSoFar]
      BY <2>2, <3>2, <1>typed DEF Tried, LimitLeft
    <3>3. CASE /\ InvalidSoFar < MaxInvalid /\ tried.turns + 1 <= MaxTurns
               /\ tried' = [tried EXCEPT !.invalid = InvalidSoFar, !.turns = tried.turns + 1]
      <4>1. tried.turns + 1 \in 1..MaxTurns
        BY <3>3, <1>typed, AgentAssumption DEF Tried, AgentAssumption
      <4>2. tried' \in Tried /\ tried'.invalid = InvalidSoFar
        BY <2>2, <3>3, <4>1, <1>typed DEF Tried
      <4>3. QED
        BY <3>3, <4>2 DEF LimitLeft
    <3>4. ~(InvalidSoFar >= MaxInvalid) => InvalidSoFar < MaxInvalid
      BY <2>2, AgentAssumption DEF AgentAssumption
    <3>5. ~(tried.turns + 1 > MaxTurns) => tried.turns + 1 <= MaxTurns
      BY <1>typed, AgentAssumption DEF Tried, AgentAssumption
    <3>6. QED
      BY <2>4, <3>1, <3>2, <3>3, <3>4, <3>5 DEF AfterTools, EndTurn
  <2>5. QED
    BY <1>8, <2>3, <2>4 DEF RecordResults
<1>9. CASE RecordTurn \/ RecordThrown \/ Thrown
  BY <1>9, <1>over, <1>same DEF RecordTurn, RecordThrown, Thrown, Throw, loopVars
<1>10. CASE Abort \/ Abandon \/ Resume \/ UNCHANGED vars
  BY <1>10, <1>over, <1>same DEF Abort, Abandon, Resume, vars, loopVars
<1>11. QED
  BY <1>1, <1>2, <1>3, <1>4, <1>5, <1>6, <1>7, <1>8, <1>9, <1>10 DEF Next

LEMMA ToldStep ==
  ASSUME ControlTypeOK, [Next]_vars
  PROVE  told' \in Seq(Message) /\ answers' \in Nat
<1>1. /\ told \in Seq(Message) /\ turn \in Nat /\ answers \in Nat
  BY DEF ControlTypeOK
<1>over. ASSUME TurnOver, UNCHANGED told
         PROVE  told' \in Seq(Message) /\ answers' \in Nat
  BY <1>1, <1>over DEF TurnOver
<1>same. ASSUME UNCHANGED <<told, answers>>
         PROVE  told' \in Seq(Message) /\ answers' \in Nat
  BY <1>1, <1>same
<1>2. \A n \in Nat : /\ Results(<<turn, n>>) \in Message /\ Asks(<<turn, n>>) \in Message
                     /\ Says(<<turn, n>>) \in Message
  BY <1>1, MessageTypes
<1>3. \A m \in Message : Append(told, m) \in Seq(Message)
  BY <1>1
<1>4. CASE Submit
  BY <1>1, <1>4 DEF Submit
<1>5. CASE RecordInput \/ PromptHooks
  BY <1>5, <1>over, <1>same DEF RecordInput, PromptHooks
<1>6. CASE BuildRequest \/ Route \/ RequestFails \/ StreamFails
  BY <1>6, <1>same DEF BuildRequest, Route, RequestFails, StreamFails, Throw
<1>7. ASSUME NEW error \in ModelError \cup {NoError}, NEW calls \in BOOLEAN,
             Answer(error, calls)
      PROVE  told' \in Seq(Message) /\ answers' \in Nat
  <2>1. answers' \in Nat
    BY <1>1, <1>7 DEF Answer
  <2>2. \E m \in Message : told' = Append(told, m)
    BY <1>2, <1>7, <2>1 DEF Answer
  <2>3. QED
    BY <1>3, <2>1, <2>2
<1>8. CASE RecordAnswer
  <2>1. CASE AfterSaying /\ UNCHANGED answers
    BY <1>1, <1>2, <1>3, <2>1 DEF AfterSaying
  <2>2. QED
    BY <1>8, <1>same, <2>1 DEF RecordAnswer, Throw
<1>9. CASE RecordFailedCalls \/ RecordResults \/ RecordTurn \/ RecordThrown \/ Thrown
  BY <1>9, <1>over, <1>same
     DEF RecordFailedCalls, RecordResults, RecordTurn, RecordThrown, Thrown, Throw
<1>10. CASE AskAgain \/ GiveUp \/ StopHooks \/ StartTools
  BY <1>10, <1>same DEF AskAgain, GiveUp, StopHooks, StartTools
<1>11. CASE ToolsEnd
  BY <1>1, <1>2, <1>3, <1>11 DEF ToolsEnd
<1>12. CASE Abort \/ Abandon \/ Resume \/ UNCHANGED vars
  BY <1>12, <1>over, <1>same DEF Abort, Abandon, Resume, vars
<1>13. ASSUME NEW at \in {"top", "requested", "streaming", "detected", "running"},
              AbortCheck(at)
       PROVE  told' \in Seq(Message) /\ answers' \in Nat
  BY <1>13, <1>same DEF AbortCheck
<1>14. QED
  BY <1>4, <1>5, <1>6, <1>7, <1>8, <1>9, <1>10, <1>11, <1>12, <1>13 DEF Next

\* The phases, the flags and what a step may choose.
Flags == /\ broken \in BOOLEAN /\ phase \in Phase /\ aborted \in BOOLEAN
         /\ answer \in [error : ModelError \cup {NoError}, calls : BOOLEAN]
         /\ batch \in Batch /\ end \in EndOf

LEMMA FlagsStep ==
  ASSUME ControlTypeOK, [Next]_vars
  PROVE  Flags'
<1> USE DEF Phase, Writing
<1>typed. Flags
  BY DEF ControlTypeOK, Flags
<1>none. NoAnswer \in [error : ModelError \cup {NoError}, calls : BOOLEAN]
  BY DEF NoAnswer
<1>ends. {"success", "error", "aborted", "max_turns"} \subseteq EndOf
  BY DEF EndOf
<1>over. ASSUME TurnOver, broken' \in BOOLEAN, UNCHANGED aborted
         PROVE  Flags'
  BY <1>typed, <1>none, <1>ends, <1>over DEF TurnOver, Flags, Batch
<1>same. ASSUME UNCHANGED <<answer, batch, aborted>>, phase' \in Phase, broken' \in BOOLEAN,
                end' \in EndOf
         PROVE  Flags'
  BY <1>typed, <1>same DEF Flags
<1>disk. Flags => broken \in BOOLEAN /\ end \in EndOf /\ phase \in Phase
  BY DEF Flags
<1>write. ASSUME NEW entry, Writes(entry) \/ CannotWrite
          PROVE  broken' \in BOOLEAN
  BY <1>write, <1>typed, <1>disk DEF Writes, CannotWrite, diskVars
<1>throw. ASSUME Throw, broken' \in BOOLEAN
          PROVE  Flags'
  BY <1>throw, <1>same, <1>typed, <1>disk DEF Throw, loopVars
<1>1. CASE Submit
  BY <1>1, <1>typed DEF Submit, Flags, diskVars
<1>2. CASE RecordInput
  <2>1. broken' \in BOOLEAN /\ UNCHANGED aborted
    BY <1>2, <1>write DEF RecordInput
  <2>2. QED
    BY <1>2, <2>1, <1>over, <1>same, <1>typed, <1>disk DEF RecordInput, loopVars
<1>3. CASE PromptHooks
  BY <1>3, <1>over, <1>same, <1>typed, <1>disk DEF PromptHooks, diskVars
<1>4. ASSUME NEW at \in {"top", "requested", "streaming", "detected", "running"},
             AbortCheck(at)
      PROVE  Flags'
  BY <1>4, <1>same, <1>ends, <1>typed, <1>disk DEF AbortCheck, EndTurn, diskVars
<1>5. CASE BuildRequest \/ Route
  BY <1>5, <1>none, <1>typed DEF BuildRequest, Route, diskVars, Flags, Batch
<1>6. CASE RequestFails \/ StreamFails
  BY <1>6, <1>same, <1>throw, <1>ends, <1>typed, <1>disk
     DEF RequestFails, StreamFails, EndTurn, diskVars
<1>7. ASSUME NEW error \in ModelError \cup {NoError}, NEW calls \in BOOLEAN,
             Answer(error, calls)
      PROVE  Flags'
  BY <1>7, <1>typed DEF Answer, Flags, diskVars
<1>8. CASE RecordAnswer
  <2>1. broken' \in BOOLEAN
    BY <1>8, <1>write DEF RecordAnswer
  <2>2. CASE AfterSaying /\ UNCHANGED <<answer, batch, aborted, end>>
    BY <2>1, <2>2, <1>same, <1>typed, <1>disk DEF AfterSaying
  <2>3. QED
    BY <1>8, <2>1, <2>2, <1>throw DEF RecordAnswer
<1>9. CASE RecordFailedCalls
  <2>1. broken' \in BOOLEAN
    BY <1>9, <1>write DEF RecordFailedCalls
  <2>2. QED
    BY <1>9, <2>1, <1>throw, <1>same, <1>typed, <1>disk DEF RecordFailedCalls, loopVars
<1>10. CASE AskAgain \/ GiveUp \/ StopHooks \/ StartTools
  BY <1>10, <1>same, <1>ends, <1>typed, <1>disk
     DEF AskAgain, GiveUp, StopHooks, StartTools, EndTurn, loopVars, diskVars
<1>11. CASE ToolsEnd
  BY <1>11, <1>typed DEF ToolsEnd, Flags, diskVars
<1>12. CASE RecordResults
  <2>1. broken' \in BOOLEAN
    BY <1>12, <1>write DEF RecordResults
  <2>2. CASE AfterTools /\ UNCHANGED <<answer, batch, aborted>>
    <3>1. phase' \in Phase /\ end' \in EndOf
      BY <2>2, <1>ends, <1>typed, <1>disk DEF AfterTools, EndTurn
    <3>2. QED
      BY <2>1, <2>2, <3>1, <1>same
  <2>3. QED
    BY <1>12, <2>1, <2>2, <1>throw DEF RecordResults
<1>13. CASE RecordTurn
  <2>1. broken' \in BOOLEAN
    BY <1>13, <1>write DEF RecordTurn
  <2>2. QED
    BY <1>13, <2>1, <1>throw, <1>over DEF RecordTurn
<1>14. CASE RecordThrown
  <2>1. broken' \in BOOLEAN
    BY <1>14, <1>write DEF RecordThrown
  <2>2. QED
    BY <1>14, <2>1, <1>same, <1>typed, <1>disk DEF RecordThrown, loopVars
<1>15. CASE Thrown \/ Abandon \/ Resume
  BY <1>15, <1>over, <1>typed, <1>disk DEF Thrown, Abandon, Resume, diskVars
<1>16. CASE Abort \/ UNCHANGED vars
  BY <1>16, <1>typed DEF Abort, vars, diskVars, loopVars, Flags
<1>17. QED
  BY <1>1, <1>2, <1>3, <1>4, <1>5, <1>6, <1>7, <1>8, <1>9, <1>10, <1>11, <1>12, <1>13, <1>14,
     <1>15, <1>16 DEF Next

\* The bounds of the model are kept, and turns are counted up to theirs.
LEMMA BoundsStep ==
  ASSUME AgentAssumption, ControlTypeOK, [Next]_vars
  PROVE  turn' \in 0..MaxSubmits /\ troubles' \in 0..MaxTroubles
<1>1. turn \in 0..MaxSubmits /\ troubles \in 0..MaxTroubles
  BY DEF ControlTypeOK
<1>2. turn' = turn \/ (turn < MaxSubmits /\ turn' = turn + 1)
  BY DEF Next, vars, sessionVars, Submit, RecordInput, PromptHooks, AbortCheck, BuildRequest,
         Route, RequestFails, StreamFails, Answer, RecordAnswer, RecordFailedCalls, AskAgain,
         GiveUp, StopHooks, StartTools, ToolsEnd, RecordResults, RecordTurn, RecordThrown,
         Thrown, Abort, Abandon, Resume, Throw
<1>3. troubles' = troubles \/ Trouble
  BY DEF Next, vars, Submit, RecordInput, PromptHooks, AbortCheck, BuildRequest,
         Route, RequestFails, StreamFails, Answer, RecordAnswer, RecordFailedCalls, AskAgain,
         GiveUp, StopHooks, StartTools, ToolsEnd, RecordResults, RecordTurn, RecordThrown,
         Thrown, Abort, Abandon, Resume, MayCompact, NotesAdded, NoTrouble, Writes,
         CannotWrite
<1>4. QED
  BY <1>1, <1>2, <1>3, AgentAssumption DEF Trouble, AgentAssumption

LEMMA InvStep ==
  ASSUME AgentAssumption, Inv, [Next]_vars
  PROVE  Inv'
<1>1. ControlTypeOK /\ LimitLeft /\ RecordedInv /\ RoundsInv
  BY DEF Inv
<1>2. file' \in Seq(Entry) /\ RecordedInv'
  BY <1>1, FileStep
<1>3. tried' \in Tried /\ LimitLeft'
  BY <1>1, CountersStep
<1>4. told' \in Seq(Message) /\ answers' \in Nat
  BY <1>1, ToldStep
<1>5. Flags'
  BY <1>1, FlagsStep
<1>6. turn' \in 0..MaxSubmits /\ troubles' \in 0..MaxTroubles
  BY <1>1, BoundsStep
<1>7. ControlTypeOK'
  BY <1>2, <1>3, <1>4, <1>5, <1>6 DEF ControlTypeOK, Tried, Flags
<1>8. RoundsInv'
  BY <1>1, RoundsStep
<1>9. QED
  BY <1>2, <1>3, <1>7, <1>8 DEF Inv

LEMMA InvHolds == Spec => []Inv
<1>1. Init => Inv
  BY InitInv, AgentAssumption
<1>2. Inv /\ [Next]_vars => Inv'
  BY InvStep, AgentAssumption
<1>3. QED
  BY <1>1, <1>2, PTL DEF Spec

(***************************************************************************)
(* Theorems                                                                *)
(***************************************************************************)

\* Whatever the limits, the session's control state has its type: no counter of the loop
\* passes its limit, and what is handed to the transcript is a message.
THEOREM TypeCorrect == Spec => []ControlTypeOK
<1>1. Inv => ControlTypeOK
  BY DEF Inv
<1>2. QED
  BY InvHolds, <1>1, PTL

\* A turn whose result is on disk is there in full.
THEOREM RecordsWhole == Spec => []WhollyRecorded
<1>1. Inv => WhollyRecorded
  BY DEF Inv, RecordedInv
<1>2. QED
  BY InvHolds, <1>1, PTL

\* Every answer of the model uses up something the turn has a limited supply of, or is
\* followed by stripping images.
THEOREM RoundsPaid == Spec => []RoundsBounded
<1>1. Inv => RoundsBounded
  BY DEF Inv, RoundsInv
<1>2. QED
  BY InvHolds, <1>1, PTL

-----------------------------------------------------------------------------
(***************************************************************************)
(* The messages a session keeps, works on and sends                        *)
(***************************************************************************)

InLoop == phase \notin {"idle", "accepting", "hooks"}

\* The answer of the model that the turn is at.
ThisId == <<turn, answers>>
Answering == {"saying", "failedCalls", "detected", "running", "projecting", "recovering",
              "stopping"}

MessagesInv ==
  /\ memory \in Seq(Proper) /\ accepted \in Seq(Proper) /\ working \in Seq(Proper)
  /\ request \in Seq(Message) /\ WellPaired(request)

OrderInv ==
  /\ Ordered(memory) /\ Ordered(accepted) /\ Ordered(working)
  /\ FileOrdered(file) /\ FileProper(file)

\* All that memory has is in the replay; what the turn has is in memory, is its input, or
\* has been handed to the transcript.
OfThisTurn(m) == m \in Proper /\ m.kind \in Speech /\ m.id[1] = turn /\ m.id[2] <= answers
KnownInv ==
  /\ SpokenIn(memory) \subseteq Heard(file)
  /\ phase # "idle" =>
       /\ SpokenIn(accepted) \subseteq SpokenIn(memory) \cup {Prompt(turn)}
       /\ \A m \in SpokenIn(memory) : m.id[1] < turn
       /\ \A m \in ToSet(told) : OfThisTurn(m)
  /\ phase \notin {"idle", "accepting"} => Input(turn) \in ToSet(file)
  /\ InLoop => SpokenIn(working) \subseteq SpokenIn(accepted) \cup ToSet(told)

\* Nothing in the transcript comes after what is written next.
BoundInv ==
  \A e \in ToSet(file) : Saying(e) =>
    /\ e.turn <= turn
    /\ phase = "accepting" => e.turn < turn
    /\ phase \in {"hooks", "top", "requested", "streaming", "stopping", "recovering", "ending"} =>
         e.turn < turn \/ Said(e).id[2] <= answers
    /\ phase \in {"detected", "running"} => Before(Said(e), Results(ThisId))
    /\ phase \in LastUnwritten => Before(Said(e), Last(told))

\* What the loop's messages end with.
EndsWith(m) == Len(working) >= 2 /\ Last(working) = m
EndsWithPair ==
  /\ Len(working) >= 3
  /\ Last(working) = Results(ThisId) /\ working[Len(working) - 1] = Asks(ThisId)
ShapeInv ==
  /\ InLoop => working # <<>>
  /\ phase # "idle" => accepted # <<>>
  /\ phase \in Answering => answers > 0
  /\ phase = "saying" => /\ Last(told) = Last(working) /\ told # <<>>
                         /\ EndsWith(IF answer.calls THEN Asks(ThisId) ELSE Says(ThisId))
  /\ phase \in {"failedCalls", "projecting"} =>
       EndsWithPair /\ told # <<>> /\ Last(told) = Results(ThisId)
  /\ phase \in {"detected", "running"} => EndsWith(Asks(ThisId))
  /\ phase = "stopping" => EndsWith(Says(ThisId))
  /\ phase = "recovering" => EndsWithPair \/ EndsWith(Says(ThisId))

\* Only turns recorded as aborted leave calls without results in what the session keeps;
\* the loop may have calls without results at the end, while it has not asked again.
Excused == {t \in Nat : Ended(t, "aborted") \in ToSet(file)}
MayDangle ==
  \/ phase \in {"saying", "detected", "running", "throwing", "thrown"}
  \/ phase = "ending" /\ end = "aborted"
AnsweredInv ==
  /\ Answered(memory, Excused) /\ Answered(accepted, Excused)
  /\ InLoop => \A i \in DOMAIN working : working[i].kind = "asks" =>
       \/ Followed(working, i)
       \/ working[i].id[1] \in Excused
       \/ i = Len(working) /\ working[i].id[1] = turn /\ MayDangle

\* The same of the transcript: calls without results are those of a turn without an end,
\* those of an aborted one, and those whose results are written next.
FileDangling(i) ==
  /\ i = Len(file)
  /\ \/ phase \in {"detected", "running", "failedCalls", "projecting"} /\ file[i].msg.id = ThisId
     \/ phase = "ending" /\ end = "aborted"
FileInv ==
  \A i \in DOMAIN file : file[i].type = "message" /\ file[i].msg.kind = "asks" =>
    \/ FileFollowed(file, i)
    \/ file[i].turn \in Excused
    \/ /\ ~HasEnded(file, file[i].turn)
       /\ file[i].turn = turn => \/ phase \in {"idle", "thrown"} \/ (phase = "throwing" /\ broken)
                                 \/ FileDangling(i)

ConversationInv ==
  MessagesInv /\ OrderInv /\ KnownInv /\ BoundInv /\ ShapeInv /\ AnsweredInv /\ FileInv
(***************************************************************************)
(* Conversations and transcripts that grow                                 *)
(***************************************************************************)

LEMMA ElementOf ==
  ASSUME NEW S, NEW s \in Seq(S)
  PROVE  /\ DOMAIN s = 1..Len(s) /\ Len(s) \in Nat
         /\ ToSet(s) \subseteq S
         /\ \A i \in DOMAIN s : s[i] \in S /\ s[i] \in ToSet(s)
         /\ s # <<>> => Len(s) \in DOMAIN s /\ Len(s) >= 1 /\ Last(s) = s[Len(s)]
BY DEF ToSet, Last

Extended(S, more, s, e) ==
  /\ more \in Seq(S) /\ more # <<>>
  /\ DOMAIN s = 1..Len(s) /\ Len(s) \in Nat
  /\ Len(more) = Len(s) + 1 /\ DOMAIN more = 1..Len(s) + 1
  /\ \A i \in DOMAIN s : i \in DOMAIN more /\ more[i] = s[i]
  /\ more[Len(s) + 1] = e
  /\ \A i \in DOMAIN more : i \in DOMAIN s \/ i = Len(s) + 1
  /\ ToSet(more) = ToSet(s) \cup {e} /\ Last(more) = e

LEMMA AppendForm ==
  ASSUME NEW S, NEW s \in Seq(S), NEW e \in S
  PROVE  Extended(S, Append(s, e), s, e)
<1> DEFINE more == Append(s, e)
<1>1. /\ more \in Seq(S) /\ more # <<>>
      /\ DOMAIN s = 1..Len(s) /\ Len(s) \in Nat
      /\ Len(more) = Len(s) + 1 /\ DOMAIN more = 1..Len(s) + 1
      /\ \A i \in DOMAIN s : i \in DOMAIN more /\ more[i] = s[i]
      /\ more[Len(s) + 1] = e
      /\ \A i \in DOMAIN more : i \in DOMAIN s \/ i = Len(s) + 1
  OBVIOUS
<1>2. Last(more) = e /\ ToSet(more) = ToSet(s) \cup {e}
  BY AppendAdds
<1>3. QED
  BY <1>1, <1>2 DEF Extended

LEMMA SameKind ==
  /\ \A id : /\ Asks(id).kind = "asks" /\ Asks(id).id = id /\ Spoken(Asks(id))
             /\ Says(id).kind = "says" /\ Says(id).id = id /\ Spoken(Says(id))
             /\ Results(id).kind = "results" /\ Results(id).id = id /\ Spoken(Results(id))
             /\ FromAssistant(Asks(id)) /\ FromAssistant(Says(id)) /\ ~FromAssistant(Results(id))
  /\ \A t : Prompt(t).kind = "prompt" /\ Prompt(t).id = <<t, 0>> /\ Spoken(Prompt(t))
  /\ \A t \in Nat, n \in Nat : n > 0 => /\ Asks(<<t, n>>) \in Proper
                                        /\ Says(<<t, n>>) \in Proper
                                        /\ Results(<<t, n>>) \in Proper
  /\ \A t \in Nat : Prompt(t) \in Proper
  /\ Note.kind = "note" /\ ~Spoken(Note) /\ Note \in Proper
BY DEF Asks, Says, Results, Prompt, Note, NoId, Spoken, FromAssistant, Proper, Message, Kind,
       Speech

\* A conversation to which something is added that comes after all that it has.
SaidMore(more, msgs, m) ==
  /\ more \in Seq(Proper) /\ more # <<>> /\ Ordered(more)
  /\ SpokenIn(more) \subseteq SpokenIn(msgs) \cup {m}
  /\ ~Spoken(m) => SpokenIn(more) = SpokenIn(msgs)
  /\ \A E : Answered(msgs, E) /\ m.kind # "asks" => Answered(more, E)

LEMMA SayMore ==
  ASSUME NEW msgs \in Seq(Proper), Ordered(msgs), NEW m \in Proper,
         Spoken(m) => \A n \in SpokenIn(msgs) : Before(n, m)
  PROVE  SaidMore(Append(msgs, m), msgs, m)
<1> DEFINE more == Append(msgs, m)
<1>1. /\ more \in Seq(Proper) /\ more # <<>>
      /\ DOMAIN msgs = 1..Len(msgs) /\ Len(msgs) \in Nat
      /\ Len(more) = Len(msgs) + 1 /\ DOMAIN more = 1..Len(msgs) + 1
      /\ \A i \in DOMAIN msgs : i \in DOMAIN more /\ more[i] = msgs[i]
      /\ more[Len(msgs) + 1] = m
      /\ \A i \in DOMAIN more : i \in DOMAIN msgs \/ i = Len(msgs) + 1
      /\ ToSet(more) = ToSet(msgs) \cup {m}
  BY AppendForm DEF Extended, more
<1> HIDE DEF more
<1>2. Ordered(more)
  <2>1. SUFFICES ASSUME NEW i \in DOMAIN more, NEW j \in DOMAIN more, i < j,
                        Spoken(more[i]), Spoken(more[j])
                 PROVE  Before(more[i], more[j])
    BY DEF Ordered
  <2>2. i \in DOMAIN msgs /\ more[i] = msgs[i]
    BY <1>1, <2>1
  <2>3. CASE j \in DOMAIN msgs
    BY <1>1, <2>1, <2>2, <2>3 DEF Ordered
  <2>4. CASE j = Len(msgs) + 1
    <3>1. msgs[i] \in SpokenIn(msgs)
      BY <2>1, <2>2 DEF SpokenIn, ToSet
    <3>2. QED
      BY <1>1, <2>1, <2>2, <2>4, <3>1
  <2>5. QED
    BY <1>1, <2>1, <2>3, <2>4
<1>3. /\ SpokenIn(more) \subseteq SpokenIn(msgs) \cup {m}
      /\ ~Spoken(m) => SpokenIn(more) = SpokenIn(msgs)
  BY <1>1 DEF SpokenIn
<1>4. ASSUME NEW E, Answered(msgs, E), m.kind # "asks", NEW i \in DOMAIN more,
             more[i].kind = "asks"
      PROVE  Followed(more, i) \/ more[i].id[1] \in E
  <2>1. i \in DOMAIN msgs /\ more[i] = msgs[i]
    BY <1>1, <1>4
  <2>2. Followed(msgs, i) => Followed(more, i)
    <3>1. SUFFICES ASSUME i < Len(msgs), msgs[i + 1] = Results(msgs[i].id)
                   PROVE  i < Len(more) /\ more[i + 1] = Results(more[i].id)
      BY DEF Followed
    <3>2. i + 1 \in DOMAIN msgs /\ i < Len(more)
      BY <1>1, <2>1, <3>1
    <3>3. QED
      BY <1>1, <2>1, <3>1, <3>2
  <2>3. QED
    BY <1>4, <2>1, <2>2 DEF Answered
<1>5. \A E : Answered(msgs, E) /\ m.kind # "asks" => Answered(more, E)
  BY <1>4 DEF Answered
<1>6. QED
  BY <1>1, <1>2, <1>3, <1>5 DEF SaidMore, more

\* A transcript to which something is added that comes after all that it has.
Later(f, e) == Saying(e) => \A d \in ToSet(f) : Saying(d) => Before(Said(d), Said(e))

WrittenMore(more, f, e) ==
  /\ more \in Seq(Entry) /\ ToSet(more) = ToSet(f) \cup {e}
  /\ Heard(f) \subseteq Heard(more)
  /\ FileOrdered(f) /\ Later(f, e) => FileOrdered(more)
  /\ FileProper(f) /\ ProperEntry(e) => FileProper(more)
  /\ \A i \in DOMAIN f : more[i] = f[i] /\ (FileFollowed(f, i) => FileFollowed(more, i))
  /\ \A i \in DOMAIN more : i \in DOMAIN f \/ (i = Len(f) + 1 /\ more[i] = e)
  /\ Len(more) = Len(f) + 1 /\ Len(f) \in Nat /\ DOMAIN f = 1..Len(f)
  /\ e.type # "turn_result" => \A t : HasEnded(more, t) = HasEnded(f, t)

LEMMA WriteMore ==
  ASSUME NEW f \in Seq(Entry), NEW e \in Entry
  PROVE  WrittenMore(Append(f, e), f, e)
<1> DEFINE more == Append(f, e)
<1>1. /\ more \in Seq(Entry) /\ more # <<>>
      /\ DOMAIN f = 1..Len(f) /\ Len(f) \in Nat
      /\ Len(more) = Len(f) + 1 /\ DOMAIN more = 1..Len(f) + 1
      /\ \A i \in DOMAIN f : i \in DOMAIN more /\ more[i] = f[i]
      /\ more[Len(f) + 1] = e
      /\ \A i \in DOMAIN more : i \in DOMAIN f \/ i = Len(f) + 1
      /\ ToSet(more) = ToSet(f) \cup {e}
  BY AppendForm DEF Extended, more
<1>2. Heard(f) \subseteq Heard(more)
  BY HeardGrows
<1> HIDE DEF more
<1>3. ASSUME Later(f, e), FileOrdered(f)
      PROVE  FileOrdered(more)
  <2>1. SUFFICES ASSUME NEW i \in DOMAIN more, NEW j \in DOMAIN more, i < j,
                        Saying(more[i]), Saying(more[j])
                 PROVE  Before(Said(more[i]), Said(more[j]))
    BY DEF FileOrdered
  <2>2. i \in DOMAIN f /\ more[i] = f[i]
    BY <1>1, <2>1
  <2>3. CASE j \in DOMAIN f
    BY <1>1, <1>3, <2>1, <2>2, <2>3 DEF FileOrdered
  <2>4. CASE j = Len(f) + 1
    <3>1. f[i] \in ToSet(f)
      BY <2>2 DEF ToSet
    <3>2. QED
      BY <1>1, <1>3, <2>1, <2>2, <2>4, <3>1 DEF Later
  <2>5. QED
    BY <1>1, <2>1, <2>3, <2>4
<1>4. FileProper(f) /\ ProperEntry(e) => FileProper(more)
  BY <1>1 DEF FileProper
<1>5. ASSUME NEW i \in DOMAIN f, FileFollowed(f, i)
      PROVE  FileFollowed(more, i)
  <2>1. i + 1 \in DOMAIN f /\ i < Len(more)
    BY <1>1, <1>5 DEF FileFollowed
  <2>2. QED
    BY <1>1, <1>5, <2>1 DEF FileFollowed
<1>6. e.type # "turn_result" => \A t : HasEnded(more, t) = HasEnded(f, t)
  <2>1. \A t, how : Ended(t, how).type = "turn_result"
    BY DEF Ended
  <2>2. QED
    BY <1>1, <2>1 DEF HasEnded
<1>7. QED
  BY <1>1, <1>2, <1>3, <1>4, <1>5, <1>6 DEF WrittenMore, more

(***************************************************************************)
(* What the invariant says of a state                                      *)
(***************************************************************************)

LEMMA SaidForm ==
  ASSUME NEW e \in Entry, ProperEntry(e), Saying(e)
  PROVE  /\ Said(e) \in Proper /\ Said(e) \in Message /\ Spoken(Said(e))
         /\ e.turn \in Nat /\ Said(e).id[1] = e.turn /\ Said(e).id[2] \in Nat
<1>1. Said(e) \in Proper /\ Spoken(Said(e)) /\ e.turn \in Nat
  BY EntryForm
<1>2. Said(e) \in Message /\ Said(e).id[2] \in Nat
  BY <1>1, MessageForm DEF Proper
<1>3. CASE e.type = "accepted_input"
  <2>1. Said(e) = Prompt(e.turn)
    BY <1>3, EntryForm
  <2>2. QED
    BY <1>1, <1>2, <2>1, SameKind
<1>4. CASE e.type = "message"
  BY <1>1, <1>2, <1>4 DEF Said, ProperEntry
<1>5. QED
  BY <1>3, <1>4, EntryForm DEF Saying

\* What comes before a message of this turn is of an earlier one, or no later answer.
LEMMA NoLater ==
  ASSUME NEW m \in Message, NEW n \in Message, NEW t \in Nat, NEW k \in Nat,
         Before(m, n), n.id[1] = t, n.id[2] <= k
  PROVE  m.id[1] < t \/ m.id[2] <= k
<1>1. m.id[1] \in Nat /\ m.id[2] \in Nat /\ n.id[2] \in Nat /\ m.id = <<m.id[1], m.id[2]>>
  BY MessageForm
<1>2. QED
  BY <1>1 DEF Before

\* What is of an earlier turn, or no later answer, comes before the next.
LEMMA ComesNext ==
  ASSUME NEW m \in Message, NEW n \in Message, NEW t \in Nat, NEW k \in Nat,
         m.id[1] < t \/ (m.id[1] = t /\ m.id[2] <= k), n.id = <<t, k + 1>>
  PROVE  Before(m, n)
<1>1. m.id[1] \in Nat /\ m.id[2] \in Nat
  BY MessageForm
<1>2. n.id[1] = t /\ n.id[2] = k + 1
  OBVIOUS
<1>3. QED
  BY <1>1, <1>2 DEF Before

\* The types that the invariant of the control state and this one give.
LEMMA StateForm ==
  ASSUME Inv, ConversationInv
  PROVE  /\ file \in Seq(Entry) /\ turn \in Nat /\ answers \in Nat /\ told \in Seq(Message)
         /\ phase \in Phase /\ end \in EndOf
         /\ memory \in Seq(Proper) /\ accepted \in Seq(Proper) /\ working \in Seq(Proper)
         /\ Ordered(memory) /\ Ordered(accepted) /\ Ordered(working)
         /\ FileOrdered(file) /\ FileProper(file)
         /\ \A e \in ToSet(file) :
              /\ e \in Entry /\ ProperEntry(e)
              /\ Saying(e) => /\ Said(e) \in Proper /\ Said(e) \in Message
                              /\ e.turn \in Nat /\ Said(e).id[1] = e.turn
                              /\ Said(e).id[2] \in Nat
         /\ ToSet(told) \subseteq Message
<1>1. /\ file \in Seq(Entry) /\ turn \in Nat /\ answers \in Nat /\ told \in Seq(Message)
      /\ phase \in Phase /\ end \in EndOf
  BY DEF Inv, ControlTypeOK
<1>2. /\ memory \in Seq(Proper) /\ accepted \in Seq(Proper) /\ working \in Seq(Proper)
      /\ Ordered(memory) /\ Ordered(accepted) /\ Ordered(working)
      /\ FileOrdered(file) /\ FileProper(file)
  BY DEF ConversationInv, MessagesInv, OrderInv
<1>3. ASSUME NEW e \in ToSet(file)
      PROVE  /\ e \in Entry /\ ProperEntry(e)
             /\ Saying(e) => /\ Said(e) \in Proper /\ Said(e) \in Message
                             /\ e.turn \in Nat /\ Said(e).id[1] = e.turn
                             /\ Said(e).id[2] \in Nat
  <2>1. e \in Entry /\ ProperEntry(e)
    BY <1>1, <1>2, <1>3, ElementOf DEF FileProper
  <2>2. QED
    BY <2>1, SaidForm
<1>4. ToSet(told) \subseteq Message
  BY <1>1, ElementOf
<1>5. QED
  BY <1>1, <1>2, <1>3, <1>4

\* Messages that the session is known to have, by their turns.
LEMMA HeardIsOld ==
  ASSUME Inv, ConversationInv, NEW m \in Heard(file)
  PROVE  m \in Proper /\ m.id[1] <= turn
<1>1. PICK e \in ToSet(file) : m = Said(e) /\ Counts(file, e)
  BY DEF Heard
<1>2. Saying(e)
  BY <1>1 DEF Counts, Saying
<1>3. Said(e) \in Proper /\ Said(e).id[1] = e.turn /\ e.turn <= turn
  BY <1>1, <1>2, StateForm DEF ConversationInv, BoundInv
<1>4. QED
  BY <1>1, <1>3

\* What the loop works on is of an earlier turn, or no later than the last answer.
LEMMA WorkedOn ==
  ASSUME Inv, ConversationInv, InLoop, NEW m \in SpokenIn(working)
  PROVE  /\ m \in Proper /\ m \in Message
         /\ m.id[1] < turn \/ (m.id[1] = turn /\ m.id[2] <= answers)
<1>1. m \in Proper /\ m \in Message
  BY StateForm, ElementOf DEF SpokenIn, Proper
<1>2. phase # "idle"
  BY DEF InLoop
<1>3. m \in SpokenIn(memory) => m.id[1] < turn
  BY <1>2 DEF ConversationInv, KnownInv
<1>4. m = Prompt(turn) => m.id[1] = turn /\ m.id[2] <= answers
  <2>1. Prompt(turn).id = <<turn, 0>> /\ answers \in Nat
    BY SameKind, StateForm
  <2>2. QED
    BY <2>1
<1>5. m \in ToSet(told) => m.id[1] = turn /\ m.id[2] <= answers
  BY <1>2 DEF ConversationInv, KnownInv, OfThisTurn
<1>6. m \in SpokenIn(memory) \/ m = Prompt(turn) \/ m \in ToSet(told)
  BY <1>2 DEF ConversationInv, KnownInv
<1>7. QED
  BY <1>1, <1>3, <1>4, <1>5, <1>6

LEMMA SameExcused ==
  ASSUME file' = file
  PROVE  Excused' = Excused
BY DEF Excused

(***************************************************************************)
(* Steps that end a turn or move on within its loop                        *)
(***************************************************************************)

LEMMA NothingLeft ==
  /\ <<>> \in Seq(Proper) /\ <<>> \in Seq(Message)
  /\ Ordered(<<>>) /\ WellPaired(<<>>) /\ ToSet(<<>>) = {} /\ SpokenIn(<<>>) = {}
BY DEF Ordered, WellPaired, PairedBut, CallsPaired, ResultsPaired, ResultsOnce, Awaited, NoId,
       SpokenIn, ToSet

LEMMA InitConversation ==
  ASSUME Init
  PROVE  ConversationInv
<1>1. /\ memory = <<>> /\ accepted = <<>> /\ working = <<>> /\ request = <<>> /\ file = <<>>
      /\ told = <<>> /\ phase = "idle" /\ ToSet(file) = {}
  BY NothingLeft DEF Init
<1>2. MessagesInv
  BY <1>1, NothingLeft DEF MessagesInv
<1>3. OrderInv
  BY <1>1, NothingLeft DEF OrderInv, FileOrdered, FileProper
<1>4. KnownInv
  BY <1>1, NothingLeft DEF KnownInv, InLoop
<1>5. BoundInv /\ ShapeInv
  BY <1>1 DEF BoundInv, ShapeInv, InLoop, Answering
<1>6. AnsweredInv /\ FileInv
  BY <1>1 DEF AnsweredInv, FileInv, Answered, InLoop
<1>7. QED
  BY <1>2, <1>3, <1>4, <1>5, <1>6 DEF ConversationInv

\* A step that ends the turn, when what memory has then is in order, in the transcript and
\* answered.
LEMMA OverStep ==
  ASSUME Inv, ConversationInv, TurnOver, turn' = turn,
         memory' \in Seq(Proper), Ordered(memory'), SpokenIn(memory') \subseteq Heard(file'),
         Answered(memory', Excused'), FileOrdered(file'), FileProper(file'),
         \A e \in ToSet(file') : Saying(e) => e.turn <= turn,
         FileInv'
  PROVE  ConversationInv'
<1>1. phase' = "idle" /\ accepted' = <<>> /\ working' = <<>> /\ request' = <<>>
  BY DEF TurnOver
<1>2. MessagesInv'
  BY <1>1, NothingLeft DEF MessagesInv
<1>3. OrderInv'
  BY <1>1, NothingLeft DEF OrderInv
<1>4. KnownInv'
  BY <1>1 DEF KnownInv, InLoop
<1>5. BoundInv'
  BY <1>1 DEF BoundInv, LastUnwritten
<1>6. ShapeInv'
  BY <1>1 DEF ShapeInv, InLoop, Answering
<1>7. AnsweredInv'
  BY <1>1 DEF AnsweredInv, Answered, InLoop
<1>8. QED
  BY <1>2, <1>3, <1>4, <1>5, <1>6, <1>7 DEF ConversationInv

\* The transcript is as it was: then it is enough that memory is.
LEMMA OverUnwritten ==
  ASSUME Inv, ConversationInv, TurnOver, turn' = turn, file' = file,
         memory' \in Seq(Proper), Ordered(memory'), SpokenIn(memory') \subseteq Heard(file),
         Answered(memory', Excused)
  PROVE  ConversationInv'
<1>1. Excused' = Excused
  BY SameExcused
<1>2. FileOrdered(file) /\ FileProper(file)
  BY StateForm
<1>3. \A e \in ToSet(file) : Saying(e) => e.turn <= turn
  BY DEF ConversationInv, BoundInv
<1>4. FileInv'
  <2>1. phase' = "idle"
    BY DEF TurnOver
  <2>2. FileInv
    BY DEF ConversationInv
  <2>3. QED
    BY <1>1, <2>1, <2>2 DEF FileInv
<1>5. QED
  BY <1>1, <1>2, <1>3, <1>4, OverStep

\* The turn is given up: memory and transcript stay.
LEMMA GivenUp ==
  ASSUME Inv, ConversationInv, TurnOver, UNCHANGED <<memory, file, turn>>
  PROVE  ConversationInv'
<1>1. /\ memory \in Seq(Proper) /\ Ordered(memory) /\ SpokenIn(memory) \subseteq Heard(file)
      /\ Answered(memory, Excused)
  BY StateForm DEF ConversationInv, KnownInv, AnsweredInv
<1>2. QED
  BY <1>1, OverUnwritten

\* What the session had when the loop began becomes its memory.
LEMMA BackToAccepted ==
  ASSUME Inv, ConversationInv, TurnOver, UNCHANGED <<file, turn>>, memory' = accepted,
         phase \in {"hooks", "thrown"}
  PROVE  ConversationInv'
<1>1. accepted \in Seq(Proper) /\ Ordered(accepted) /\ Answered(accepted, Excused)
  BY StateForm DEF ConversationInv, AnsweredInv
<1>2. Prompt(turn) \in Heard(file)
  <2>1. Input(turn) \in ToSet(file)
    BY DEF ConversationInv, KnownInv
  <2>2. Said(Input(turn)) = Prompt(turn) /\ Counts(file, Input(turn))
    BY DEF Said, Input, Counts
  <2>3. QED
    BY <2>1, <2>2 DEF Heard
<1>3. SpokenIn(accepted) \subseteq Heard(file)
  BY <1>2 DEF ConversationInv, KnownInv
<1>4. QED
  BY <1>1, <1>3, OverUnwritten

\* A resumed session has what the transcript holds.
LEMMA FileIsAnswered ==
  ASSUME Inv, ConversationInv
  PROVE  FileAnswered(file, Excused)
BY DEF ConversationInv, FileInv, FileAnswered

LEMMA ResumeStep ==
  ASSUME Inv, ConversationInv, Resume
  PROVE  ConversationInv'
<1>1. file \in Seq(Entry) /\ FileOrdered(file) /\ FileProper(file)
  BY StateForm
<1>2. FileAnswered(file, Excused)
  BY FileIsAnswered
<1>3. /\ Replayed(file) \in Seq(Proper) /\ Ordered(Replayed(file))
      /\ ToSet(Replayed(file)) = Heard(file)
  BY <1>1, ReplayForm
<1>4. Answered(Replayed(file), Excused)
  BY <1>1, <1>2, ReplayForm
<1>5. SpokenIn(Replayed(file)) \subseteq Heard(file)
  BY <1>3 DEF SpokenIn
<1>6. TurnOver /\ turn' = turn /\ file' = file /\ memory' = Replayed(file)
  BY DEF Resume
<1>7. QED
  BY <1>3, <1>4, <1>5, <1>6, OverUnwritten

\* The phases in which the loop has calls without results nowhere.
Settled == {"top", "requested", "streaming", "stopping", "recovering"}

\* How the loop moves on without saying or writing anything.
Moves ==
  \/ phase \in Settled /\ phase' \in {"top", "requested", "streaming", "ending"}
  \/ phase \in {"top", "requested"} /\ phase' = "throwing"
  \/ phase \in {"detected", "running"} /\ phase' = "ending" /\ end' = "aborted"
  \/ phase = "detected" /\ phase' = "running"
  \/ phase \in LastUnwritten \cup {"ending"} /\ phase' = "throwing" /\ broken' = TRUE

LEMMA LoopStep ==
  ASSUME Inv, ConversationInv, Moves,
         UNCHANGED <<memory, file, turn, told, answers, accepted>>,
         working' = working \/ (phase \in Settled /\ Reduces(working', working)),
         request' \in Seq(Message), WellPaired(request')
  PROVE  ConversationInv'
<1> USE DEF Settled, LastUnwritten
<1>1. InLoop /\ InLoop' /\ phase' \notin {"idle", "accepting"} /\ phase \notin {"idle", "accepting"}
  BY DEF Moves, InLoop
<1>2. /\ working \in Seq(Proper) /\ Ordered(working) /\ working # <<>>
  BY <1>1, StateForm DEF ConversationInv, ShapeInv
<1>3. /\ working' \in Seq(Proper) /\ working' # <<>> /\ Ordered(working')
      /\ SpokenIn(working') \subseteq SpokenIn(working)
  <2>1. CASE working' = working
    BY <1>2, <2>1
  <2>2. CASE Reduces(working', working)
    BY <1>2, <2>2, DrawnOrdered DEF Reduces
  <2>3. QED
    BY <2>1, <2>2
<1>4. Excused' = Excused /\ ThisId' = ThisId
  BY SameExcused DEF ThisId
<1>5. MessagesInv'
  BY <1>3 DEF MessagesInv, ConversationInv
<1>6. OrderInv'
  BY <1>3 DEF OrderInv, ConversationInv
<1>7. KnownInv'
  BY <1>1, <1>3 DEF KnownInv, ConversationInv, OfThisTurn
<1>8. BoundInv'
  <2>1. SUFFICES ASSUME NEW e \in ToSet(file), Saying(e)
                 PROVE  /\ e.turn <= turn
                        /\ phase' \in {"top", "requested", "streaming", "ending"} =>
                             e.turn < turn \/ Said(e).id[2] <= answers
                        /\ phase' \in {"detected", "running"} => Before(Said(e), Results(ThisId))
    BY <1>1, <1>4 DEF BoundInv, Moves
  <2>2. /\ e.turn <= turn
        /\ phase \in {"top", "requested", "streaming", "stopping", "recovering", "ending"} =>
             e.turn < turn \/ Said(e).id[2] <= answers
        /\ phase \in {"detected", "running"} => Before(Said(e), Results(ThisId))
    BY <2>1 DEF ConversationInv, BoundInv
  <2>3. CASE phase \in {"detected", "running"} /\ phase' = "ending"
    <3>1. /\ Said(e) \in Message /\ Said(e).id[1] = e.turn /\ turn \in Nat /\ answers \in Nat
      BY <2>1, StateForm
    <3>2. ThisId[1] = turn /\ ThisId[2] = answers
      BY DEF ThisId
    <3>3. Results(ThisId).id = ThisId /\ Results(ThisId) \in Message
      BY <3>1, SameKind, MessageTypes DEF ThisId
    <3>4. e.turn < turn \/ Said(e).id[2] <= answers
      BY <2>2, <2>3, <3>1, <3>2, <3>3, NoLater
    <3>5. QED
      BY <2>2, <2>3, <3>4
  <2>4. QED
    BY <2>2, <2>3 DEF Moves
<1>9. ShapeInv'
  <2>1. accepted # <<>>
    BY <1>1 DEF ConversationInv, ShapeInv
  <2>2. phase' = "running" => answers > 0 /\ Len(working') >= 2 /\ Last(working') = Asks(ThisId)
    BY DEF Moves, ConversationInv, ShapeInv, Answering, EndsWith
  <2>3. phase' \in {"top", "requested", "streaming", "ending", "throwing", "running"}
    BY DEF Moves
  <2>4. QED
    BY <1>3, <1>4, <2>1, <2>2, <2>3 DEF ShapeInv, Answering, EndsWith
<1>10. AnsweredInv'
  <2>1. /\ Answered(memory, Excused) /\ Answered(accepted, Excused)
        /\ \A i \in DOMAIN working : working[i].kind = "asks" =>
             \/ Followed(working, i)
             \/ working[i].id[1] \in Excused
             \/ i = Len(working) /\ working[i].id[1] = turn /\ MayDangle
    BY <1>1 DEF ConversationInv, AnsweredInv
  <2>2. phase \notin Settled => (MayDangle => MayDangle') /\ working' = working
    BY DEF Moves, MayDangle
  <2>3. CASE phase \in Settled
    <3>1. Answered(working, Excused)
      BY <2>1, <2>3 DEF Answered, MayDangle
    <3>2. Answered(working', Excused)
      BY <3>1 DEF Reduces
    <3>3. QED
      BY <1>4, <2>1, <3>2 DEF AnsweredInv, Answered
  <2>4. CASE phase \notin Settled
    BY <1>4, <2>1, <2>2, <2>4 DEF AnsweredInv
  <2>5. QED
    BY <2>3, <2>4
<1>11. FileInv'
  <2>1. SUFFICES ASSUME NEW i \in DOMAIN file, file[i].type = "message",
                        file[i].msg.kind = "asks", FileInv, file[i].turn = turn, FileDangling(i)
                 PROVE  (phase' = "throwing" /\ broken') \/ FileDangling(i)'
    <3>1. FileInv
      BY DEF ConversationInv
    <3>2. phase \notin {"idle", "thrown", "throwing"}
      BY DEF Moves
    <3>3. QED
      BY <1>4, <2>1, <3>1, <3>2 DEF FileInv
  <2>2. QED
    BY <1>4, <2>1 DEF FileDangling, Moves
<1>12. QED
  BY <1>5, <1>6, <1>7, <1>8, <1>9, <1>10, <1>11 DEF ConversationInv

LEMMA CompactStep ==
  ASSUME Inv, ConversationInv, phase \in {"top", "requested"}, MayCompact
  PROVE  /\ Reduces(working', working)
         /\ Repaired(working') \in Seq(Message) /\ WellPaired(Repaired(working'))
<1>1. /\ working \in Seq(Proper) /\ Ordered(working) /\ working # <<>>
  BY StateForm DEF ConversationInv, ShapeInv, InLoop
<1>2. \A less \in Snips(working) : Reduces(less, working)
  BY <1>1, SnipsReduce
<1>3. Reduces(working', working)
  <2>1. CASE working' = working
    BY <1>1, <2>1, ReducesSelf
  <2>2. CASE working' \in MicroCompacted(working)
    BY <1>1, <2>2, MicroCompactedReduces
  <2>3. CASE working' \in Snips(working)
    BY <1>2, <2>3
  <2>4. ASSUME NEW msgs \in IF Snips(working) = {} THEN {working} ELSE Snips(working),
               NEW summarized \in BOOLEAN, working' = Compacted(msgs, summarized)
        PROVE  Reduces(working', working)
    <3>1. Reduces(msgs, working)
      BY <1>1, <1>2, <2>4, ReducesSelf
    <3>2. msgs \in Seq(Proper) /\ msgs # <<>>
      BY <3>1 DEF Reduces
    <3>3. Reduces(Compacted(msgs, summarized), msgs)
      BY <3>2, CompactedReduces
    <3>4. QED
      BY <2>4, <3>1, <3>3, ReducesTransitive
  <2>5. QED
    BY <2>1, <2>2, <2>3, <2>4 DEF MayCompact, Compactions
<1>4. working' \in Seq(Proper) /\ Ordered(working')
  BY <1>1, <1>3, DrawnOrdered DEF Reduces
<1>5. QED
  BY <1>3, <1>4, RepairedWellPaired

LEMMA AskAgainReduces ==
  ASSUME Inv, ConversationInv, AskAgain
  PROVE  Reduces(working', working)
<1>1. /\ working \in Seq(Proper) /\ working # <<>> /\ phase = "recovering"
      /\ EndsWithPair \/ EndsWith(Says(ThisId))
  BY StateForm DEF ConversationInv, ShapeInv, InLoop, AskAgain
<1>2. Len(working) >= 2 /\ (Last(working).kind = "results" => Len(working) >= 3)
  <2>1. CASE EndsWithPair
    BY <1>1, <2>1 DEF EndsWithPair
  <2>2. CASE EndsWith(Says(ThisId))
    BY <2>2, SameKind DEF EndsWith
  <2>3. QED
    BY <1>1, <2>1, <2>2
<1>3. Reduces(WithoutErrorPair(working), working)
  BY <1>1, <1>2, WithoutErrorPairReduces
<1>4. Reduces(TruncatedHead(WithoutErrorPair(working)), working)
  <2>1. WithoutErrorPair(working) \in Seq(Proper) /\ WithoutErrorPair(working) # <<>>
    BY <1>3 DEF Reduces
  <2>2. QED
    BY <1>3, <2>1, TruncatedHeadReduces, ReducesTransitive
<1>5. Reduces(Append(working, Note), working)
  BY <1>1, ReducesSelf, NoteReduces
<1>6. QED
  BY <1>3, <1>4, <1>5 DEF AskAgain, Correct, Truncate, StripImages, RaiseLimit

LEMMA NoteAddedReduces ==
  ASSUME NEW msgs \in Seq(Proper), msgs # <<>>, NEW more, NotesAdded(msgs, more)
  PROVE  Reduces(more, msgs)
BY ReducesSelf, NoteReduces DEF NotesAdded

\* The steps that say and write nothing and stay in the loop.
LEMMA LoopSteps ==
  ASSUME Inv, ConversationInv,
         \/ \E at \in {"top", "requested", "streaming", "detected", "running"} : AbortCheck(at)
         \/ BuildRequest \/ Route \/ RequestFails \/ StreamFails \/ AskAgain \/ GiveUp
         \/ StopHooks \/ StartTools
         \/ phase \in LastUnwritten \cup {"ending"} /\ CannotWrite /\ Throw
  PROVE  ConversationInv'
<1> USE DEF Settled
<1>1. request \in Seq(Message) /\ WellPaired(request)
  BY DEF ConversationInv, MessagesInv
<1>2. ASSUME NEW at \in {"top", "requested", "streaming", "detected", "running"},
             AbortCheck(at)
      PROVE  ConversationInv'
  <2>1. /\ Moves /\ UNCHANGED <<memory, file, turn, told, answers, accepted>>
        /\ working' = working /\ request' = request
    BY <1>2 DEF AbortCheck, EndTurn, Moves, sessionVars, diskVars
  <2>2. QED
    BY <1>1, <2>1, LoopStep
<1>3. CASE BuildRequest
  <2>1. /\ Moves /\ UNCHANGED <<memory, file, turn, told, answers, accepted>>
        /\ phase = "top" /\ MayCompact /\ request' = Repaired(working')
    BY <1>3 DEF BuildRequest, Moves, sessionVars, diskVars
  <2>2. /\ Reduces(working', working)
        /\ Repaired(working') \in Seq(Message) /\ WellPaired(Repaired(working'))
    BY <2>1, CompactStep
  <2>3. QED
    BY <2>1, <2>2, LoopStep
<1>4. CASE Route
  <2>1. /\ Moves /\ UNCHANGED <<memory, file, turn, told, answers, accepted>>
        /\ phase = "requested" /\ MayCompact
        /\ request' = request \/ request' = Repaired(working')
    BY <1>4 DEF Route, Moves, sessionVars, diskVars
  <2>2. /\ Reduces(working', working)
        /\ Repaired(working') \in Seq(Message) /\ WellPaired(Repaired(working'))
    BY <2>1, CompactStep
  <2>3. request' \in Seq(Message) /\ WellPaired(request')
    BY <1>1, <2>1, <2>2
  <2>4. QED
    BY <2>1, <2>2, <2>3, LoopStep
<1>5. CASE RequestFails \/ StreamFails \/ GiveUp
  <2>1. /\ Moves /\ UNCHANGED <<memory, file, turn, told, answers, accepted>>
        /\ working' = working /\ request' = request
    BY <1>5 DEF RequestFails, StreamFails, GiveUp, Throw, EndTurn, Moves, sessionVars, diskVars,
                loopVars
  <2>2. QED
    BY <1>1, <2>1, LoopStep
<1>6. CASE AskAgain
  <2>1. /\ Moves /\ UNCHANGED <<memory, file, turn, told, answers, accepted>>
        /\ phase = "recovering" /\ request' = request
    BY <1>6 DEF AskAgain, Moves, sessionVars, diskVars
  <2>2. Reduces(working', working)
    BY <1>6, AskAgainReduces
  <2>3. QED
    BY <1>1, <2>1, <2>2, LoopStep
<1>7. CASE StopHooks
  <2>1. /\ Moves /\ UNCHANGED <<memory, file, turn, told, answers, accepted>>
        /\ phase = "stopping" /\ request' = request /\ NotesAdded(working, working')
    BY <1>7 DEF StopHooks, EndTurn, Moves, sessionVars, diskVars
  <2>2. working \in Seq(Proper) /\ working # <<>>
    BY <2>1, StateForm DEF ConversationInv, ShapeInv, InLoop
  <2>3. Reduces(working', working)
    BY <2>1, <2>2, NoteAddedReduces
  <2>4. QED
    BY <1>1, <2>1, <2>3, LoopStep
<1>8. CASE StartTools
  <2>1. /\ Moves /\ UNCHANGED <<memory, file, turn, told, answers, accepted>>
        /\ working' = working /\ request' = request
    BY <1>8 DEF StartTools, Moves, sessionVars, diskVars, loopVars
  <2>2. QED
    BY <1>1, <2>1, LoopStep
<1>9. CASE phase \in LastUnwritten \cup {"ending"} /\ CannotWrite /\ Throw
  <2>1. phase' = "throwing" /\ broken' = TRUE
    <3>1. broken \in BOOLEAN
      BY DEF Inv, ControlTypeOK
    <3>2. QED
      BY <1>9, <3>1 DEF Throw, CannotWrite, diskVars
  <2>2. /\ Moves /\ UNCHANGED <<memory, file, turn, told, answers, accepted>>
        /\ working' = working /\ request' = request
    BY <1>9, <2>1 DEF Throw, CannotWrite, Moves, sessionVars, diskVars, loopVars
  <2>3. QED
    BY <1>1, <2>2, LoopStep
<1>10. QED
  BY <1>2, <1>3, <1>4, <1>5, <1>6, <1>7, <1>8, <1>9

(***************************************************************************)
(* Steps before the loop                                                   *)
(***************************************************************************)

LEMMA SubmitStep ==
  ASSUME Inv, ConversationInv, Submit
  PROVE  ConversationInv'
<1>1. /\ phase = "idle" /\ phase' = "accepting" /\ turn' = turn + 1 /\ told' = <<>>
      /\ accepted' = Append(memory, Prompt(turn + 1))
      /\ UNCHANGED <<memory, file, working, request, end, answers>>
  BY DEF Submit, diskVars
<1>2. /\ memory \in Seq(Proper) /\ Ordered(memory) /\ turn \in Nat /\ answers \in Nat
      /\ SpokenIn(memory) \subseteq Heard(file) /\ Answered(memory, Excused)
  BY StateForm DEF ConversationInv, KnownInv, AnsweredInv
<1>3. /\ Prompt(turn + 1) \in Proper /\ Prompt(turn + 1).id = <<turn + 1, 0>>
      /\ Prompt(turn + 1).kind = "prompt"
  BY <1>2, SameKind
<1>4. \A m \in SpokenIn(memory) : m.id[1] < turn + 1 /\ Before(m, Prompt(turn + 1))
  <2>1. SUFFICES ASSUME NEW m \in SpokenIn(memory)
                 PROVE  m.id[1] < turn + 1 /\ Before(m, Prompt(turn + 1))
    OBVIOUS
  <2>2. m.id[1] <= turn /\ m.id[1] \in Nat
    BY <1>2, <2>1, HeardIsOld, MessageForm DEF Proper
  <2>3. m.id[1] < turn + 1 /\ Prompt(turn + 1).id[1] = turn + 1
    BY <1>2, <1>3, <2>2
  <2>4. QED
    BY <2>3 DEF Before
<1>5. /\ accepted' \in Seq(Proper) /\ accepted' # <<>> /\ Ordered(accepted')
      /\ SpokenIn(accepted') \subseteq SpokenIn(memory) \cup {Prompt(turn + 1)}
      /\ Answered(accepted', Excused)
  BY <1>1, <1>2, <1>3, <1>4, SayMore DEF SaidMore
<1>6. Excused' = Excused
  BY <1>1, SameExcused
<1>7. MessagesInv'
  BY <1>1, <1>5 DEF MessagesInv, ConversationInv
<1>8. OrderInv'
  BY <1>1, <1>5 DEF OrderInv, ConversationInv
<1>9. KnownInv'
  <2>1. ToSet(told') = {}
    BY <1>1, NothingLeft
  <2>2. QED
    BY <1>1, <1>2, <1>4, <1>5, <2>1 DEF KnownInv, InLoop
<1>10. \A e \in ToSet(file) : Saying(e) => e.turn \in Nat /\ e.turn <= turn
  BY StateForm DEF ConversationInv, BoundInv
<1>11. BoundInv'
  <2>1. \A e \in ToSet(file) : Saying(e) => e.turn < turn + 1 /\ e.turn <= turn + 1
    BY <1>2, <1>10
  <2>2. QED
    BY <1>1, <2>1 DEF BoundInv, LastUnwritten
<1>12. ShapeInv'
  BY <1>1 DEF ShapeInv, InLoop, Answering
<1>13. AnsweredInv'
  BY <1>1, <1>2, <1>5, <1>6 DEF AnsweredInv, InLoop
<1>14. FileInv'
  <2>1. FileInv /\ file \in Seq(Entry)
    BY StateForm DEF ConversationInv
  <2>2. \A i \in DOMAIN file : file[i].type = "message" => file[i].turn # turn + 1
    <3>1. SUFFICES ASSUME NEW i \in DOMAIN file, file[i].type = "message"
                   PROVE  file[i].turn # turn + 1
      OBVIOUS
    <3>2. file[i] \in ToSet(file) /\ Saying(file[i])
      BY <3>1, <2>1, ElementOf DEF Saying
    <3>3. QED
      BY <1>2, <1>10, <3>2
  <2>3. QED
    BY <1>1, <1>6, <2>1, <2>2 DEF FileInv
<1>15. QED
  BY <1>7, <1>8, <1>9, <1>11, <1>12, <1>13, <1>14 DEF ConversationInv

\* Writing what says something, but no result of a turn: which turns are over, and which
\* of them were aborted, stays.
LEMMA WriteKeepsEnds ==
  ASSUME Inv, NEW e \in Entry, Writes(e), e.type # "turn_result"
  PROVE  /\ file' = Append(file, e) /\ Excused' = Excused
         /\ \A t : HasEnded(file', t) = HasEnded(file, t)
<1>1. file' = Append(file, e) /\ file \in Seq(Entry)
  BY DEF Writes, Inv, ControlTypeOK
<1>2. \A t : HasEnded(file', t) = HasEnded(file, t)
  BY <1>1, WriteMore DEF WrittenMore
<1>3. ToSet(file') = ToSet(file) \cup {e}
  BY <1>1, WriteMore DEF WrittenMore
<1>4. \A t : Ended(t, "aborted") # e
  BY DEF Ended
<1>5. QED
  BY <1>1, <1>2, <1>3, <1>4 DEF Excused

LEMMA RecordInputStep ==
  ASSUME Inv, ConversationInv, RecordInput
  PROVE  ConversationInv'
<1>1. CASE CannotWrite /\ TurnOver
  BY <1>1, GivenUp DEF RecordInput, CannotWrite, diskVars, sessionVars
<1>2. CASE Writes(Input(turn)) /\ phase' = "hooks" /\ UNCHANGED <<loopVars, answers>>
  <2>1. /\ phase = "accepting" /\ phase' = "hooks"
        /\ UNCHANGED <<memory, turn, told, accepted, working, request, end, answers>>
    BY <1>2 DEF RecordInput, sessionVars, loopVars
  <2> DEFINE e == Input(turn)
  <2>2. /\ file \in Seq(Entry) /\ turn \in Nat /\ answers \in Nat
        /\ FileOrdered(file) /\ FileProper(file)
    BY StateForm
  <2>3. /\ e \in Entry /\ e.type = "accepted_input" /\ e.turn = turn /\ Saying(e)
        /\ ProperEntry(e) /\ Said(e) = Prompt(turn)
    BY <2>2 DEF Input, Entry, Saying, ProperEntry, Said
  <2>4. /\ file' = Append(file, e) /\ Excused' = Excused
        /\ \A t : HasEnded(file', t) = HasEnded(file, t)
    BY <1>2, <2>3, WriteKeepsEnds
  <2>5. \A d \in ToSet(file) : Saying(d) => /\ d.turn < turn /\ d.turn <= turn
                                            /\ Before(Said(d), Prompt(turn))
    <3>1. SUFFICES ASSUME NEW d \in ToSet(file), Saying(d)
                   PROVE  d.turn < turn /\ d.turn <= turn /\ Before(Said(d), Prompt(turn))
      OBVIOUS
    <3>2. d.turn < turn /\ d.turn <= turn
      BY <2>1, <3>1 DEF ConversationInv, BoundInv
    <3>3. Said(d).id[1] = d.turn /\ Prompt(turn).id = <<turn, 0>>
      BY <3>1, StateForm, SameKind
    <3>4. QED
      BY <3>2, <3>3 DEF Before
  <2> HIDE DEF e
  <2>6. Later(file, e)
    BY <2>3, <2>5 DEF Later
  <2>7. /\ ToSet(file') = ToSet(file) \cup {e} /\ Heard(file) \subseteq Heard(file')
        /\ FileOrdered(file') /\ FileProper(file')
        /\ \A i \in DOMAIN file : /\ file'[i] = file[i]
                                  /\ FileFollowed(file, i) => FileFollowed(file', i)
        /\ \A i \in DOMAIN file' : i \in DOMAIN file \/ (i = Len(file) + 1 /\ file'[i] = e)
    BY <2>2, <2>3, <2>4, <2>6, WriteMore DEF WrittenMore
  <2>8. MessagesInv'
    BY <2>1 DEF MessagesInv, ConversationInv
  <2>9. OrderInv'
    BY <2>1, <2>7 DEF OrderInv, ConversationInv
  <2>10. KnownInv'
    BY <2>1, <2>7 DEF KnownInv, ConversationInv, InLoop, OfThisTurn, e
  <2>11. BoundInv'
    <3>1. e.turn <= turn /\ Said(e).id[2] <= answers
      BY <2>2, <2>3, SameKind
    <3>2. \A d \in ToSet(file') : Saying(d) =>
            /\ d.turn <= turn /\ (d.turn < turn \/ Said(d).id[2] <= answers)
      BY <2>5, <2>7, <3>1
    <3>3. QED
      BY <2>1, <3>2 DEF BoundInv, LastUnwritten
  <2>12. ShapeInv'
    BY <2>1 DEF ShapeInv, InLoop, Answering, ConversationInv
  <2>13. AnsweredInv'
    BY <2>1, <2>4 DEF AnsweredInv, InLoop, ConversationInv
  <2>14. FileInv'
    <3>1. SUFFICES ASSUME NEW i \in DOMAIN file', file'[i].type = "message",
                          file'[i].msg.kind = "asks"
                   PROVE  \/ FileFollowed(file', i)
                          \/ file'[i].turn \in Excused
                          \/ ~HasEnded(file', file'[i].turn) /\ file'[i].turn # turn
      BY <2>1, <2>4 DEF FileInv
    <3>2. i \in DOMAIN file /\ file'[i] = file[i]
      BY <2>3, <2>7, <3>1
    <3>3. file[i] \in ToSet(file) /\ Saying(file[i])
      BY <2>2, <3>1, <3>2, ElementOf DEF Saying
    <3>4. file[i].turn # turn
      BY <2>2, <2>5, <3>3
    <3>5. FileInv
      BY DEF ConversationInv
    <3>6. QED
      BY <2>4, <2>7, <3>1, <3>2, <3>4, <3>5 DEF FileInv
  <2>15. QED
    BY <2>8, <2>9, <2>10, <2>11, <2>12, <2>13, <2>14 DEF ConversationInv
<1>3. QED
  BY <1>1, <1>2 DEF RecordInput

LEMMA PromptHooksStep ==
  ASSUME Inv, ConversationInv, PromptHooks
  PROVE  ConversationInv'
<1>1. phase = "hooks" /\ UNCHANGED <<turn, file, told>>
  BY DEF PromptHooks, diskVars
<1>2. CASE memory' = accepted /\ TurnOver
  BY <1>1, <1>2, BackToAccepted
<1>3. CASE /\ NotesAdded(accepted, accepted') /\ working' = accepted' /\ phase' = "top"
           /\ UNCHANGED <<memory, request, end, answers>>
  <2>1. /\ accepted \in Seq(Proper) /\ accepted # <<>> /\ Ordered(accepted)
        /\ Answered(accepted, Excused)
    BY <1>1, StateForm DEF ConversationInv, ShapeInv, AnsweredInv
  <2>2. Reduces(accepted', accepted)
    BY <1>3, <2>1, NoteAddedReduces
  <2>3. /\ accepted' \in Seq(Proper) /\ accepted' # <<>> /\ Ordered(accepted')
        /\ SpokenIn(accepted') \subseteq SpokenIn(accepted) /\ Answered(accepted', Excused)
    BY <2>1, <2>2, DrawnOrdered DEF Reduces
  <2>4. Excused' = Excused
    BY <1>1, SameExcused
  <2>5. MessagesInv'
    BY <1>3, <2>3 DEF MessagesInv, ConversationInv
  <2>6. OrderInv'
    BY <1>1, <1>3, <2>3 DEF OrderInv, ConversationInv
  <2>7. KnownInv'
    BY <1>1, <1>3, <2>3 DEF KnownInv, ConversationInv, OfThisTurn
  <2>8. BoundInv'
    BY <1>1, <1>3 DEF BoundInv, ConversationInv, LastUnwritten
  <2>9. ShapeInv'
    BY <1>3, <2>3 DEF ShapeInv, Answering
  <2>10. AnsweredInv'
    BY <1>1, <1>3, <2>3, <2>4 DEF AnsweredInv, ConversationInv, Answered
  <2>11. FileInv'
    BY <1>1, <2>4 DEF FileInv, ConversationInv, FileDangling
  <2>12. QED
    BY <2>5, <2>6, <2>7, <2>8, <2>9, <2>10, <2>11 DEF ConversationInv
<1>4. QED
  BY <1>2, <1>3 DEF PromptHooks

(***************************************************************************)
(* Steps that say something                                                *)
(***************************************************************************)

\* What holds of calls and results in the loop holds when something follows them: the last
\* calls may be what dangles.
LEMMA WorkingGrows ==
  ASSUME NEW msgs \in Seq(Proper), NEW m \in Proper, NEW i \in DOMAIN msgs
  PROVE  /\ i \in DOMAIN Append(msgs, m) /\ Append(msgs, m)[i] = msgs[i]
         /\ Followed(msgs, i) => Followed(Append(msgs, m), i)
         /\ i = Len(msgs) /\ m = Results(msgs[i].id) => Followed(Append(msgs, m), i)
<1> DEFINE more == Append(msgs, m)
<1>1. /\ DOMAIN msgs = 1..Len(msgs) /\ Len(msgs) \in Nat /\ Len(more) = Len(msgs) + 1
      /\ \A k \in DOMAIN msgs : k \in DOMAIN more /\ more[k] = msgs[k]
      /\ more[Len(msgs) + 1] = m
  BY AppendForm DEF Extended
<1> HIDE DEF more
<1>2. ASSUME Followed(msgs, i)
      PROVE  Followed(more, i)
  <2>1. i + 1 \in DOMAIN msgs /\ i < Len(more)
    BY <1>1, <1>2 DEF Followed
  <2>2. QED
    BY <1>1, <1>2, <2>1 DEF Followed
<1>3. ASSUME i = Len(msgs), m = Results(msgs[i].id)
      PROVE  Followed(more, i)
  BY <1>1, <1>3 DEF Followed
<1>4. QED
  BY <1>1, <1>2, <1>3 DEF more

LEMMA AnswerStep ==
  ASSUME Inv, ConversationInv, NEW error, NEW calls \in BOOLEAN, Answer(error, calls)
  PROVE  ConversationInv'
<1> DEFINE id == <<turn, answers + 1>>
           m == IF calls THEN Asks(id) ELSE Says(id)
<1>1. /\ phase = "streaming" /\ phase' = "saying" /\ answers' = answers + 1
      /\ answer' = [error |-> error, calls |-> calls]
      /\ working' = Append(working, m) /\ told' = Append(told, m)
      /\ UNCHANGED <<memory, turn, file, accepted, request, end>>
  BY DEF Answer, sessionVars, diskVars
<1>2. /\ turn \in Nat /\ answers \in Nat /\ working \in Seq(Proper) /\ Ordered(working)
      /\ told \in Seq(Message) /\ working # <<>> /\ InLoop
  BY <1>1, StateForm DEF ConversationInv, ShapeInv, InLoop
<1>3. /\ m \in Proper /\ m \in Message /\ m.id = id /\ Spoken(m) /\ m.kind \in Speech
      /\ m.kind = "asks" => calls
  BY <1>2, SameKind DEF Proper, Speech
<1>4. ThisId' = id /\ answer'.calls = calls
  BY <1>1 DEF ThisId
<1>5. m = (IF answer'.calls THEN Asks(ThisId') ELSE Says(ThisId'))
  BY <1>4
<1>6. id[1] = turn /\ id[2] = answers + 1
  OBVIOUS
<1> HIDE DEF m, id
<1>7. \A n \in SpokenIn(working) : Before(n, m)
  BY <1>2, <1>3, WorkedOn, ComesNext DEF id
<1>8. SaidMore(working', working, m)
  BY <1>1, <1>2, <1>3, <1>7, SayMore
<1>9. Extended(Message, told', told, m) /\ Extended(Proper, working', working, m)
  BY <1>1, <1>2, <1>3, AppendForm
<1>10. Excused' = Excused
  BY <1>1, SameExcused
<1>11. MessagesInv'
  BY <1>1, <1>8 DEF MessagesInv, ConversationInv, SaidMore
<1>12. OrderInv'
  BY <1>1, <1>8 DEF OrderInv, ConversationInv, SaidMore
<1>13. KnownInv'
  <2>1. \A n \in ToSet(told') : OfThisTurn(n)'
    <3>1. SUFFICES ASSUME NEW n \in ToSet(told')
                   PROVE  n \in Proper /\ n.kind \in Speech /\ n.id[1] = turn /\ n.id[2] <= answers + 1
      BY <1>1 DEF OfThisTurn
    <3>2. CASE n = m
      BY <1>2, <1>3, <1>6, <3>2
    <3>3. CASE n \in ToSet(told)
      <4>1. n \in Proper /\ n.kind \in Speech /\ n.id[1] = turn /\ n.id[2] <= answers
        BY <1>1, <3>3 DEF ConversationInv, KnownInv, OfThisTurn
      <4>2. n.id[2] \in Nat
        BY <4>1, MessageForm DEF Proper
      <4>3. QED
        BY <1>2, <4>1, <4>2
    <3>4. QED
      BY <1>9, <3>2, <3>3 DEF Extended
  <2>2. SpokenIn(working') \subseteq SpokenIn(accepted) \cup ToSet(told')
    BY <1>2, <1>8, <1>9 DEF SaidMore, Extended, ConversationInv, KnownInv
  <2>3. QED
    BY <1>1, <2>1, <2>2 DEF KnownInv, ConversationInv
<1>14. BoundInv'
  <2>1. SUFFICES ASSUME NEW e \in ToSet(file), Saying(e)
                 PROVE  e.turn <= turn /\ Before(Said(e), m)
    BY <1>1, <1>9 DEF BoundInv, Extended
  <2>2. e.turn <= turn /\ (e.turn < turn \/ Said(e).id[2] <= answers)
    BY <1>1, <2>1 DEF ConversationInv, BoundInv
  <2>3. Said(e) \in Message /\ Said(e).id[1] = e.turn /\ e.turn \in Nat
    BY <2>1, StateForm
  <2>4. Said(e).id[1] < turn \/ (Said(e).id[1] = turn /\ Said(e).id[2] <= answers)
    BY <1>2, <2>2, <2>3
  <2>5. QED
    BY <1>2, <1>3, <2>2, <2>3, <2>4, ComesNext DEF id
<1>15. ShapeInv'
  <2>1. Len(working') >= 2 /\ Last(working') = m /\ Last(told') = m /\ told' # <<>>
    <3>1. Len(working) >= 1
      BY <1>2, ElementOf
    <3>2. QED
      BY <3>1, <1>9 DEF Extended
  <2>2. answers' > 0 /\ working' # <<>> /\ accepted' # <<>>
    BY <1>1, <1>2, <1>9 DEF Extended, ConversationInv, ShapeInv
  <2>3. QED
    BY <1>1, <1>5, <2>1, <2>2 DEF ShapeInv, EndsWith
<1>16. AnsweredInv'
  <2>1. \A i \in DOMAIN working : working[i].kind = "asks" =>
          Followed(working, i) \/ working[i].id[1] \in Excused
    BY <1>1, <1>2 DEF ConversationInv, AnsweredInv, MayDangle
  <2>2. ASSUME NEW i \in DOMAIN working', working'[i].kind = "asks"
        PROVE  \/ Followed(working', i)
               \/ working'[i].id[1] \in Excused
               \/ i = Len(working') /\ working'[i].id[1] = turn
    <3>1. CASE i \in DOMAIN working
      BY <1>1, <1>2, <1>3, <2>1, <2>2, <3>1, WorkingGrows
    <3>2. CASE i = Len(working) + 1
      BY <1>3, <1>6, <1>9, <3>2 DEF Extended
    <3>3. QED
      BY <1>9, <3>1, <3>2 DEF Extended
  <2>3. QED
    BY <1>1, <1>10, <2>2 DEF AnsweredInv, MayDangle, ConversationInv
<1>17. FileInv'
  BY <1>1, <1>10 DEF FileInv, ConversationInv, FileDangling
<1>18. QED
  BY <1>11, <1>12, <1>13, <1>14, <1>15, <1>16, <1>17 DEF ConversationInv

\* The results of the last calls of the loop.
LEMMA ResultsFollow ==
  ASSUME Inv, ConversationInv, InLoop, answers > 0, EndsWith(Asks(ThisId)),
         NEW more, more = Append(working, Results(ThisId))
  PROVE  /\ more \in Seq(Proper) /\ more # <<>> /\ Ordered(more)
         /\ SpokenIn(more) \subseteq SpokenIn(working) \cup {Results(ThisId)}
         /\ Answered(more, Excused)
         /\ Len(more) >= 3 /\ Last(more) = Results(ThisId) /\ more[Len(more) - 1] = Asks(ThisId)
         /\ Results(ThisId) \in Proper /\ Results(ThisId) \in Message
<1> DEFINE m == Results(ThisId)
           n == Len(working)
<1>1. /\ turn \in Nat /\ answers \in Nat /\ working \in Seq(Proper) /\ Ordered(working)
      /\ working # <<>>
  BY StateForm DEF ConversationInv, ShapeInv
<1>2. /\ m \in Proper /\ m \in Message /\ m.id = ThisId /\ Spoken(m) /\ m.kind = "results"
  BY <1>1, SameKind DEF ThisId, Proper
<1>3. n \in DOMAIN working /\ working[n] = Asks(ThisId) /\ n >= 2 /\ n \in Nat
  BY <1>1, ElementOf DEF EndsWith
<1>4. /\ Asks(ThisId).kind = "asks" /\ Asks(ThisId).id = ThisId /\ Spoken(Asks(ThisId))
      /\ Before(Asks(ThisId), m) /\ Asks(ThisId) \in Message
  BY <1>1, <1>2, SameKind, MessageTypes DEF Before, ThisId
<1> HIDE DEF m
<1>5. \A l \in SpokenIn(working) : Before(l, m)
  <2>1. SUFFICES ASSUME NEW l \in SpokenIn(working)
                 PROVE  Before(l, m)
    OBVIOUS
  <2>2. PICK i \in DOMAIN working : l = working[i]
    BY DEF SpokenIn, ToSet
  <2>3. Spoken(l) /\ l \in Message
    BY <1>1, <2>2, ElementOf DEF SpokenIn, Proper
  <2>4. CASE i = n
    BY <1>3, <1>4, <2>2, <2>4
  <2>5. CASE i < n
    <3>1. Before(l, Asks(ThisId))
      BY <1>1, <1>3, <1>4, <2>2, <2>3, <2>5 DEF Ordered
    <3>2. QED
      BY <1>2, <1>4, <2>3, <3>1, BeforeTransitive
  <2>6. QED
    BY <1>1, <2>2, <2>4, <2>5, ElementOf
<1>6. SaidMore(more, working, m)
  BY <1>1, <1>2, <1>5, SayMore DEF m
<1>7. Extended(Proper, more, working, m)
  BY <1>1, <1>2, AppendForm DEF m
<1>8. Answered(more, Excused)
  <2>1. SUFFICES ASSUME NEW i \in DOMAIN more, more[i].kind = "asks"
                 PROVE  Followed(more, i) \/ more[i].id[1] \in Excused
    BY DEF Answered
  <2>2. i \in DOMAIN working /\ more[i] = working[i]
    BY <1>2, <1>7, <2>1 DEF Extended
  <2>3. Followed(working, i) \/ working[i].id[1] \in Excused \/ i = n
    BY <2>1, <2>2 DEF ConversationInv, AnsweredInv
  <2>4. Followed(working, i) => Followed(more, i)
    BY <1>1, <1>2, <2>2, WorkingGrows DEF m
  <2>5. i = n => Followed(more, i)
    BY <1>1, <1>2, <1>3, <1>4, <2>2, WorkingGrows DEF m
  <2>6. QED
    BY <2>2, <2>3, <2>4, <2>5
<1>9. Len(more) >= 3 /\ Last(more) = m /\ more[Len(more) - 1] = Asks(ThisId)
  <2>1. Len(more) = n + 1 /\ more[n] = working[n] /\ Last(more) = m
    BY <1>3, <1>7 DEF Extended
  <2>2. Len(more) >= 3 /\ Len(more) - 1 = n
    BY <1>3, <2>1
  <2>3. QED
    BY <1>3, <2>1, <2>2
<1>10. QED
  BY <1>2, <1>6, <1>8, <1>9 DEF SaidMore, m

LEMMA ToolsEndStep ==
  ASSUME Inv, ConversationInv, ToolsEnd
  PROVE  ConversationInv'
<1> DEFINE m == Results(ThisId)
<1>1. /\ phase = "running" /\ phase' = "projecting"
      /\ working' = Append(working, m) /\ told' = Append(told, m)
      /\ UNCHANGED <<memory, turn, file, accepted, request, end, answers>>
  BY DEF ToolsEnd, sessionVars, diskVars, ThisId
<1>2. InLoop /\ answers > 0 /\ EndsWith(Asks(ThisId))
  BY <1>1 DEF ConversationInv, ShapeInv, InLoop, Answering
<1>3. /\ working' \in Seq(Proper) /\ working' # <<>> /\ Ordered(working')
      /\ SpokenIn(working') \subseteq SpokenIn(working) \cup {m}
      /\ Answered(working', Excused)
      /\ Len(working') >= 3 /\ Last(working') = m /\ working'[Len(working') - 1] = Asks(ThisId)
      /\ m \in Proper /\ m \in Message
  BY <1>1, <1>2, ResultsFollow
<1>4. /\ turn \in Nat /\ answers \in Nat /\ told \in Seq(Message)
      /\ m.id = ThisId /\ m.kind \in Speech
  BY StateForm, SameKind DEF Speech
<1>5. ThisId[1] = turn /\ ThisId[2] = answers /\ ThisId' = ThisId
  BY <1>1 DEF ThisId
<1> HIDE DEF m
<1>6. Extended(Message, told', told, m)
  BY <1>1, <1>3, <1>4, AppendForm
<1>7. Excused' = Excused
  BY <1>1, SameExcused
<1>8. MessagesInv'
  BY <1>1, <1>3 DEF MessagesInv, ConversationInv
<1>9. OrderInv'
  BY <1>1, <1>3 DEF OrderInv, ConversationInv
<1>10. KnownInv'
  <2>1. OfThisTurn(m)
    BY <1>3, <1>4, <1>5 DEF OfThisTurn
  <2>2. \A n : OfThisTurn(n)' <=> OfThisTurn(n)
    BY <1>1 DEF OfThisTurn
  <2>3. \A n \in ToSet(told') : OfThisTurn(n)'
    BY <1>1, <1>6, <2>1, <2>2 DEF ConversationInv, KnownInv, Extended
  <2>4. SpokenIn(working') \subseteq SpokenIn(accepted) \cup ToSet(told')
    BY <1>2, <1>3, <1>6 DEF Extended, ConversationInv, KnownInv
  <2>5. QED
    BY <1>1, <2>3, <2>4 DEF KnownInv, ConversationInv
<1>11. BoundInv'
  BY <1>1, <1>6 DEF BoundInv, ConversationInv, Extended, m
<1>12. ShapeInv'
  <2>1. accepted # <<>> /\ answers > 0
    BY <1>1, <1>2 DEF ConversationInv, ShapeInv
  <2>2. EndsWithPair'
    BY <1>3, <1>5 DEF EndsWithPair, m
  <2>3. told' # <<>> /\ Last(told') = Results(ThisId')
    BY <1>5, <1>6 DEF Extended, m
  <2>4. QED
    BY <1>1, <1>3, <2>1, <2>2, <2>3 DEF ShapeInv
<1>13. AnsweredInv'
  BY <1>1, <1>3, <1>7 DEF AnsweredInv, ConversationInv, Answered
<1>14. FileInv'
  BY <1>1, <1>5, <1>7 DEF FileInv, ConversationInv, FileDangling
<1>15. QED
  BY <1>8, <1>9, <1>10, <1>11, <1>12, <1>13, <1>14 DEF ConversationInv

(***************************************************************************)
(* Steps that write what has been said                                     *)
(***************************************************************************)

\* The transcript after the message handed over last has been written.
JustWritten ==
  /\ Last(told) \in Message /\ Last(told) \in ToSet(told)
  /\ FileOrdered(file') /\ FileProper(file')
  /\ Heard(file) \subseteq Heard(file') /\ ToSet(file) \subseteq ToSet(file')
  /\ Excused' = Excused
  /\ \A d \in ToSet(file') : Saying(d) =>
       /\ d.turn <= turn /\ (d.turn < turn \/ Said(d).id[2] <= answers)
       /\ Said(d) \in Message /\ (Said(d) = Last(told) \/ Before(Said(d), Last(told)))
  /\ \A i \in DOMAIN file' : file'[i].type = "message" /\ file'[i].msg.kind = "asks" =>
       \/ FileFollowed(file', i)
       \/ file'[i].turn \in Excused
       \/ /\ ~HasEnded(file', file'[i].turn)
          /\ file'[i].turn = turn => i = Len(file') /\ file'[i].msg = Last(told)

LEMMA LastIsWritten ==
  ASSUME Inv, ConversationInv, phase \in LastUnwritten, Writes(Durable(turn, Last(told)))
  PROVE  JustWritten
<1> DEFINE m == Last(told)
           e == Durable(turn, m)
<1>1. /\ file \in Seq(Entry) /\ turn \in Nat /\ answers \in Nat /\ told \in Seq(Message)
      /\ FileOrdered(file) /\ FileProper(file) /\ phase \notin {"idle", "thrown"}
      /\ phase # "throwing"
  BY StateForm DEF LastUnwritten
<1>2. told # <<>> /\ ~HasEnded(file, turn)
  BY <1>1 DEF Inv, RecordedInv, AllButLast
<1>3. m \in Message /\ m \in ToSet(told)
  BY <1>1, <1>2, LastIsMessage
<1>4. m \in Proper /\ m.kind \in Speech /\ m.id[1] = turn /\ m.id[2] <= answers
  BY <1>1, <1>3 DEF ConversationInv, KnownInv, OfThisTurn
<1>5. /\ e \in Entry /\ e.type = "message" /\ e.turn = turn /\ e.msg = m
      /\ Saying(e) /\ Said(e) = m /\ ProperEntry(e)
  BY <1>1, <1>3, <1>4 DEF Durable, Entry, Saying, Said, ProperEntry
<1> HIDE DEF m
<1>6. Writes(e)
  BY DEF m
<1> HIDE DEF e
<1>7. /\ file' = Append(file, e) /\ Excused' = Excused
      /\ \A t : HasEnded(file', t) = HasEnded(file, t)
  BY <1>5, <1>6, WriteKeepsEnds
<1>8. WrittenMore(file', file, e)
  BY <1>1, <1>5, <1>7, WriteMore
<1>9. \A d \in ToSet(file) : Saying(d) =>
        d.turn <= turn /\ Before(Said(d), m) /\ Said(d) \in Message /\ Said(d).id[1] = d.turn
  BY StateForm DEF ConversationInv, BoundInv, m
<1>10. Later(file, e)
  BY <1>5, <1>9 DEF Later
<1>11. FileOrdered(file') /\ FileProper(file')
  BY <1>1, <1>5, <1>8, <1>10 DEF WrittenMore
<1>12. ASSUME NEW d \in ToSet(file'), Saying(d)
       PROVE  /\ d.turn <= turn /\ (d.turn < turn \/ Said(d).id[2] <= answers)
              /\ Said(d) \in Message /\ (Said(d) = m \/ Before(Said(d), m))
  <2>1. CASE d = e
    BY <1>1, <1>3, <1>4, <1>5, <2>1
  <2>2. CASE d \in ToSet(file)
    <3>1. d.turn < turn \/ Said(d).id[2] <= answers
      BY <1>1, <1>3, <1>4, <1>9, <1>12, <2>2, NoLater
    <3>2. QED
      BY <1>9, <1>12, <2>2, <3>1
  <2>3. QED
    BY <1>8, <2>1, <2>2 DEF WrittenMore
<1>13. ASSUME NEW i \in DOMAIN file', file'[i].type = "message", file'[i].msg.kind = "asks"
       PROVE  \/ FileFollowed(file', i)
              \/ file'[i].turn \in Excused
              \/ /\ ~HasEnded(file', file'[i].turn)
                 /\ file'[i].turn = turn => i = Len(file') /\ file'[i].msg = m
  <2>1. CASE i = Len(file) + 1 /\ file'[i] = e
    BY <1>2, <1>5, <1>7, <1>8, <2>1 DEF WrittenMore
  <2>2. CASE i \in DOMAIN file
    <3>1. file'[i] = file[i] /\ (FileFollowed(file, i) => FileFollowed(file', i))
      BY <1>8, <2>2 DEF WrittenMore
    <3>2. \/ FileFollowed(file, i)
          \/ file[i].turn \in Excused
          \/ /\ ~HasEnded(file, file[i].turn)
             /\ file[i].turn = turn => FileDangling(i)
      BY <1>1, <1>13, <2>2, <3>1 DEF ConversationInv, FileInv
    <3>3. ASSUME file[i].turn = turn, FileDangling(i)
          PROVE  FileFollowed(file', i)
      <4>1. i = Len(file) /\ phase \in {"failedCalls", "projecting"} /\ file[i].msg.id = ThisId
        BY <3>3 DEF FileDangling, LastUnwritten
      <4>2. m = Results(ThisId)
        BY <4>1 DEF ConversationInv, ShapeInv, m
      <4>3. e = Durable(turn, Results(ThisId))
        BY <4>2 DEF e
      <4>4. file'[Len(file) + 1] = e /\ Len(file') = Len(file) + 1 /\ Len(file) \in Nat
        BY <1>1, <1>5, <1>7, AppendForm DEF Extended
      <4>5. QED
        BY <3>1, <3>3, <4>1, <4>3, <4>4 DEF FileFollowed
    <3>4. QED
      BY <1>7, <3>1, <3>2, <3>3
  <2>3. QED
    BY <1>8, <2>1, <2>2 DEF WrittenMore
<1>14. Heard(file) \subseteq Heard(file') /\ ToSet(file) \subseteq ToSet(file')
  BY <1>8 DEF WrittenMore
<1>15. QED
  BY <1>3, <1>7, <1>11, <1>12, <1>13, <1>14 DEF JustWritten, m

\* What comes no later than the calls comes before their results.
LEMMA BeforeResults ==
  ASSUME NEW t \in Nat, NEW n \in Nat, NEW m \in Message,
         m = Asks(<<t, n>>) \/ Before(m, Asks(<<t, n>>))
  PROVE  Before(m, Results(<<t, n>>))
<1>1. /\ Asks(<<t, n>>) \in Message /\ Results(<<t, n>>) \in Message
      /\ Before(Asks(<<t, n>>), Results(<<t, n>>))
  BY SameKind, MessageTypes DEF Before
<1>2. QED
  BY <1>1, BeforeTransitive

\* The turn goes on when its last message is on disk.
LEMMA WrittenStep ==
  ASSUME Inv, ConversationInv, phase \in LastUnwritten, JustWritten,
         UNCHANGED <<memory, turn, accepted, working, request, answers, told>>,
         \/ /\ phase' \in {"top", "recovering", "stopping", "ending"}
            /\ Last(told).kind # "asks" /\ Last(working).kind # "asks"
         \/ phase' = "detected" /\ Last(told) = Asks(ThisId),
         ShapeInv'
  PROVE  ConversationInv'
<1> USE DEF LastUnwritten
<1>1. /\ InLoop /\ InLoop' /\ phase' \notin {"idle", "accepting", "hooks"}
      /\ turn \in Nat /\ answers \in Nat /\ working \in Seq(Proper) /\ ThisId' = ThisId
  BY StateForm DEF InLoop, ThisId
<1>2. Excused' = Excused
  BY DEF JustWritten
<1>3. MessagesInv'
  BY DEF MessagesInv, ConversationInv
<1>4. OrderInv'
  BY DEF OrderInv, ConversationInv, JustWritten
<1>5. KnownInv'
  <2>1. \A n : OfThisTurn(n)' <=> OfThisTurn(n)
    BY DEF OfThisTurn
  <2>2. QED
    BY <1>1, <2>1 DEF KnownInv, ConversationInv, JustWritten, InLoop
<1>6. BoundInv'
  <2>1. ASSUME phase' = "detected", NEW d \in ToSet(file'), Saying(d)
        PROVE  Before(Said(d), Results(ThisId))
    BY <1>1, <2>1, BeforeResults DEF JustWritten, ThisId
  <2>2. QED
    BY <1>1, <2>1 DEF BoundInv, JustWritten
<1>7. AnsweredInv'
  <2>1. /\ Answered(memory, Excused) /\ Answered(accepted, Excused)
        /\ \A i \in DOMAIN working : working[i].kind = "asks" =>
             \/ Followed(working, i)
             \/ working[i].id[1] \in Excused
             \/ i = Len(working) /\ working[i].id[1] = turn
    BY <1>1 DEF ConversationInv, AnsweredInv
  <2>2. CASE Last(working).kind # "asks"
    BY <1>1, <1>2, <2>1, <2>2, ElementOf DEF AnsweredInv, Last
  <2>3. CASE phase' = "detected"
    BY <1>1, <1>2, <2>1, <2>3 DEF AnsweredInv, MayDangle
  <2>4. QED
    BY <2>2, <2>3
<1>8. FileInv'
  <2>1. SUFFICES ASSUME NEW i \in DOMAIN file', file'[i].type = "message",
                        file'[i].msg.kind = "asks", i = Len(file'), file'[i].msg = Last(told)
                 PROVE  FileDangling(i)'
    BY <1>2 DEF FileInv, JustWritten
  <2>2. phase' = "detected" /\ Last(told) = Asks(ThisId)
    BY <2>1
  <2>3. file'[i].msg.id = ThisId
    BY <2>1, <2>2, SameKind
  <2>4. QED
    BY <1>1, <2>1, <2>2, <2>3 DEF FileDangling
<1>9. QED
  BY <1>3, <1>4, <1>5, <1>6, <1>7, <1>8 DEF ConversationInv

LEMMA RecordAnswerStep ==
  ASSUME Inv, ConversationInv, RecordAnswer
  PROVE  ConversationInv'
<1>1. phase = "saying" /\ phase \in LastUnwritten
  BY DEF RecordAnswer, LastUnwritten
<1>2. CASE CannotWrite /\ Throw
  BY <1>1, <1>2, LoopSteps
<1>3. CASE /\ Writes(Durable(turn, Last(told))) /\ AfterSaying
           /\ UNCHANGED <<memory, turn, accepted, request, answer, end, answers>>
  <2>1. JustWritten
    BY <1>1, <1>3, LastIsWritten
  <2>2. /\ InLoop /\ answers > 0 /\ accepted # <<>> /\ working # <<>>
        /\ Last(told) = Last(working) /\ told # <<>>
        /\ EndsWith(IF answer.calls THEN Asks(ThisId) ELSE Says(ThisId))
        /\ ThisId' = ThisId /\ turn \in Nat /\ answers \in Nat
    BY <1>1, <1>3, StateForm DEF ConversationInv, ShapeInv, InLoop, Answering, ThisId
  <2>3. CASE answer.error # NoError /\ answer.calls
    <3> DEFINE m == Results(ThisId)
    <3>1. /\ working' = Append(working, m) /\ told' = Append(told, m) /\ phase' = "failedCalls"
      BY <1>3, <2>3 DEF AfterSaying, ThisId
    <3>2. EndsWith(Asks(ThisId)) /\ Last(told) = Asks(ThisId)
      BY <2>2, <2>3 DEF EndsWith
    <3>3. /\ working' \in Seq(Proper) /\ working' # <<>> /\ Ordered(working')
          /\ SpokenIn(working') \subseteq SpokenIn(working) \cup {m}
          /\ Answered(working', Excused)
          /\ Len(working') >= 3 /\ Last(working') = m
          /\ working'[Len(working') - 1] = Asks(ThisId)
          /\ m \in Proper /\ m \in Message
      BY <2>2, <3>1, <3>2, ResultsFollow
    <3>4. m.kind \in Speech /\ m.id = ThisId /\ ThisId[1] = turn /\ ThisId[2] = answers
      BY SameKind DEF Speech, ThisId
    <3>5. told \in Seq(Message)
      BY StateForm
    <3> HIDE DEF m
    <3>6. Extended(Message, told', told, m)
      BY <3>1, <3>3, <3>5, AppendForm
    <3>7. MessagesInv'
      BY <1>3, <3>3 DEF MessagesInv, ConversationInv
    <3>8. OrderInv'
      BY <1>3, <2>1, <3>3 DEF OrderInv, ConversationInv, JustWritten
    <3>9. KnownInv'
      <4>1. OfThisTurn(m)
        BY <2>2, <3>3, <3>4 DEF OfThisTurn
      <4>2. \A n : OfThisTurn(n)' <=> OfThisTurn(n)
        BY <1>3 DEF OfThisTurn
      <4>3. \A n \in ToSet(told') : OfThisTurn(n)'
        BY <1>1, <3>6, <4>1, <4>2 DEF ConversationInv, KnownInv, Extended
      <4>4. SpokenIn(working') \subseteq SpokenIn(accepted) \cup ToSet(told')
        BY <2>2, <3>3, <3>6 DEF Extended, ConversationInv, KnownInv
      <4>5. QED
        BY <1>1, <1>3, <2>1, <3>1, <4>3, <4>4 DEF KnownInv, ConversationInv, JustWritten
    <3>10. BoundInv'
      <4>1. \A d \in ToSet(file') : Saying(d) => d.turn <= turn /\ Before(Said(d), m)
        BY <2>1, <2>2, <3>2, BeforeResults DEF JustWritten, ThisId, m
      <4>2. Last(told') = m
        BY <3>6 DEF Extended
      <4>3. QED
        BY <1>3, <3>1, <4>1, <4>2 DEF BoundInv
    <3>11. ShapeInv'
      <4>1. EndsWithPair'
        BY <2>2, <3>3 DEF EndsWithPair, m
      <4>2. told' # <<>> /\ Last(told') = Results(ThisId')
        BY <2>2, <3>6 DEF Extended, m
      <4>3. QED
        BY <1>3, <2>2, <3>1, <3>3, <4>1, <4>2 DEF ShapeInv
    <3>12. AnsweredInv'
      BY <1>3, <2>1, <3>1, <3>3 DEF AnsweredInv, ConversationInv, Answered, JustWritten
    <3>13. FileInv'
      <4>1. Asks(ThisId).id = ThisId
        BY SameKind
      <4>2. QED
        BY <1>3, <2>1, <2>2, <3>1, <3>2, <4>1 DEF FileInv, FileDangling, JustWritten
    <3>14. QED
      BY <3>7, <3>8, <3>9, <3>10, <3>11, <3>12, <3>13 DEF ConversationInv
  <2>4. CASE ~(answer.error # NoError /\ answer.calls)
    <3>1. /\ UNCHANGED <<working, told>>
          /\ phase' = IF answer.error # NoError THEN "recovering"
                      ELSE IF answer.calls THEN "detected" ELSE "stopping"
      BY <1>3, <2>4 DEF AfterSaying
    <3>2. CASE answer.calls
      <4>1. phase' = "detected" /\ EndsWith(Asks(ThisId)) /\ Last(told) = Asks(ThisId)
        BY <2>2, <2>4, <3>1, <3>2 DEF EndsWith
      <4>2. ShapeInv'
        BY <1>3, <2>2, <3>1, <4>1 DEF ShapeInv, EndsWith
      <4>3. QED
        BY <1>1, <1>3, <2>1, <3>1, <4>1, <4>2, WrittenStep
    <3>3. CASE ~answer.calls
      <4>1. phase' \in {"recovering", "stopping"} /\ EndsWith(Says(ThisId))
        BY <2>2, <3>1, <3>3
      <4>2. Last(told).kind # "asks" /\ Last(working).kind # "asks"
        BY <2>2, <4>1, SameKind DEF EndsWith
      <4>3. ShapeInv'
        BY <1>3, <2>2, <3>1, <4>1 DEF ShapeInv, EndsWith
      <4>4. QED
        BY <1>1, <1>3, <2>1, <3>1, <4>1, <4>2, <4>3, WrittenStep
    <3>4. QED
      BY <3>2, <3>3
  <2>5. QED
    BY <2>3, <2>4
<1>4. QED
  BY <1>2, <1>3 DEF RecordAnswer, sessionVars

LEMMA RecordRestStep ==
  ASSUME Inv, ConversationInv, RecordFailedCalls \/ RecordResults
  PROVE  ConversationInv'
<1>1. phase \in {"failedCalls", "projecting"} /\ phase \in LastUnwritten
  BY DEF RecordFailedCalls, RecordResults, LastUnwritten
<1>2. CASE CannotWrite /\ Throw
  BY <1>1, <1>2, LoopSteps
<1>3. CASE /\ Writes(Durable(turn, Last(told))) /\ phase' \in {"top", "recovering", "ending"}
           /\ UNCHANGED <<memory, turn, accepted, working, request, answers, told>>
  <2>1. JustWritten
    BY <1>1, <1>3, LastIsWritten
  <2>2. /\ EndsWithPair /\ Last(told) = Results(ThisId) /\ answers > 0
        /\ accepted # <<>> /\ working # <<>> /\ ThisId' = ThisId
    BY <1>1, <1>3 DEF ConversationInv, ShapeInv, InLoop, Answering, ThisId
  <2>3. Last(told).kind # "asks" /\ Last(working).kind # "asks"
    BY <2>2, SameKind DEF EndsWithPair
  <2>4. ShapeInv'
    BY <1>3, <2>2 DEF ShapeInv, EndsWithPair, Answering
  <2>5. QED
    BY <1>1, <1>3, <2>1, <2>3, <2>4, WrittenStep
<1>4. QED
  BY <1>2, <1>3 DEF RecordFailedCalls, RecordResults, AfterTools, EndTurn, sessionVars, loopVars

(***************************************************************************)
(* Steps that write the result of a turn                                   *)
(***************************************************************************)

LEMMA AnsweredMore ==
  ASSUME NEW msgs, NEW E, NEW F, E \subseteq F, Answered(msgs, E)
  PROVE  Answered(msgs, F)
BY DEF Answered

\* The transcript after the result of the turn has been written.
TurnWritten(how) ==
  /\ FileOrdered(file') /\ FileProper(file')
  /\ Heard(file) \subseteq Heard(file') /\ ToSet(file) \subseteq ToSet(file')
  /\ \A d \in ToSet(file') : Saying(d) => d.turn <= turn
  /\ Excused \subseteq Excused' /\ (how = "aborted" => turn \in Excused')
  /\ HasEnded(file', turn)
  /\ \A i \in DOMAIN file' : file'[i].type = "message" /\ file'[i].msg.kind = "asks" =>
       \/ FileFollowed(file', i)
       \/ file'[i].turn \in Excused'
       \/ ~HasEnded(file', file'[i].turn) /\ file'[i].turn # turn

LEMMA EndIsWritten ==
  ASSUME Inv, ConversationInv, NEW how \in EndOf, Writes(Ended(turn, how)), turn' = turn,
         (phase = "ending" /\ how = end) \/ phase = "throwing"
  PROVE  TurnWritten(how)
<1> DEFINE e == Ended(turn, how)
<1>1. /\ file \in Seq(Entry) /\ turn \in Nat /\ FileOrdered(file) /\ FileProper(file)
      /\ file' = Append(file, e) /\ ~broken
  BY StateForm DEF Writes
<1>2. e \in Entry /\ e.type = "turn_result" /\ e.turn = turn /\ ~Saying(e) /\ ProperEntry(e)
  BY <1>1 DEF Ended, Entry, Saying, ProperEntry
<1>3. \A t, h : Ended(t, h) = e => t = turn
  BY DEF Ended
<1>4. how = "aborted" => e = Ended(turn, "aborted")
  OBVIOUS
<1>5. \E h \in EndOf : e = Ended(turn, h)
  OBVIOUS
<1> HIDE DEF e
<1>6. WrittenMore(file', file, e)
  BY <1>1, <1>2, WriteMore
<1>7. ToSet(file') = ToSet(file) \cup {e}
  BY <1>6 DEF WrittenMore
<1>8. FileOrdered(file') /\ FileProper(file') /\ Heard(file) \subseteq Heard(file')
  BY <1>1, <1>2, <1>6 DEF WrittenMore, Later
<1>9. \A d \in ToSet(file') : Saying(d) => d.turn <= turn
  BY <1>2, <1>7 DEF ConversationInv, BoundInv
<1>10. Excused \subseteq Excused' /\ (how = "aborted" => turn \in Excused')
  BY <1>1, <1>4, <1>7 DEF Excused
<1>11. HasEnded(file', turn)
  BY <1>5, <1>7 DEF HasEnded
<1>12. \A t : t # turn => HasEnded(file', t) = HasEnded(file, t)
  BY <1>3, <1>7 DEF HasEnded
<1>13. ASSUME NEW i \in DOMAIN file', file'[i].type = "message", file'[i].msg.kind = "asks"
       PROVE  \/ FileFollowed(file', i)
              \/ file'[i].turn \in Excused'
              \/ ~HasEnded(file', file'[i].turn) /\ file'[i].turn # turn
  <2>1. i \in DOMAIN file
    BY <1>2, <1>6, <1>13 DEF WrittenMore
  <2>2. file'[i] = file[i] /\ (FileFollowed(file, i) => FileFollowed(file', i))
    BY <1>6, <2>1 DEF WrittenMore
  <2>3. \/ FileFollowed(file, i)
        \/ file[i].turn \in Excused
        \/ /\ ~HasEnded(file, file[i].turn)
           /\ file[i].turn = turn => FileDangling(i)
    BY <1>1, <1>13, <2>1, <2>2 DEF ConversationInv, FileInv
  <2>4. FileDangling(i) => how = "aborted"
    BY DEF FileDangling
  <2>5. QED
    BY <1>10, <1>12, <2>2, <2>3, <2>4
<1>14. QED
  BY <1>7, <1>8, <1>9, <1>10, <1>11, <1>13 DEF TurnWritten

LEMMA RecordTurnStep ==
  ASSUME Inv, ConversationInv, RecordTurn
  PROVE  ConversationInv'
<1>1. phase = "ending" /\ InLoop
  BY DEF RecordTurn, InLoop
<1>2. CASE CannotWrite /\ Throw
  BY <1>1, <1>2, LoopSteps
<1>3. CASE /\ Writes(Ended(turn, end)) /\ memory' = working /\ TurnOver
           /\ UNCHANGED <<turn, told>>
  <2>1. /\ working \in Seq(Proper) /\ Ordered(working) /\ end \in EndOf
    BY StateForm
  <2>2. TurnWritten(end)
    BY <1>1, <1>3, <2>1, EndIsWritten
  <2>3. SpokenIn(working) \subseteq Heard(file')
    <3>1. SpokenIn(memory) \subseteq Heard(file')
      BY <2>2 DEF TurnWritten, ConversationInv, KnownInv
    <3>2. Prompt(turn) \in Heard(file')
      <4>1. Input(turn) \in ToSet(file')
        BY <1>1, <2>2 DEF TurnWritten, ConversationInv, KnownInv
      <4>2. Said(Input(turn)) = Prompt(turn) /\ Counts(file', Input(turn))
        BY DEF Said, Input, Counts
      <4>3. QED
        BY <4>1, <4>2 DEF Heard
    <3>3. ToSet(told) \subseteq Heard(file')
      <4>1. SUFFICES ASSUME NEW m \in ToSet(told)
                     PROVE  m \in Heard(file')
        OBVIOUS
      <4>2. Durable(turn, m) \in ToSet(file')
        BY <1>1, <2>2 DEF TurnWritten, Inv, RecordedInv, Recorded, AllRecorded
      <4>3. Said(Durable(turn, m)) = m /\ Counts(file', Durable(turn, m))
        BY <2>2 DEF Said, Durable, Counts, TurnWritten
      <4>4. QED
        BY <4>2, <4>3 DEF Heard
    <3>4. QED
      BY <1>1, <3>1, <3>2, <3>3 DEF ConversationInv, KnownInv
  <2>4. Answered(working, Excused')
    <3>1. SUFFICES ASSUME NEW i \in DOMAIN working, working[i].kind = "asks"
                   PROVE  Followed(working, i) \/ working[i].id[1] \in Excused'
      BY DEF Answered
    <3>2. \/ Followed(working, i)
          \/ working[i].id[1] \in Excused
          \/ working[i].id[1] = turn /\ end = "aborted"
      BY <1>1, <3>1 DEF ConversationInv, AnsweredInv, MayDangle
    <3>3. QED
      BY <2>2, <3>2 DEF TurnWritten
  <2>5. FileInv'
    BY <1>3, <2>2 DEF FileInv, TurnWritten
  <2>6. QED
    BY <1>3, <2>1, <2>2, <2>3, <2>4, <2>5, OverStep DEF TurnWritten
<1>4. QED
  BY <1>2, <1>3 DEF RecordTurn

LEMMA RecordThrownStep ==
  ASSUME Inv, ConversationInv, RecordThrown
  PROVE  ConversationInv'
<1>1. /\ phase = "throwing" /\ phase' = "thrown"
      /\ UNCHANGED <<memory, turn, accepted, working, request, end, answers, told>>
  BY DEF RecordThrown, sessionVars, loopVars
<1>2. CASE CannotWrite
  <2>1. file' = file /\ Excused' = Excused
    BY <1>2, SameExcused DEF CannotWrite, diskVars
  <2>2. MessagesInv' /\ OrderInv'
    BY <1>1, <2>1 DEF MessagesInv, OrderInv, ConversationInv
  <2>3. KnownInv' /\ BoundInv'
    BY <1>1, <2>1
       DEF KnownInv, BoundInv, ConversationInv, InLoop, OfThisTurn, LastUnwritten
  <2>4. ShapeInv' /\ AnsweredInv' /\ FileInv'
    BY <1>1, <2>1
       DEF ShapeInv, AnsweredInv, FileInv, ConversationInv, InLoop, Answering, MayDangle
  <2>5. QED
    BY <2>2, <2>3, <2>4 DEF ConversationInv
<1>3. CASE Writes(Ended(turn, "error"))
  <2>1. TurnWritten("error")
    BY <1>1, <1>3, EndIsWritten DEF EndOf
  <2>2. MessagesInv' /\ OrderInv'
    BY <1>1, <2>1 DEF MessagesInv, OrderInv, ConversationInv, TurnWritten
  <2>3. KnownInv' /\ BoundInv'
    BY <1>1, <2>1
       DEF KnownInv, BoundInv, ConversationInv, InLoop, OfThisTurn, LastUnwritten, TurnWritten
  <2>4. ShapeInv'
    BY <1>1 DEF ShapeInv, ConversationInv, InLoop, Answering
  <2>5. AnsweredInv'
    <3>1. /\ Answered(memory, Excused) /\ Answered(accepted, Excused)
          /\ Excused \subseteq Excused'
      BY <2>1 DEF ConversationInv, AnsweredInv, TurnWritten
    <3>2. Answered(memory, Excused') /\ Answered(accepted, Excused')
      BY <3>1, AnsweredMore
    <3>3. QED
      BY <1>1, <3>1, <3>2 DEF ConversationInv, AnsweredInv, InLoop, MayDangle
  <2>6. FileInv'
    BY <1>1, <2>1 DEF FileInv, TurnWritten
  <2>7. QED
    BY <2>2, <2>3, <2>4, <2>5, <2>6 DEF ConversationInv
<1>4. QED
  BY <1>2, <1>3 DEF RecordThrown

(***************************************************************************)
(* Every step                                                              *)
(***************************************************************************)

LEMMA ConversationStep ==
  ASSUME Inv, ConversationInv, [Next]_vars
  PROVE  ConversationInv'
<1>1. CASE Submit \/ RecordInput \/ PromptHooks
  BY <1>1, SubmitStep, RecordInputStep, PromptHooksStep
<1>2. CASE \/ \E at \in {"top", "requested", "streaming", "detected", "running"} :
                AbortCheck(at)
           \/ BuildRequest \/ Route \/ RequestFails \/ StreamFails \/ AskAgain \/ GiveUp
           \/ StopHooks \/ StartTools
  BY <1>2, LoopSteps
<1>3. ASSUME NEW error \in ModelError \cup {NoError}, NEW calls \in BOOLEAN,
             Answer(error, calls)
      PROVE  ConversationInv'
  BY <1>3, AnswerStep
<1>4. CASE RecordAnswer \/ RecordFailedCalls \/ RecordResults \/ ToolsEnd
  BY <1>4, RecordAnswerStep, RecordRestStep, ToolsEndStep
<1>5. CASE RecordTurn \/ RecordThrown \/ Resume
  BY <1>5, RecordTurnStep, RecordThrownStep, ResumeStep
<1>6. CASE Thrown
  BY <1>6, BackToAccepted DEF Thrown, diskVars
<1>7. CASE Abandon
  BY <1>7, GivenUp DEF Abandon, diskVars, sessionVars
<1>8. CASE Abort \/ UNCHANGED vars
  <2>1. UNCHANGED <<memory, turn, file, broken, phase, accepted, working, request, answer, end,
                    answers, told>>
    BY <1>8 DEF Abort, vars, sessionVars, diskVars, loopVars
  <2>2. MessagesInv' /\ OrderInv'
    BY <2>1 DEF MessagesInv, OrderInv, ConversationInv
  <2>3. KnownInv' /\ BoundInv'
    BY <2>1 DEF KnownInv, BoundInv, ConversationInv, InLoop, OfThisTurn, LastUnwritten, ThisId
  <2>4. ShapeInv'
    BY <2>1 DEF ShapeInv, ConversationInv, InLoop, Answering, EndsWith, EndsWithPair, ThisId
  <2>5. AnsweredInv' /\ FileInv'
    BY <2>1 DEF AnsweredInv, FileInv, ConversationInv, InLoop, MayDangle, FileDangling, ThisId,
                Excused
  <2>6. QED
    BY <2>2, <2>3, <2>4, <2>5 DEF ConversationInv
<1>9. QED
  BY <1>1, <1>2, <1>3, <1>4, <1>5, <1>6, <1>7, <1>8 DEF Next

LEMMA ConversationHolds == Spec => [](Inv /\ ConversationInv)
<1>1. Init => ConversationInv
  BY InitConversation
<1>2. Inv /\ ConversationInv /\ [Next]_vars => ConversationInv'
  BY ConversationStep
<1>3. QED
  BY <1>1, <1>2, InvHolds, PTL DEF Spec

(***************************************************************************)
(* Theorems                                                                *)
(***************************************************************************)

\* The whole type invariant: whatever is compacted, truncated, repaired or resumed, the
\* session keeps, works on and sends messages.
THEOREM MessagesTyped == Spec => []TypeOK
<1>1. Inv /\ ConversationInv => TypeOK
  BY ProperMessages DEF Inv, ConversationInv, MessagesInv, TypeOK, MessagesTypeOK
<1>2. QED
  BY ConversationHolds, <1>1, PTL

\* Every request is one a model accepts: each batch of calls has exactly one message of
\* results before the next assistant message, and there are no results without calls,
\* whatever truncation, compaction, aborts, failed writes and resumes have left.
THEOREM RequestsPaired == Spec => []RequestPaired
<1>1. ASSUME ConversationInv
      PROVE  RequestPaired
  <2>1. WellPaired(request) /\ request \in Seq(Message)
    BY <1>1 DEF ConversationInv, MessagesInv
  <2>2. \A i, j : j \in i + 1..Len(request) /\ Quiet(request, i, j) => j \in Segment(request, i)
    BY DEF Quiet, Segment
  <2>3. ASSUME NEW i \in DOMAIN request, request[i].kind = "asks"
        PROVE  \E j \in Segment(request, i) : request[j] = Results(request[i].id)
    BY <2>1, <2>2, <2>3 DEF WellPaired, PairedBut, CallsPaired
  <2>4. ASSUME NEW j \in DOMAIN request, request[j].kind = "results"
        PROVE  \E i \in 1..j - 1 : /\ request[i] = Asks(request[j].id)
                                   /\ j \in Segment(request, i)
    <3>1. PICK i \in 1..j - 1 : request[i] = Asks(request[j].id) /\ Quiet(request, i, j)
      BY <2>1, <2>4 DEF WellPaired, PairedBut, ResultsPaired
    <3>2. j \in i + 1..Len(request)
      BY <2>1, <2>4, <3>1, ElementOf
    <3>3. QED
      BY <2>2, <3>1, <3>2
  <2>5. \A i, j \in DOMAIN request :
          request[i].kind = "results" /\ request[i] = request[j] => i = j
    BY <2>1 DEF WellPaired, PairedBut, ResultsOnce
  <2>6. QED
    BY <2>3, <2>4, <2>5 DEF RequestPaired
<1>2. Inv /\ ConversationInv => RequestPaired
  BY <1>1
<1>3. QED
  BY ConversationHolds, <1>2, PTL

\* A resumed session remembers all that the running one remembers, in the same order.
THEOREM NothingLost == Spec => []NothingForgotten
<1>1. ASSUME Inv, ConversationInv
      PROVE  NothingForgotten
  <2> DEFINE S == {m \in ToSet(memory) : Spoken(m)}
             spoken == Kept(memory, S)
             replay == Replayed(file)
             heard == Kept(replay, ToSet(spoken))
  <2>1. /\ memory \in Seq(Proper) /\ Ordered(memory) /\ file \in Seq(Entry)
        /\ FileOrdered(file) /\ FileProper(file) /\ SpokenIn(memory) \subseteq Heard(file)
    BY <1>1, StateForm DEF ConversationInv, KnownInv
  <2>2. replay \in Seq(Proper) /\ Ordered(replay) /\ ToSet(replay) = Heard(file)
    BY <2>1, ReplayForm
  <2> HIDE DEF replay
  <2>3. /\ spoken \in Seq(Proper) /\ Selects(spoken, memory, S)
        /\ heard \in Seq(Proper) /\ Selects(heard, replay, ToSet(spoken))
    BY <2>1, <2>2, KeptForm
  <2>4. DrawnFrom(spoken, memory) /\ DrawnFrom(heard, replay)
    BY <2>1, <2>2, DrawnKept
  <2>5. Ordered(spoken) /\ Ordered(heard)
    BY <2>1, <2>2, <2>4, DrawnOrdered
  <2>6. S \subseteq ToSet(replay)
    BY <2>1, <2>2 DEF SpokenIn
  <2> HIDE DEF spoken, heard
  <2>7. /\ \A j \in DOMAIN spoken : spoken[j] \in S
        /\ \A m \in S : \E j \in DOMAIN spoken : spoken[j] = m
    BY <2>3 DEF Selects, ToSet
  <2>8. ToSet(spoken) = S
    BY <2>7 DEF ToSet
  <2>9. /\ \A j \in DOMAIN heard : heard[j] \in S
        /\ \A m \in S : \E j \in DOMAIN heard : heard[j] = m
    BY <2>3, <2>6, <2>8 DEF Selects, ToSet
  <2>10. ToSet(heard) = S
    BY <2>9 DEF ToSet
  <2>11. \A m \in S : Spoken(m)
    OBVIOUS
  <2>12. spoken \in Seq(Message) /\ heard \in Seq(Message)
    BY <2>3, ProperMessages
  <2> HIDE DEF S
  <2>13. spoken = heard
    BY <2>5, <2>7, <2>8, <2>9, <2>10, <2>11, <2>12, SameOrder
  <2>14. QED
    BY <2>13 DEF NothingForgotten, spoken, heard, replay, S
<1>2. Inv /\ ConversationInv => NothingForgotten
  BY <1>1
<1>3. QED
  BY ConversationHolds, <1>2, PTL

\* Only a turn that was aborted leaves calls without results, in memory and in what a
\* resumed session would have.
THEOREM OnlyAbortsLeaveCalls == Spec => []OnlyAbortsDangle
<1>1. ASSUME Inv, ConversationInv
      PROVE  OnlyAbortsDangle
  <2>1. /\ memory \in Seq(Proper) /\ file \in Seq(Entry) /\ FileProper(file)
        /\ Answered(memory, Excused) /\ FileAnswered(file, Excused)
    BY <1>1, StateForm, FileIsAnswered DEF ConversationInv, AnsweredInv
  <2>2. Answered(Replayed(file), Excused)
    BY <2>1, ReplayForm
  <2>3. \A t : t \in Excused => Ended(t, "aborted") \in ToSet(file)
    BY DEF Excused
  <2>4. QED
    BY <2>1, <2>2, <2>3 DEF OnlyAbortsDangle, Answered, Followed
<1>2. Inv /\ ConversationInv => OnlyAbortsDangle
  BY <1>1
<1>3. QED
  BY ConversationHolds, <1>2, PTL

=============================================================================
