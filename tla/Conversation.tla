------------------------------ MODULE Conversation ------------------------------
(***************************************************************************)
(* Conversations as an agent session keeps them, sends them to the model   *)
(* and writes them to its transcript.                                      *)
(*                                                                         *)
(* A message is its kind and its identity <<turn, answer>>: what it says   *)
(* does not matter here.  The tool calls of one assistant message are      *)
(* answered together or not at all (ensureToolResultPairing), so they      *)
(* stand as one batch that bears the identity of the message asking for    *)
(* it, and so do their results with the images and documents that go along *)
(* with them.                                                              *)
(***************************************************************************)
EXTENDS Naturals, SequencesExt

CONSTANTS
  KeepHead,  \* turns that a snip keeps at the head (keepHeadTurns)
  KeepTail   \* and at the tail (keepTailTurns)

ASSUME SnipAssumption == KeepHead \in Nat /\ KeepTail \in Nat \ {0}

Kind == {"prompt", "says", "asks", "results", "note", "summary"}
Message == [kind : Kind, id : Nat \X Nat]

NoId == <<0, 0>>
Prompt(t) == [kind |-> "prompt", id |-> <<t, 0>>]       \* the user's input of turn t
Says(id) == [kind |-> "says", id |-> id]                \* an answer without tool calls
Asks(id) == [kind |-> "asks", id |-> id]                \* an answer with tool calls
Results(id) == [kind |-> "results", id |-> id]          \* the results of a batch
Note == [kind |-> "note", id |-> NoId]                  \* what a hook or the loop puts in
Summary == [kind |-> "summary", id |-> NoId]

FromAssistant(m) == m.kind \in {"says", "asks", "summary"}
Spoken(m) == m.kind \in {"prompt", "says", "asks", "results"}

\* What of s is in S, in its order: SelectSeq, which the provers cannot unfold.
Kept(s, S) == FlattenSeq([i \in DOMAIN s |-> IF s[i] \in S THEN <<s[i]>> ELSE <<>>])

-----------------------------------------------------------------------------
(* What is sent to the model *)

\* The batch that has no results yet when the first i messages have been read.
Pending(msgs) ==
  LET pending[i \in 0..Len(msgs)] ==
        IF i = 0 THEN NoId
        ELSE IF FromAssistant(msgs[i])
             THEN IF msgs[i].kind = "asks" THEN msgs[i].id ELSE NoId
             ELSE IF msgs[i] = Results(pending[i - 1]) THEN NoId ELSE pending[i - 1]
  IN  pending

Placeholder(id) == IF id = NoId THEN <<>> ELSE <<Results(id)>>

\* Batches are given placeholders, but results nobody asked for stay.
Repaired_Orphans(msgs) ==
  LET pending == Pending(msgs)
      Piece(i) ==
        CASE i > Len(msgs) -> Placeholder(pending[i - 1])
          [] i <= Len(msgs) /\ FromAssistant(msgs[i]) ->
               Placeholder(pending[i - 1]) \o <<msgs[i]>>
          [] OTHER -> <<msgs[i]>>
  IN  FlattenSeq([i \in 1..Len(msgs) + 1 |-> Piece(i)])

\* Results nobody asked for are dropped; a batch without results gets a placeholder
\* before the next assistant message, or at the end.
Repaired(msgs) ==
  LET pending == Pending(msgs)
      Piece(i) ==
        CASE i > Len(msgs) -> Placeholder(pending[i - 1])
          [] i <= Len(msgs) /\ FromAssistant(msgs[i]) ->
               Placeholder(pending[i - 1]) \o <<msgs[i]>>
          [] i <= Len(msgs) /\ msgs[i].kind = "results" ->
               IF msgs[i].id = pending[i - 1] THEN <<msgs[i]>> ELSE <<>>
          [] OTHER -> <<msgs[i]>>
  IN  FlattenSeq([i \in 1..Len(msgs) + 1 |-> Piece(i)])

-----------------------------------------------------------------------------
(* What the loop does to a conversation before it asks the model again *)

AtLeastOne(n) == IF n = 0 THEN 1 ELSE n
LastOf(msgs, n) == SubSeq(msgs, Len(msgs) - n + 1, Len(msgs))

\* truncateHeadKeepRatio with the ratio of the first attempt, one half
TruncatedHead(msgs) == LastOf(msgs, AtLeastOne(Len(msgs) \div 2))

\* Drops a failed answer and the results made up for it.
WithoutErrorPair(msgs) ==
  LET out == IF Last(msgs).kind = "results" THEN Front(msgs) ELSE msgs
  IN  IF out # <<>> /\ FromAssistant(Last(out)) THEN Front(out) ELSE out

\* Drops, of the messages that are kept, every batch without its results and every
\* results without their batch.
PairsOnly(msgs) ==
  Kept(msgs, {m \in ToSet(msgs) : /\ m.kind = "asks" => Results(m.id) \in ToSet(msgs)
                                  /\ m.kind = "results" => Asks(m.id) \in ToSet(msgs)})

TrailingUser(msgs) ==
  IF msgs # <<>> /\ FromAssistant(Last(msgs)) THEN Append(msgs, Note) ELSE msgs

\* Micro compaction clears the contents of old results, when there is more than one
\* message of them, and moves nothing.
MicroCompacted(msgs) ==
  IF \E i, j \in DOMAIN msgs : i < j /\ msgs[i].kind = "results" /\ msgs[j].kind = "results"
  THEN {TrailingUser(msgs)} ELSE {}

\* Where the turns of a conversation start, as the snip engine counts them: at each message
\* of the user that is more than results.
TurnStarts(msgs) == {i \in DOMAIN msgs : i = 1 \/ msgs[i].kind \in {"prompt", "note"}}

\* The turns between the first KeepHead and the last KeepTail give way to a marker, if there
\* are any. Of the head, the calls stay whose results are in the tail; of the tail, the
\* results whose calls are kept.
Snips(msgs) ==
  LET starts == TurnStarts(msgs)
      Cut(middle, last) ==
        LET head == SubSeq(msgs, 1, middle - 1)
            tail == SubSeq(msgs, last, Len(msgs))
            calls == Kept(head, {m \in ToSet(head) :
                                   m.kind = "asks" => Results(m.id) \in ToSet(tail)})
            results == Kept(tail, {m \in ToSet(tail) :
                         m.kind = "results" => Asks(m.id) \in ToSet(head) \cup ToSet(tail)})
        IN  TrailingUser(calls \o <<Note>> \o results)
  IN  {Cut(cut[1], cut[2]) : cut \in
         {c \in starts \X starts :
            /\ c[1] < c[2]
            /\ Cardinality({s \in starts : s < c[1]}) = KeepHead
            /\ Cardinality({s \in starts : s >= c[2]}) = KeepTail}}

\* The last 35% of the messages stay.  The boundary marker and the summary stand for
\* the others; when the model could not write one, the marker alone does.
Compacted(msgs, summarized) ==
  LET keep == AtLeastOne((35 * Len(msgs)) \div 100)
      summary == IF summarized /\ keep < Len(msgs) THEN <<Summary>> ELSE <<>>
  IN  TrailingUser(<<Note>> \o summary \o PairsOnly(LastOf(msgs, keep)))

-----------------------------------------------------------------------------
(* What the transcript holds *)

EndOf == {"success", "error", "aborted", "max_turns"}
Input(t) == [type |-> "accepted_input", turn |-> t]
Durable(t, m) == [type |-> "message", turn |-> t, msg |-> m]
Ended(t, end) == [type |-> "turn_result", turn |-> t, end |-> end]

Entry == [type : {"accepted_input"}, turn : Nat]
           \cup [type : {"message"}, turn : Nat, msg : Message]
           \cup [type : {"turn_result"}, turn : Nat, end : EndOf]

HasEnded(file, t) == \E end \in EndOf : Ended(t, end) \in ToSet(file)

\* Inputs always count, the other messages of a turn only if its result is there.
Replayed(file) ==
  LET read == Kept(file, {e \in ToSet(file) : \/ e.type = "accepted_input"
                                              \/ e.type = "message" /\ HasEnded(file, e.turn)})
  IN  [i \in DOMAIN read |->
         IF read[i].type = "accepted_input" THEN Prompt(read[i].turn) ELSE read[i].msg]

=============================================================================
