--------------------------- MODULE Conversation_proofs ---------------------------
(***************************************************************************)
(* What the operators of Conversation compute, for every conversation:     *)
(* that a repaired one is paired, that what is kept of a conversation      *)
(* keeps its order, and that no operation parts calls from their results.  *)
(*                                                                         *)
(* Induction is over sets of naturals: a set that holds 0, and the         *)
(* successor of each of its members, holds every natural.                  *)
(***************************************************************************)
EXTENDS Conversation, SequenceTheorems, WellFoundedInduction, TLAPS

(***************************************************************************)
(* Induction and recursion                                                 *)
(***************************************************************************)

LEMMA LeastNat ==
  ASSUME NEW T \in SUBSET Nat, T # {}
  PROVE  \E n \in T : \A m \in T : n <= m
<1>1. PICK R : R = OpToRel(<, Nat)
  BY Zenon
<1>2. \A m, n \in Nat : m < n => <<m, n>> \in R
  <2>1. R = {ss \in Nat \X Nat : ss[1] < ss[2]}
    BY <1>1, Zenon DEF OpToRel
  <2>2. QED
    BY <2>1
<1>3. IsWellFoundedOn(R, Nat)
  BY <1>1, NatLessThanWellFounded, Zenon
<1>4. PICK n \in T : \A m \in T : ~(<<m, n>> \in R)
  BY <1>3, WFMin, Zenon
<1>5. \A m \in T : ~(m < n)
  BY <1>2, <1>4
<1>6. QED
  BY <1>5

\* Induction up to a bound.
LEMMA UpTo ==
  ASSUME NEW n \in Nat, NEW S, 0 \in S, \A i \in 1..n : i - 1 \in S => i \in S
  PROVE  0..n \subseteq S
<1> DEFINE T == {i \in 0..n : i \notin S}
<1>1. SUFFICES ASSUME T # {} PROVE FALSE
  OBVIOUS
<1>2. PICK i \in T : \A j \in T : i <= j
  <2>1. T \in SUBSET Nat
    OBVIOUS
  <2> HIDE DEF T
  <2>2. QED
    BY <1>1, <2>1, LeastNat
<1>3. i \in 1..n /\ i - 1 \in 0..n /\ i - 1 \notin T
  BY <1>2
<1>4. QED
  BY <1>2, <1>3

\* A function may be defined at 0, and at i from its value at i - 1.
Steps(n, X) == [(1..n) \X X -> X]
Follows(f, n, X, first, step) ==
  /\ f \in [0..n -> X]
  /\ f[0] = first
  /\ \A i \in 1..n : f[i] = step[<<i, f[i - 1]>>]

LEMMA Recursion ==
  ASSUME NEW n \in Nat, NEW X, NEW first \in X, NEW step \in Steps(n, X)
  PROVE  \E f : Follows(f, n, X, first, step)
<1>0. step \in [(1..n) \X X -> X]
  BY DEF Steps
<1> DEFINE S == {k \in 0..n : \E f \in [0..k -> X] :
                  f[0] = first /\ \A i \in 1..k : f[i] = step[<<i, f[i - 1]>>]}
<1>1. 0 \in S
  <2>1. \E f \in [0..0 -> X] : f[0] = first /\ \A i \in 1..0 : f[i] = step[<<i, f[i - 1]>>]
    <3>1. [i \in 0..0 |-> first] \in [0..0 -> X] /\ 1..0 = {}
      OBVIOUS
    <3>2. [i \in 0..0 |-> first][0] = first
      OBVIOUS
    <3>3. QED
      BY <3>1, <3>2
  <2>2. QED
    BY <2>1
<1>2. ASSUME NEW k \in 1..n, k - 1 \in S
      PROVE  k \in S
  <2>1. PICK f \in [0..k - 1 -> X] :
          f[0] = first /\ \A i \in 1..k - 1 : f[i] = step[<<i, f[i - 1]>>]
    BY <1>2
  <2> DEFINE g == [i \in 0..k |-> IF i = k THEN step[<<k, f[k - 1]>>] ELSE f[i]]
  <2>2. f[k - 1] \in X /\ step[<<k, f[k - 1]>>] \in X
    BY <1>0, <2>1
  <2>3. \A i \in 0..k - 1 : f[i] \in X
    BY <2>1
  <2>4. g \in [0..k -> X]
    BY <2>2, <2>3
  <2>5. ASSUME NEW i \in 1..k PROVE g[i] = step[<<i, g[i - 1]>>]
    <3>1. i - 1 \in 0..k /\ i - 1 # k /\ i \in 0..k /\ g[i - 1] = f[i - 1]
      OBVIOUS
    <3>2. CASE i = k
      BY <3>1, <3>2
    <3>3. CASE i # k
      <4>1. i \in 1..k - 1
        BY <3>3
      <4>2. QED
        BY <2>1, <3>1, <3>3, <4>1
    <3>4. QED
      BY <3>2, <3>3
  <2>6. g[0] = first
    BY <2>1
  <2> HIDE DEF g
  <2>7. \E h \in [0..k -> X] : h[0] = first /\ \A i \in 1..k : h[i] = step[<<i, h[i - 1]>>]
    BY <2>4, <2>5, <2>6
  <2>8. QED
    BY <2>7
<1> HIDE DEF S
<1>3. 0..n \subseteq S
  BY <1>1, <1>2, UpTo
<1>4. n \in S
  BY <1>3
<1>5. QED
  BY <1>4 DEF S, Follows

(***************************************************************************)
(* FlattenSeq                                                              *)
(***************************************************************************)

\* The pieces are put together one after the other.
Glues(f, M, pieces) ==
  /\ f \in [0..Len(pieces) -> Seq(M)]
  /\ f[0] = <<>>
  /\ \A i \in 1..Len(pieces) : f[i] = f[i - 1] \o pieces[i]

LEMMA Flattening ==
  ASSUME NEW M, NEW pieces \in Seq(Seq(M))
  PROVE  \E f : Glues(f, M, pieces) /\ FlattenSeq(pieces) = f[Len(pieces)]
<1>n. PICK n : n = Len(pieces)
  OBVIOUS
<1>1. n \in Nat /\ \A i \in 1..n : pieces[i] \in Seq(M)
  BY <1>n
<1> DEFINE step == [p \in (1..n) \X Seq(M) |-> p[2] \o pieces[p[1]]]
<1>2. step \in Steps(n, Seq(M))
  BY <1>1 DEF Steps
<1>3. \A i \in 1..n, m \in Seq(M) : step[<<i, m>>] = m \o pieces[i]
  OBVIOUS
<1> HIDE DEF step
<1>4. PICK g : Follows(g, n, Seq(M), <<>>, step)
  <2>1. <<>> \in Seq(M)
    OBVIOUS
  <2>2. QED
    BY <1>1, <1>2, <2>1, Recursion
<1>5. ASSUME NEW i \in 1..n
      PROVE  g[i - 1] \in Seq(M) /\ g[i] \in Seq(M) /\ g[i] = g[i - 1] \o pieces[i]
  <2>1. i - 1 \in 0..n /\ i \in 0..n
    BY <1>1
  <2>2. QED
    BY <1>3, <1>4, <2>1 DEF Follows
<1>6. Glues(g, M, pieces)
  BY <1>n, <1>4, <1>5 DEF Follows, Glues
<1>7. CASE n = 0
  <2>1. FlattenSeq(pieces) = <<>>
    <3>1. pieces = <<>>
      BY <1>n, <1>7, EmptySeq
    <3>2. FlattenSeq(pieces) = pieces
      BY <3>1 DEF FlattenSeq
    <3>3. QED
      BY <3>1, <3>2
  <2>2. g[n] = <<>>
    BY <1>4, <1>7 DEF Follows
  <2>3. QED
    BY <1>n, <1>6, <2>1, <2>2
<1>8. CASE n # 0
  <2>0. g[1] = pieces[1]
    <3>1. 1 \in 1..n /\ 1 - 1 = 0
      BY <1>1, <1>8
    <3>2. g[1] = g[0] \o pieces[1] /\ pieces[1] \in Seq(M) /\ g[0] = <<>>
      BY <1>1, <1>4, <1>5, <3>1 DEF Follows
    <3>3. QED
      BY <3>2, ConcatEmptySeq
  <2>1. FlattenSeq(pieces) =
          (CHOOSE f : f = [i \in 1..n |-> IF i = 1 THEN pieces[i] ELSE f[i - 1] \o pieces[i]])[n]
    BY <1>n, <1>8 DEF FlattenSeq
  <2> DEFINE h == [i \in 1..n |-> g[i]]
  <2>2. h = [i \in 1..n |-> IF i = 1 THEN pieces[i] ELSE h[i - 1] \o pieces[i]]
    <3>1. ASSUME NEW i \in 1..n
          PROVE  h[i] = IF i = 1 THEN pieces[i] ELSE h[i - 1] \o pieces[i]
      <4>1. CASE i = 1
        BY <2>0, <4>1
      <4>2. CASE i # 1
        <5>1. i - 1 \in 1..n
          BY <1>1, <4>2
        <5>2. QED
          BY <1>5, <4>2, <5>1
      <4>3. QED
        BY <4>1, <4>2
    <3>2. QED
      BY <3>1
  <2> HIDE DEF h
  <2>3. PICK f : /\ f = [i \in 1..n |-> IF i = 1 THEN pieces[i] ELSE f[i - 1] \o pieces[i]]
                 /\ FlattenSeq(pieces) = f[n]
    BY <2>1, <2>2
  <2>4. \A i \in 1..n : f[i] = IF i = 1 THEN pieces[i] ELSE f[i - 1] \o pieces[i]
    BY <2>3
  <2> DEFINE S == {i \in 0..n : i = 0 \/ f[i] = g[i]}
  <2>5. 0 \in S
    BY <1>1
  <2>6. ASSUME NEW i \in 1..n, i - 1 \in S PROVE i \in S
    <3>1. CASE i = 1
      BY <1>1, <2>0, <2>4, <3>1
    <3>2. CASE i # 1
      <4>0. f[i - 1] = g[i - 1]
        BY <1>1, <2>6, <3>2
      <4>1. f[i] = f[i - 1] \o pieces[i]
        BY <2>4, <3>2
      <4>2. g[i] = g[i - 1] \o pieces[i]
        BY <1>5
      <4>3. f[i] = g[i]
        BY <4>0, <4>1, <4>2
      <4>4. QED
        BY <1>1, <4>3
    <3>3. QED
      BY <3>1, <3>2
  <2> HIDE DEF S
  <2>7. 0..n \subseteq S
    BY <1>1, <2>5, <2>6, UpTo
  <2>8. n \in S
    BY <1>1, <2>7
  <2>9. f[n] = g[n]
    BY <1>8, <2>8 DEF S
  <2>10. QED
    BY <1>n, <1>6, <2>3, <2>9
<1>9. QED
  BY <1>7, <1>8

(***************************************************************************)
(* Kept                                                                    *)
(***************************************************************************)

\* k is what of the first n elements of s is in S: pos tells where each stood.
Picks(k, s, S, pos, n) ==
  /\ pos \in [1..Len(k) -> 1..n]
  /\ \A j \in 1..Len(k) : k[j] = s[pos[j]] /\ k[j] \in S
  /\ \A i, j \in 1..Len(k) : i < j => pos[i] < pos[j]
  /\ \A i \in 1..n : s[i] \in S => \E j \in 1..Len(k) : pos[j] = i

LEMMA PicksNone ==
  ASSUME NEW s, NEW S
  PROVE  \E pos : Picks(<<>>, s, S, pos, 0)
<1>1. Picks(<<>>, s, S, [j \in 1..0 |-> 0], 0)
  BY DEF Picks
<1>2. QED
  BY <1>1

\* The next element is not in S.
LEMMA PicksSkip ==
  ASSUME NEW M, NEW k \in Seq(M), NEW s, NEW S, NEW pos, NEW n \in Nat,
         Picks(k, s, S, pos, n), s[n + 1] \notin S
  PROVE  Picks(k, s, S, pos, n + 1)
<1>1. Len(k) \in Nat
  OBVIOUS
<1>2. pos \in [1..Len(k) -> 1..n + 1]
  BY DEF Picks
<1>3. \A i \in 1..n + 1 : s[i] \in S => i \in 1..n
  OBVIOUS
<1>4. QED
  BY <1>2, <1>3 DEF Picks

\* The next element is in S.
LEMMA PicksNext ==
  ASSUME NEW M, NEW k \in Seq(M), NEW s, NEW S, NEW pos, NEW n \in Nat,
         Picks(k, s, S, pos, n), s[n + 1] \in S, s[n + 1] \in M
  PROVE  \E p : Picks(k \o <<s[n + 1]>>, s, S, p, n + 1)
<1> DEFINE l == k \o <<s[n + 1]>>
           p == [j \in 1..Len(k) + 1 |-> IF j = Len(k) + 1 THEN n + 1 ELSE pos[j]]
<1>1. /\ Len(k) \in Nat /\ Len(l) = Len(k) + 1 /\ l[Len(k) + 1] = s[n + 1]
      /\ \A j \in 1..Len(k) : l[j] = k[j]
  OBVIOUS
<1>2. \A j \in 1..Len(k) : p[j] = pos[j] /\ pos[j] \in 1..n
  BY DEF Picks
<1>3. p[Len(k) + 1] = n + 1
  BY <1>1
<1>4. \A j \in 1..Len(l) : j \in 1..Len(k) \/ j = Len(k) + 1
  BY <1>1
<1>5. p \in [1..Len(l) -> 1..n + 1]
  <2>1. ASSUME NEW j \in 1..Len(l)
        PROVE  p[j] \in 1..n + 1
    <3>1. CASE j \in 1..Len(k)
      <4>1. p[j] \in 1..n
        BY <1>2, <3>1
      <4> HIDE DEF p
      <4>2. QED
        BY <4>1
    <3>2. CASE j = Len(k) + 1
      BY <1>3, <3>2
    <3>3. QED
      BY <1>4, <3>1, <3>2
  <2>2. QED
    BY <1>1, <2>1
<1> HIDE DEF l, p
<1>6. \A j \in 1..Len(l) : l[j] = s[p[j]] /\ l[j] \in S
  BY <1>1, <1>2, <1>3, <1>4 DEF Picks
<1>7. \A i, j \in 1..Len(l) : i < j => p[i] < p[j]
  BY <1>1, <1>2, <1>3, <1>4 DEF Picks
<1>8. ASSUME NEW i \in 1..n + 1, s[i] \in S
      PROVE  \E j \in 1..Len(l) : p[j] = i
  <2>1. CASE i = n + 1
    BY <1>1, <1>3, <2>1
  <2>2. CASE i \in 1..n
    <3>1. PICK j \in 1..Len(k) : pos[j] = i
      BY <1>8, <2>2 DEF Picks
    <3>2. QED
      BY <1>1, <1>2, <3>1
  <2>3. QED
    BY <2>1, <2>2
<1>9. Picks(l, s, S, p, n + 1)
  BY <1>5, <1>6, <1>7, <1>8 DEF Picks
<1>10. QED
  BY <1>9 DEF l

LEMMA KeptPicks ==
  ASSUME NEW M, NEW s \in Seq(M), NEW S
  PROVE  Kept(s, S) \in Seq(M) /\ \E pos : Picks(Kept(s, S), s, S, pos, Len(s))
<1>n. PICK n : n = Len(s)
  OBVIOUS
<1>1. n \in Nat /\ DOMAIN s = 1..n /\ \A i \in 1..n : s[i] \in M
  BY <1>n
<1> DEFINE pieces == [i \in DOMAIN s |-> IF s[i] \in S THEN <<s[i]>> ELSE <<>>]
<1>2. Kept(s, S) = FlattenSeq(pieces)
  BY DEF Kept
<1>3. pieces \in Seq(Seq(M)) /\ Len(pieces) = n
  <2>1. \A i \in 1..n : pieces[i] \in Seq(M)
    BY <1>1
  <2>2. pieces = [i \in 1..n |-> pieces[i]]
    BY <1>1
  <2> HIDE DEF pieces
  <2>3. QED
    BY <1>1, <2>1, <2>2
<1>4. \A i \in 1..n : pieces[i] = IF s[i] \in S THEN <<s[i]>> ELSE <<>>
  BY <1>1
<1> HIDE DEF pieces
<1>5. PICK f : Glues(f, M, pieces) /\ FlattenSeq(pieces) = f[n]
  BY <1>3, Flattening
<1> DEFINE Done == {i \in 0..n : \E pos : Picks(f[i], s, S, pos, i)}
<1>6. 0 \in Done
  <2>1. f[0] = <<>>
    BY <1>5 DEF Glues
  <2>2. QED
    BY <1>1, <2>1, PicksNone
<1>7. ASSUME NEW i \in 1..n, i - 1 \in Done
      PROVE  i \in Done
  <2>1. i - 1 \in 0..n /\ i - 1 \in Nat /\ i \in 0..n /\ (i - 1) + 1 = i
    BY <1>1
  <2>2. f[i - 1] \in Seq(M) /\ f[i] = f[i - 1] \o pieces[i] /\ s[i] \in M
    BY <1>1, <1>3, <1>5, <2>1 DEF Glues
  <2>3. PICK pos : Picks(f[i - 1], s, S, pos, i - 1)
    BY <1>7
  <2>4. \E q : Picks(f[i], s, S, q, i)
    <3>1. CASE s[i] \in S
      <4>1. f[i] = f[i - 1] \o <<s[i]>>
        BY <1>4, <2>2, <3>1
      <4>2. \E q : Picks(f[i - 1] \o <<s[(i - 1) + 1]>>, s, S, q, (i - 1) + 1)
        BY <2>1, <2>2, <2>3, <3>1, PicksNext
      <4>3. QED
        BY <2>1, <4>1, <4>2
    <3>2. CASE s[i] \notin S
      <4>1. f[i] = f[i - 1]
        BY <1>4, <2>2, <3>2, ConcatEmptySeq
      <4>2. Picks(f[i - 1], s, S, pos, (i - 1) + 1)
        BY <2>1, <2>2, <2>3, <3>2, PicksSkip
      <4>3. QED
        BY <2>1, <4>1, <4>2
    <3>3. QED
      BY <3>1, <3>2
  <2>5. QED
    BY <2>1, <2>4
<1> HIDE DEF Done
<1>8. 0..n \subseteq Done
  BY <1>1, <1>6, <1>7, UpTo
<1>9. n \in Done /\ n \in 0..n
  BY <1>1, <1>8
<1>10. \E pos : Picks(f[n], s, S, pos, n)
  BY <1>9 DEF Done
<1>11. f[n] \in Seq(M) /\ Kept(s, S) = f[n]
  BY <1>2, <1>3, <1>5, <1>9 DEF Glues
<1>12. QED
  BY <1>n, <1>10, <1>11
-----------------------------------------------------------------------------
(***************************************************************************)
(* Conversations in order                                                  *)
(***************************************************************************)

\* What the model and the tools say has an answer's number.
Speech == {"says", "asks", "results"}
Proper == {m \in Message : m.kind \in Speech => m.id[2] # 0}

\* The order in which messages are said.
Before(m, n) ==
  \/ m.id[1] < n.id[1]
  \/ m.id[1] = n.id[1] /\ m.id[2] < n.id[2]
  \/ m.id = n.id /\ m.kind = "asks" /\ n.kind = "results"

Ordered(msgs) ==
  \A i, j \in DOMAIN msgs : i < j /\ Spoken(msgs[i]) /\ Spoken(msgs[j]) => Before(msgs[i], msgs[j])

LEMMA MessageForm ==
  ASSUME NEW m \in Message
  PROVE  /\ m.kind \in Kind /\ m.id \in Nat \X Nat
         /\ m.id = <<m.id[1], m.id[2]>> /\ m.id[1] \in Nat /\ m.id[2] \in Nat
         /\ m.kind = "asks" => m = Asks(m.id)
         /\ m.kind = "results" => m = Results(m.id)
  BY DEF Message, Kind, Asks, Results

LEMMA ProperForm ==
  ASSUME NEW m \in Proper
  PROVE  /\ m \in Message /\ m.id \in Nat \X Nat
         /\ m.kind = "asks" => m = Asks(m.id) /\ Spoken(m) /\ m.id # NoId /\ FromAssistant(m)
         /\ m.kind = "results" => m = Results(m.id) /\ Spoken(m) /\ m.id # NoId /\ ~FromAssistant(m)
  BY MessageForm DEF Proper, Speech, NoId, Spoken, FromAssistant

LEMMA BeforeStrict ==
  ASSUME NEW m \in Message, NEW n \in Message, Before(m, n)
  PROVE  ~Before(n, m) /\ m # n
<1>1. /\ m.id[1] \in Nat /\ m.id[2] \in Nat /\ n.id[1] \in Nat /\ n.id[2] \in Nat
      /\ m.id = <<m.id[1], m.id[2]>> /\ n.id = <<n.id[1], n.id[2]>>
  BY MessageForm
<1>2. ASSUME m.id = n.id PROVE m.kind = "asks" /\ n.kind = "results"
  BY <1>1, <1>2 DEF Before
<1>3. QED
  BY <1>1, <1>2 DEF Before

LEMMA BeforeTransitive ==
  ASSUME NEW l \in Message, NEW m \in Message, NEW n \in Message, Before(l, m), Before(m, n)
  PROVE  Before(l, n)
<1>1. /\ l.id[1] \in Nat /\ l.id[2] \in Nat /\ l.id = <<l.id[1], l.id[2]>>
      /\ m.id[1] \in Nat /\ m.id[2] \in Nat /\ m.id = <<m.id[1], m.id[2]>>
      /\ n.id[1] \in Nat /\ n.id[2] \in Nat /\ n.id = <<n.id[1], n.id[2]>>
  BY MessageForm
<1>2. CASE l.id = m.id
  BY <1>1, <1>2 DEF Before
<1>3. CASE m.id = n.id
  BY <1>1, <1>3 DEF Before
<1>4. CASE l.id # m.id /\ m.id # n.id
  BY <1>1, <1>4 DEF Before
<1>5. QED
  BY <1>2, <1>3, <1>4

\* No message is twice in a conversation in order.
LEMMA OnceEach ==
  ASSUME NEW msgs \in Seq(Proper), Ordered(msgs),
         NEW i \in DOMAIN msgs, NEW j \in DOMAIN msgs, msgs[i] = msgs[j], Spoken(msgs[i])
  PROVE  i = j
<1>1. i \in Nat /\ j \in Nat /\ msgs[i] \in Message
  BY DEF Proper
<1>2. ~(i < j) /\ ~(j < i)
  BY <1>1, BeforeStrict DEF Ordered
<1>3. QED
  BY <1>1, <1>2

-----------------------------------------------------------------------------
(***************************************************************************)
(* What is sent to the model                                               *)
(***************************************************************************)

PendingNext(m, p) ==
  IF FromAssistant(m) THEN IF m.kind = "asks" THEN m.id ELSE NoId
  ELSE IF m = Results(p) THEN NoId ELSE p

LEMMA PendingAt ==
  ASSUME NEW msgs \in Seq(Message)
  PROVE  /\ Pending(msgs)[0] = NoId
         /\ \A i \in 1..Len(msgs) : Pending(msgs)[i] = PendingNext(msgs[i], Pending(msgs)[i - 1])
<1>n. PICK n : n = Len(msgs)
  OBVIOUS
<1>1. n \in Nat /\ \A i \in 1..n : msgs[i] \in Message
  BY <1>n
<1> DEFINE Id == Nat \X Nat
           step == [a \in (1..n) \X Id |-> PendingNext(msgs[a[1]], a[2])]
<1>2. \A m \in Message, p \in Id : PendingNext(m, p) \in Id
  BY DEF PendingNext, NoId, Message
<1>3. step \in Steps(n, Id)
  <2>1. \A a \in (1..n) \X Id : PendingNext(msgs[a[1]], a[2]) \in Id
    BY <1>1, <1>2
  <2>2. QED
    BY <2>1 DEF Steps
<1>4. \A i \in 1..n, p \in Id : step[<<i, p>>] = PendingNext(msgs[i], p)
  OBVIOUS
<1> HIDE DEF step
<1>5. PICK g : Follows(g, n, Id, NoId, step)
  <2>1. NoId \in Id
    BY DEF NoId
  <2>2. QED
    BY <1>1, <1>3, <2>1, Recursion
<1>6. g[0] = NoId
  BY <1>5 DEF Follows
<1>7. ASSUME NEW i \in 1..n PROVE g[i] = PendingNext(msgs[i], g[i - 1])
  <2>1. i - 1 \in 0..n
    BY <1>1
  <2>2. g[i - 1] \in Id /\ g[i] = step[<<i, g[i - 1]>>]
    BY <1>5, <2>1 DEF Follows
  <2>3. QED
    BY <1>4, <2>2
<1> DEFINE R(f, i) == IF i = 0 THEN NoId
                      ELSE IF FromAssistant(msgs[i])
                           THEN IF msgs[i].kind = "asks" THEN msgs[i].id ELSE NoId
                           ELSE IF msgs[i] = Results(f[i - 1]) THEN NoId ELSE f[i - 1]
<1>8. Pending(msgs) = CHOOSE f : f = [i \in 0..n |-> R(f, i)]
  BY <1>n DEF Pending
<1> DEFINE h == [i \in 0..n |-> g[i]]
<1>9. h = [i \in 0..n |-> R(h, i)]
  <2>1. ASSUME NEW i \in 0..n PROVE h[i] = R(h, i)
    <3>1. CASE i = 0
      BY <1>6, <3>1
    <3>2. CASE i # 0
      <4>1. i \in 1..n /\ i - 1 \in 0..n
        BY <1>1, <3>2
      <4>2. h[i] = g[i] /\ h[i - 1] = g[i - 1]
        BY <4>1
      <4>3. g[i] = PendingNext(msgs[i], g[i - 1])
        BY <1>7, <4>1
      <4>4. QED
        BY <3>2, <4>2, <4>3 DEF PendingNext
    <3>3. QED
      BY <3>1, <3>2
  <2>2. QED
    BY <2>1
<1> HIDE DEF h
<1>10. PICK f : f = Pending(msgs) /\ f = [i \in 0..n |-> R(f, i)]
  BY <1>8, <1>9
<1>11. \A i \in 0..n : f[i] = R(f, i)
  BY <1>10
<1>12. f[0] = NoId
  BY <1>1, <1>11
<1>13. ASSUME NEW i \in 1..n PROVE f[i] = PendingNext(msgs[i], f[i - 1])
  <2>1. i \in 0..n /\ i # 0
    BY <1>1
  <2>2. QED
    BY <1>11, <2>1 DEF PendingNext
<1>14. QED
  BY <1>n, <1>10, <1>12, <1>13

\* The batch without results, if any, is among the messages read.
LEMMA PendingIsRead ==
  ASSUME NEW msgs \in Seq(Message), NEW i \in 0..Len(msgs)
  PROVE  /\ Pending(msgs)[i] \in Nat \X Nat
         /\ Pending(msgs)[i] # NoId => \E j \in 1..i : msgs[j] = Asks(Pending(msgs)[i])
<1> DEFINE n == Len(msgs)
           p == Pending(msgs)
           Good(k) == p[k] \in Nat \X Nat /\ (p[k] # NoId => \E j \in 1..k : msgs[j] = Asks(p[k]))
           S == {k \in 0..n : Good(k)}
<1>1. n \in Nat /\ \A k \in 1..n : msgs[k] \in Message
  OBVIOUS
<1>2. p[0] = NoId /\ \A k \in 1..n : p[k] = PendingNext(msgs[k], p[k - 1])
  BY PendingAt
<1> HIDE DEF n, p
<1>0. NoId \in Nat \X Nat
  BY DEF NoId
<1>3. 0 \in S
  BY <1>0, <1>1, <1>2
<1>4. ASSUME NEW k \in 1..n, k - 1 \in S PROVE k \in S
  <2>1. k \in 0..n /\ k \in 1..k /\ \A j \in 1..k - 1 : j \in 1..k
    BY <1>1
  <2>2. p[k] = PendingNext(msgs[k], p[k - 1]) /\ msgs[k] \in Message
    BY <1>1, <1>2
  <2>3. p[k - 1] \in Nat \X Nat /\ (p[k - 1] # NoId => \E j \in 1..k - 1 : msgs[j] = Asks(p[k - 1]))
    BY <1>4
  <2>4. CASE FromAssistant(msgs[k]) /\ msgs[k].kind = "asks"
    <3>1. p[k] = msgs[k].id /\ msgs[k] = Asks(msgs[k].id) /\ msgs[k].id \in Nat \X Nat
      BY <2>2, <2>4, MessageForm DEF PendingNext
    <3>2. QED
      BY <2>1, <3>1
  <2>5. CASE p[k] = NoId
    BY <1>0, <2>1, <2>5
  <2>6. CASE p[k] = p[k - 1]
    BY <2>1, <2>3, <2>6
  <2>7. QED
    BY <2>2, <2>4, <2>5, <2>6 DEF PendingNext
<1> HIDE DEF S
<1>5. 0..n \subseteq S
  BY <1>1, <1>3, <1>4, UpTo
<1>6. QED
  BY <1>5 DEF S, n, p

\* Nothing is from the assistant after the i-th message, up to the j-th.
Quiet(msgs, i, j) == \A k \in i + 1..j : ~FromAssistant(msgs[k])

\* Calls and results are paired, but for the batch p, which may still get its results.
CallsPaired(out, p) ==
  \A i \in DOMAIN out : out[i].kind = "asks" =>
    \/ \E j \in i + 1..Len(out) : Quiet(out, i, j) /\ out[j] = Results(out[i].id)
    \/ out[i].id = p /\ Quiet(out, i, Len(out))
ResultsPaired(out) ==
  \A j \in DOMAIN out : out[j].kind = "results" =>
    \E i \in 1..j - 1 : out[i] = Asks(out[j].id) /\ Quiet(out, i, j)
ResultsOnce(out) ==
  \A i, j \in DOMAIN out : out[i].kind = "results" /\ out[i] = out[j] => i = j
Awaited(out, p) ==
  p # NoId => /\ \A j \in DOMAIN out : out[j] # Results(p)
              /\ \E i \in DOMAIN out : out[i] = Asks(p) /\ Quiet(out, i, Len(out))
PairedBut(out, p) ==
  CallsPaired(out, p) /\ ResultsPaired(out) /\ ResultsOnce(out) /\ Awaited(out, p)

\* One more message.
LEMMA OneMore ==
  ASSUME NEW M, NEW out \in Seq(M), NEW m \in M
  PROVE  /\ out \o <<m>> \in Seq(M) /\ Len(out) \in Nat /\ Len(out \o <<m>>) = Len(out) + 1
         /\ DOMAIN out = 1..Len(out) /\ DOMAIN (out \o <<m>>) = 1..Len(out) + 1
         /\ \A k \in 1..Len(out) : (out \o <<m>>)[k] = out[k]
         /\ (out \o <<m>>)[Len(out) + 1] = m
         /\ \A k \in 1..Len(out) + 1 : k \in 1..Len(out) \/ k = Len(out) + 1
  OBVIOUS

LEMMA QuietMore ==
  ASSUME NEW M, NEW out \in Seq(M), NEW m \in M, NEW i \in 1..Len(out)
  PROVE  /\ \A j \in 1..Len(out) : Quiet(out, i, j) => Quiet(out \o <<m>>, i, j)
         /\ Quiet(out, i, Len(out)) /\ ~FromAssistant(m) => Quiet(out \o <<m>>, i, Len(out) + 1)
<1> DEFINE more == out \o <<m>>
<1>1. /\ Len(out) \in Nat /\ \A k \in 1..Len(out) : more[k] = out[k]
      /\ more[Len(out) + 1] = m
  BY OneMore
<1> HIDE DEF more
<1>2. ASSUME NEW j \in 1..Len(out), Quiet(out, i, j) PROVE Quiet(more, i, j)
  BY <1>1, <1>2 DEF Quiet
<1>3. ASSUME Quiet(out, i, Len(out)), ~FromAssistant(m) PROVE Quiet(more, i, Len(out) + 1)
  <2>1. ASSUME NEW k \in i + 1..Len(out) + 1 PROVE ~FromAssistant(more[k])
    <3>1. CASE k = Len(out) + 1
      BY <1>1, <1>3, <3>1
    <3>2. CASE k # Len(out) + 1
      <4>1. k \in i + 1..Len(out) /\ k \in 1..Len(out)
        BY <1>1, <3>2
      <4>2. QED
        BY <1>1, <1>3, <4>1 DEF Quiet
    <3>3. QED
      BY <3>1, <3>2
  <2>2. QED
    BY <2>1 DEF Quiet
<1>4. QED
  BY <1>2, <1>3 DEF more

\* The batch gets its results.
LEMMA PairedByResults ==
  ASSUME NEW out \in Seq(Message), NEW p \in Nat \X Nat, p # NoId, PairedBut(out, p)
  PROVE  PairedBut(out \o <<Results(p)>>, NoId)
<1> DEFINE n == Len(out)
           more == out \o <<Results(p)>>
<1>1. /\ Results(p) \in Message /\ Results(p).kind = "results" /\ Results(p).id = p
      /\ ~FromAssistant(Results(p))
  BY DEF Results, Message, Kind, FromAssistant
<1>2. /\ n \in Nat /\ DOMAIN out = 1..n /\ Len(more) = n + 1 /\ DOMAIN more = 1..n + 1
      /\ \A k \in 1..n : more[k] = out[k]
      /\ more[n + 1] = Results(p)
      /\ \A k \in 1..n + 1 : k \in 1..n \/ k = n + 1
  BY <1>1, OneMore
<1>3. \A i \in 1..n : /\ \A j \in 1..n : Quiet(out, i, j) => Quiet(more, i, j)
                      /\ Quiet(out, i, n) => Quiet(more, i, n + 1)
  BY <1>1, QuietMore
<1> HIDE DEF n, more
<1>4. ASSUME NEW i \in DOMAIN more, more[i].kind = "asks"
      PROVE  \E j \in i + 1..Len(more) : Quiet(more, i, j) /\ more[j] = Results(more[i].id)
  <2>1. i \in 1..n /\ more[i] = out[i]
    BY <1>1, <1>2, <1>4
  <2>2. CASE \E j \in i + 1..n : Quiet(out, i, j) /\ out[j] = Results(out[i].id)
    <3>1. PICK j \in i + 1..n : Quiet(out, i, j) /\ out[j] = Results(out[i].id)
      BY <2>2
    <3>2. j \in 1..n /\ j \in i + 1..Len(more)
      BY <1>2, <2>1, <3>1
    <3>3. QED
      BY <1>2, <1>3, <2>1, <3>1, <3>2
  <2>3. CASE out[i].id = p /\ Quiet(out, i, n)
    <3>1. n + 1 \in i + 1..Len(more)
      BY <1>2, <2>1
    <3>2. QED
      BY <1>2, <1>3, <2>1, <2>3, <3>1
  <2>4. QED
    BY <1>2, <1>4, <2>1, <2>2, <2>3 DEF PairedBut, CallsPaired, n
<1>5. ASSUME NEW j \in DOMAIN more, more[j].kind = "results"
      PROVE  \E i \in 1..j - 1 : more[i] = Asks(more[j].id) /\ Quiet(more, i, j)
  <2>1. CASE j \in 1..n
    <3>1. PICK i \in 1..j - 1 : out[i] = Asks(out[j].id) /\ Quiet(out, i, j)
      BY <1>2, <1>5, <2>1 DEF PairedBut, ResultsPaired
    <3>2. i \in 1..n
      BY <1>2, <2>1
    <3>3. QED
      BY <1>2, <1>3, <2>1, <3>1, <3>2
  <2>2. CASE j = n + 1
    <3>1. PICK i \in 1..n : out[i] = Asks(p) /\ Quiet(out, i, n)
      BY <1>2 DEF PairedBut, Awaited, n
    <3>2. i \in 1..j - 1
      BY <1>2, <2>2
    <3>3. QED
      BY <1>1, <1>2, <1>3, <2>2, <3>1, <3>2
  <2>3. QED
    BY <1>2, <2>1, <2>2
<1>6. ASSUME NEW i \in DOMAIN more, NEW j \in DOMAIN more,
             more[i].kind = "results", more[i] = more[j]
      PROVE  i = j
  <2>1. \A k \in 1..n : out[k] # Results(p)
    BY <1>2 DEF PairedBut, Awaited
  <2>2. QED
    BY <1>2, <1>6, <2>1 DEF PairedBut, ResultsOnce
<1>7. PairedBut(more, NoId)
  BY <1>4, <1>5, <1>6 DEF PairedBut, CallsPaired, ResultsPaired, ResultsOnce, Awaited
<1>8. QED
  BY <1>7 DEF more

\* The assistant speaks, when no batch waits for its results.
LEMMA PairedByAnswer ==
  ASSUME NEW out \in Seq(Message), NEW m \in Message, FromAssistant(m),
         PairedBut(out, NoId),
         \A i \in DOMAIN out : out[i].kind = "asks" => out[i].id # NoId /\ out[i] # m,
         NEW p, p = IF m.kind = "asks" THEN m.id ELSE NoId
  PROVE  PairedBut(out \o <<m>>, p)
<1> DEFINE n == Len(out)
           more == out \o <<m>>
<1>1. m.kind # "results"
  BY DEF FromAssistant
<1>2. /\ n \in Nat /\ DOMAIN out = 1..n /\ Len(more) = n + 1 /\ DOMAIN more = 1..n + 1
      /\ \A k \in 1..n : more[k] = out[k]
      /\ more[n + 1] = m
      /\ \A k \in 1..n + 1 : k \in 1..n \/ k = n + 1
  BY OneMore
<1>3. \A i \in 1..n : \A j \in 1..n : Quiet(out, i, j) => Quiet(more, i, j)
  BY QuietMore
<1> HIDE DEF n, more
<1>31. Quiet(more, n + 1, n + 1)
  BY <1>2 DEF Quiet
<1>4. ASSUME NEW i \in DOMAIN more, more[i].kind = "asks"
      PROVE  \/ \E j \in i + 1..Len(more) : Quiet(more, i, j) /\ more[j] = Results(more[i].id)
             \/ more[i].id = p /\ Quiet(more, i, Len(more))
  <2>1. CASE i \in 1..n
    <3>1. more[i] = out[i] /\ out[i].kind = "asks" /\ out[i].id # NoId
      BY <1>2, <1>4, <2>1
    <3>2. PICK j \in i + 1..n : Quiet(out, i, j) /\ out[j] = Results(out[i].id)
      BY <1>2, <2>1, <3>1 DEF PairedBut, CallsPaired, n
    <3>3. j \in 1..n /\ j \in i + 1..Len(more)
      BY <1>2, <2>1, <3>2
    <3>4. QED
      BY <1>2, <1>3, <2>1, <3>1, <3>2, <3>3
  <2>2. CASE i = n + 1
    BY <1>2, <1>31, <1>4, <2>2
  <2>3. QED
    BY <1>2, <2>1, <2>2
<1>5. ASSUME NEW j \in DOMAIN more, more[j].kind = "results"
      PROVE  j \in 1..n /\ \E i \in 1..j - 1 : more[i] = Asks(more[j].id) /\ Quiet(more, i, j)
  <2>1. j \in 1..n /\ more[j] = out[j]
    BY <1>1, <1>2, <1>5
  <2>2. PICK i \in 1..j - 1 : out[i] = Asks(out[j].id) /\ Quiet(out, i, j)
    BY <1>2, <1>5, <2>1 DEF PairedBut, ResultsPaired
  <2>3. i \in 1..n
    BY <1>2, <2>1
  <2>4. QED
    BY <1>2, <1>3, <2>1, <2>2, <2>3
<1>6. ASSUME NEW i \in DOMAIN more, NEW j \in DOMAIN more,
             more[i].kind = "results", more[i] = more[j]
      PROVE  i = j
  BY <1>1, <1>2, <1>6 DEF PairedBut, ResultsOnce
<1>7. ASSUME p # NoId
      PROVE  /\ \A j \in DOMAIN more : more[j] # Results(p)
             /\ \E i \in DOMAIN more : more[i] = Asks(p) /\ Quiet(more, i, Len(more))
  <2>1. m.kind = "asks" /\ m = Asks(p)
    BY <1>7, MessageForm
  <2>2. ASSUME NEW j \in DOMAIN more, more[j] = Results(p) PROVE FALSE
    <3>1. more[j].kind = "results" /\ more[j].id = p
      BY <2>2 DEF Results
    <3>2. PICK i \in 1..j - 1 : more[i] = Asks(p)
      BY <1>5, <3>1
    <3>3. i \in 1..n /\ out[i] = m /\ out[i].kind = "asks"
      BY <1>2, <1>5, <2>1, <3>1, <3>2
    <3>4. QED
      BY <1>2, <3>3
  <2>3. QED
    BY <1>2, <1>31, <2>1, <2>2
<1>8. PairedBut(more, p)
  BY <1>4, <1>5, <1>6, <1>7 DEF PairedBut, CallsPaired, ResultsPaired, ResultsOnce, Awaited
<1>9. QED
  BY <1>8 DEF more

\* The user or a hook speaks.
LEMMA PairedByOther ==
  ASSUME NEW out \in Seq(Message), NEW m \in Message, ~FromAssistant(m), m.kind # "results",
         NEW p \in Nat \X Nat, PairedBut(out, p)
  PROVE  PairedBut(out \o <<m>>, p)
<1> DEFINE n == Len(out)
           more == out \o <<m>>
<1>1. m.kind # "asks"
  BY DEF FromAssistant
<1>2. /\ n \in Nat /\ DOMAIN out = 1..n /\ Len(more) = n + 1 /\ DOMAIN more = 1..n + 1
      /\ \A k \in 1..n : more[k] = out[k]
      /\ more[n + 1] = m
      /\ \A k \in 1..n + 1 : k \in 1..n \/ k = n + 1
  BY OneMore
<1>3. \A i \in 1..n : /\ \A j \in 1..n : Quiet(out, i, j) => Quiet(more, i, j)
                      /\ Quiet(out, i, n) => Quiet(more, i, n + 1)
  BY QuietMore
<1> HIDE DEF n, more
<1>4. ASSUME NEW i \in DOMAIN more, more[i].kind = "asks"
      PROVE  \/ \E j \in i + 1..Len(more) : Quiet(more, i, j) /\ more[j] = Results(more[i].id)
             \/ more[i].id = p /\ Quiet(more, i, Len(more))
  <2>1. i \in 1..n /\ more[i] = out[i]
    BY <1>1, <1>2, <1>4
  <2>2. CASE \E j \in i + 1..n : Quiet(out, i, j) /\ out[j] = Results(out[i].id)
    <3>1. PICK j \in i + 1..n : Quiet(out, i, j) /\ out[j] = Results(out[i].id)
      BY <2>2
    <3>2. j \in 1..n /\ j \in i + 1..Len(more)
      BY <1>2, <2>1, <3>1
    <3>3. QED
      BY <1>2, <1>3, <2>1, <3>1, <3>2
  <2>3. CASE out[i].id = p /\ Quiet(out, i, n)
    BY <1>2, <1>3, <2>1, <2>3
  <2>4. QED
    BY <1>2, <1>4, <2>1, <2>2, <2>3 DEF PairedBut, CallsPaired, n
<1>5. ASSUME NEW j \in DOMAIN more, more[j].kind = "results"
      PROVE  \E i \in 1..j - 1 : more[i] = Asks(more[j].id) /\ Quiet(more, i, j)
  <2>1. j \in 1..n /\ more[j] = out[j]
    BY <1>2, <1>5
  <2>2. PICK i \in 1..j - 1 : out[i] = Asks(out[j].id) /\ Quiet(out, i, j)
    BY <1>2, <1>5, <2>1 DEF PairedBut, ResultsPaired
  <2>3. i \in 1..n
    BY <1>2, <2>1
  <2>4. QED
    BY <1>2, <1>3, <2>1, <2>2, <2>3
<1>6. ASSUME NEW i \in DOMAIN more, NEW j \in DOMAIN more,
             more[i].kind = "results", more[i] = more[j]
      PROVE  i = j
  BY <1>2, <1>6 DEF PairedBut, ResultsOnce
<1>7. ASSUME p # NoId
      PROVE  /\ \A j \in DOMAIN more : more[j] # Results(p)
             /\ \E i \in DOMAIN more : more[i] = Asks(p) /\ Quiet(more, i, Len(more))
  <2>1. \A j \in 1..n : out[j] # Results(p)
    BY <1>2, <1>7 DEF PairedBut, Awaited
  <2>2. PICK i \in 1..n : out[i] = Asks(p) /\ Quiet(out, i, n)
    BY <1>2, <1>7 DEF PairedBut, Awaited, n
  <2>3. m # Results(p)
    BY DEF Results
  <2>4. i \in DOMAIN more
    BY <1>2, <2>2
  <2>5. QED
    BY <1>2, <1>3, <2>1, <2>2, <2>3, <2>4
<1>8. PairedBut(more, p)
  BY <1>4, <1>5, <1>6, <1>7 DEF PairedBut, CallsPaired, ResultsPaired, ResultsOnce, Awaited
<1>9. QED
  BY <1>8 DEF more

\* The calls of out are among the first n of msgs.
CallsFrom(out, msgs, n) ==
  \A i \in DOMAIN out : out[i].kind = "asks" => \E j \in 1..n : msgs[j] = out[i]

\* What Repaired makes of the n-th message, when p waits for its results.
Piece(msgs, n, p) ==
  IF FromAssistant(msgs[n]) THEN Placeholder(p) \o <<msgs[n]>>
  ELSE IF msgs[n].kind = "results" THEN IF msgs[n].id = p THEN <<msgs[n]>> ELSE <<>>
  ELSE <<msgs[n]>>

\* The results of p are put in, if it waits for them.
LEMMA PairedByPlaceholder ==
  ASSUME NEW out \in Seq(Message), NEW p \in Nat \X Nat, PairedBut(out, p),
         NEW msgs, NEW n, CallsFrom(out, msgs, n)
  PROVE  /\ Placeholder(p) \in Seq(Message)
         /\ out \o Placeholder(p) \in Seq(Message)
         /\ PairedBut(out \o Placeholder(p), NoId)
         /\ CallsFrom(out \o Placeholder(p), msgs, n)
<1>1. CASE p = NoId
  <2>1. Placeholder(p) = <<>> /\ out \o <<>> = out
    BY <1>1, ConcatEmptySeq DEF Placeholder
  <2>2. QED
    BY <1>1, <2>1
<1>2. CASE p # NoId
  <2>1. Placeholder(p) = <<Results(p)>> /\ Results(p) \in Message /\ Results(p).kind # "asks"
    BY <1>2 DEF Placeholder, Results, Message, Kind
  <2>2. PairedBut(out \o <<Results(p)>>, NoId)
    BY <1>2, PairedByResults
  <2>3. CallsFrom(out \o <<Results(p)>>, msgs, n)
    BY <2>1, OneMore DEF CallsFrom
  <2>4. <<Results(p)>> \in Seq(Message) /\ out \o <<Results(p)>> \in Seq(Message)
    BY <2>1
  <2>5. QED
    BY <2>1, <2>2, <2>3, <2>4
<1>3. QED
  BY <1>1, <1>2

LEMMA JoinedInTurn ==
  ASSUME NEW M, NEW x \in Seq(M), NEW y \in Seq(M), NEW z \in Seq(M)
  PROVE  x \o (y \o z) = (x \o y) \o z
BY ConcatAssociative

\* One message more of the repair: what stands for it leaves the request paired.
LEMMA RepairStep ==
  ASSUME NEW msgs \in Seq(Proper), Ordered(msgs), NEW n \in 1..Len(msgs),
         NEW out \in Seq(Message), NEW p \in Nat \X Nat,
         PairedBut(out, p), CallsFrom(out, msgs, n - 1)
  PROVE  /\ out \o Piece(msgs, n, p) \in Seq(Message)
         /\ PairedBut(out \o Piece(msgs, n, p), PendingNext(msgs[n], p))
         /\ CallsFrom(out \o Piece(msgs, n, p), msgs, n)
<1> DEFINE m == msgs[n]
<1>1. /\ n \in Nat /\ n \in DOMAIN msgs /\ n \in 1..n
      /\ \A j \in 1..n - 1 : j \in 1..n /\ j \in DOMAIN msgs /\ j # n
      /\ m \in Proper /\ m \in Message
  BY DEF Proper
<1>2. /\ m.kind = "asks" => m = Asks(m.id) /\ Spoken(m) /\ m.id # NoId
      /\ m.kind = "results" => m = Results(m.id) /\ m.id # NoId /\ ~FromAssistant(m)
      /\ m.id \in Nat \X Nat
  BY <1>1, ProperForm
<1> HIDE DEF m
<1>3. \A l \in Seq(Message) : CallsFrom(l, msgs, n - 1) => CallsFrom(l, msgs, n)
  BY <1>1 DEF CallsFrom
<1>4. \A l \in Seq(Message) : CallsFrom(l, msgs, n) => CallsFrom(l \o <<m>>, msgs, n)
  <2>1. m = msgs[n]
    BY DEF m
  <2>2. QED
    BY <1>1, <2>1, OneMore DEF CallsFrom
<1>5. CASE FromAssistant(m)
  <2> DEFINE paid == out \o Placeholder(p)
  <2>1. /\ Placeholder(p) \in Seq(Message) /\ paid \in Seq(Message) /\ PairedBut(paid, NoId)
        /\ CallsFrom(paid, msgs, n - 1)
    BY PairedByPlaceholder
  <2> HIDE DEF paid
  <2>2. ASSUME NEW i \in DOMAIN paid, paid[i].kind = "asks"
        PROVE  paid[i].id # NoId /\ paid[i] # m
    <3>1. PICK j \in 1..n - 1 : msgs[j] = paid[i]
      BY <2>1, <2>2 DEF CallsFrom
    <3>2. msgs[j] \in Proper /\ Spoken(msgs[j]) /\ msgs[j].id # NoId
      <4>1. msgs[j] \in Proper
        BY <1>1
      <4>2. QED
        BY <2>2, <3>1, <4>1, ProperForm
    <3>3. msgs[j] # msgs[n]
      BY <1>1, <3>1, <3>2, OnceEach
    <3>4. QED
      BY <3>1, <3>2, <3>3 DEF m
  <2>3. PendingNext(m, p) = IF m.kind = "asks" THEN m.id ELSE NoId
    BY <1>5 DEF PendingNext
  <2>4. PairedBut(paid \o <<m>>, PendingNext(m, p))
    BY <1>1, <1>5, <2>1, <2>2, <2>3, PairedByAnswer
  <2>5. CallsFrom(paid \o <<m>>, msgs, n) /\ paid \o <<m>> \in Seq(Message)
    BY <1>1, <1>3, <1>4, <2>1, OneMore
  <2>6. out \o Piece(msgs, n, p) = paid \o <<m>>
    <3>1. Piece(msgs, n, p) = Placeholder(p) \o <<m>>
      BY <1>5 DEF Piece, m
    <3>2. <<m>> \in Seq(Message)
      BY <1>1
    <3>3. out \o (Placeholder(p) \o <<m>>) = (out \o Placeholder(p)) \o <<m>>
      <4>1. Placeholder(p) \in Seq(Message)
        BY <2>1
      <4>2. QED
        BY <3>2, <4>1, JoinedInTurn
    <3>4. QED
      BY <3>1, <3>3 DEF paid
  <2>7. QED
    BY <2>4, <2>5, <2>6 DEF m
<1>6. CASE ~FromAssistant(m) /\ m.kind = "results" /\ m.id = p
  <2>1. Piece(msgs, n, p) = <<m>> /\ m = Results(p) /\ p # NoId /\ PendingNext(m, p) = NoId
    BY <1>2, <1>6 DEF Piece, PendingNext, m
  <2>2. PairedBut(out \o <<m>>, NoId)
    BY <2>1, PairedByResults
  <2>3. CallsFrom(out \o <<m>>, msgs, n) /\ out \o <<m>> \in Seq(Message)
    BY <1>1, <1>3, <1>4, OneMore
  <2>4. QED
    BY <2>1, <2>2, <2>3 DEF m
<1>7. CASE ~FromAssistant(m) /\ m.kind = "results" /\ m.id # p
  <2>1. Piece(msgs, n, p) = <<>> /\ m # Results(p) /\ PendingNext(m, p) = p
    BY <1>7 DEF Piece, PendingNext, m, Results
  <2>2. out \o <<>> = out
    BY ConcatEmptySeq
  <2>3. QED
    BY <1>3, <2>1, <2>2 DEF m
<1>8. CASE ~FromAssistant(m) /\ m.kind # "results"
  <2>1. Piece(msgs, n, p) = <<m>> /\ m # Results(p) /\ PendingNext(m, p) = p
    BY <1>8 DEF Piece, PendingNext, m, Results
  <2>2. PairedBut(out \o <<m>>, p)
    BY <1>1, <1>8, PairedByOther
  <2>3. CallsFrom(out \o <<m>>, msgs, n) /\ out \o <<m>> \in Seq(Message)
    BY <1>1, <1>3, <1>4, OneMore
  <2>4. QED
    BY <2>1, <2>2, <2>3 DEF m
<1>9. QED
  BY <1>5, <1>6, <1>7, <1>8

\* Whatever the conversation, as long as it is in order, what is sent of it is paired.
LEMMA RepairedIsPaired ==
  ASSUME NEW msgs \in Seq(Proper), Ordered(msgs)
  PROVE  /\ Repaired(msgs) \in Seq(Message) /\ PairedBut(Repaired(msgs), NoId)
         /\ CallsFrom(Repaired(msgs), msgs, Len(msgs))
<1> DEFINE n == Len(msgs)
           p == Pending(msgs)
           P(i) == CASE i > n -> Placeholder(p[i - 1])
                     [] i <= n /\ FromAssistant(msgs[i]) -> Placeholder(p[i - 1]) \o <<msgs[i]>>
                     [] i <= n /\ msgs[i].kind = "results" ->
                          IF msgs[i].id = p[i - 1] THEN <<msgs[i]>> ELSE <<>>
                     [] OTHER -> <<msgs[i]>>
           pieces == [i \in 1..n + 1 |-> P(i)]
<1>1. Repaired(msgs) = FlattenSeq(pieces)
  BY DEF Repaired
<1>2. msgs \in Seq(Message) /\ n \in Nat /\ \A i \in 1..n : msgs[i] \in Message
  BY DEF Proper
<1>3. /\ \A i \in 0..n : p[i] \in Nat \X Nat
      /\ p[0] = NoId
      /\ \A i \in 1..n : p[i] = PendingNext(msgs[i], p[i - 1])
  BY <1>2, PendingIsRead, PendingAt
<1> HIDE DEF p
<1>4. /\ \A i \in 1..n : pieces[i] = Piece(msgs, i, p[i - 1])
      /\ pieces[n + 1] = Placeholder(p[n])
  <2>1. ASSUME NEW i \in 1..n PROVE P(i) = Piece(msgs, i, p[i - 1])
    <3>1. i <= n /\ ~(i > n)
      BY <1>2
    <3>2. CASE FromAssistant(msgs[i])
      <4>1. P(i) = Placeholder(p[i - 1]) \o <<msgs[i]>>
        <5>1. msgs[i].kind # "results"
          BY <3>2 DEF FromAssistant
        <5>2. QED
          BY <3>1, <3>2, <5>1
      <4>2. Piece(msgs, i, p[i - 1]) = Placeholder(p[i - 1]) \o <<msgs[i]>>
        BY <3>2 DEF Piece
      <4>3. QED
        BY <4>1, <4>2
    <3>3. CASE ~FromAssistant(msgs[i]) /\ msgs[i].kind = "results"
      BY <3>1, <3>3 DEF Piece
    <3>4. CASE ~FromAssistant(msgs[i]) /\ msgs[i].kind # "results"
      BY <3>1, <3>4 DEF Piece
    <3>5. QED
      BY <3>2, <3>3, <3>4
  <2>2. P(n + 1) = Placeholder(p[n])
    <3>1. n + 1 > n /\ ~(n + 1 <= n) /\ (n + 1) - 1 = n
      BY <1>2
    <3>2. QED
      BY <3>1
  <2>3. n + 1 \in 1..n + 1 /\ \A i \in 1..n : i \in 1..n + 1
    BY <1>2
  <2> HIDE DEF P
  <2>4. QED
    BY <2>1, <2>2, <2>3
<1>5. pieces \in Seq(Seq(Message)) /\ Len(pieces) = n + 1
  <2>1. ASSUME NEW q \in Nat \X Nat PROVE Placeholder(q) \in Seq(Message)
    <3>1. Results(q) \in Message
      BY DEF Results, Message, Kind
    <3>2. <<>> \in Seq(Message) /\ <<Results(q)>> \in Seq(Message)
      BY <3>1
    <3>3. QED
      BY <3>2 DEF Placeholder
  <2>2. ASSUME NEW i \in 1..n PROVE pieces[i] \in Seq(Message)
    <3>1. p[i - 1] \in Nat \X Nat /\ msgs[i] \in Message
      BY <1>2, <1>3
    <3>2. Placeholder(p[i - 1]) \in Seq(Message) /\ <<msgs[i]>> \in Seq(Message) /\ <<>> \in Seq(Message)
      BY <2>1, <3>1
    <3>3. Placeholder(p[i - 1]) \o <<msgs[i]>> \in Seq(Message)
      BY <3>2
    <3>4. Piece(msgs, i, p[i - 1]) \in Seq(Message)
      BY <3>2, <3>3 DEF Piece
    <3>5. QED
      BY <1>4, <3>4
  <2>3. pieces[n + 1] \in Seq(Message)
    BY <1>2, <1>3, <1>4, <2>1
  <2>4. ASSUME NEW i \in 1..n + 1 PROVE pieces[i] \in Seq(Message)
    <3>1. i \in 1..n \/ i = n + 1
      BY <1>2
    <3> HIDE DEF pieces
    <3>2. QED
      BY <2>2, <2>3, <3>1
  <2>5. DOMAIN pieces = 1..n + 1 /\ pieces = [i \in 1..n + 1 |-> pieces[i]]
    OBVIOUS
  <2> HIDE DEF pieces
  <2>6. QED
    BY <1>2, <2>4, <2>5
<1> HIDE DEF pieces
<1>6. PICK f : Glues(f, Message, pieces) /\ FlattenSeq(pieces) = f[n + 1]
  BY <1>5, Flattening
<1> DEFINE Fine == {i \in 0..n : PairedBut(f[i], p[i]) /\ CallsFrom(f[i], msgs, i)}
<1>7. 0 \in Fine
  <2>1. f[0] = <<>> /\ p[0] = NoId
    BY <1>3, <1>6 DEF Glues
  <2>2. PairedBut(<<>>, NoId) /\ CallsFrom(<<>>, msgs, 0)
    BY DEF PairedBut, CallsPaired, ResultsPaired, ResultsOnce, Awaited, CallsFrom
  <2>3. QED
    BY <1>2, <2>1, <2>2
<1>8. ASSUME NEW i \in 1..n, i - 1 \in Fine PROVE i \in Fine
  <2>1. i - 1 \in 0..n /\ i \in 0..n /\ i \in 1..n + 1 /\ i - 1 \in 0..n + 1
    BY <1>2
  <2>2. f[i - 1] \in Seq(Message) /\ f[i] = f[i - 1] \o Piece(msgs, i, p[i - 1])
    BY <1>4, <1>5, <1>6, <2>1 DEF Glues
  <2>3. PairedBut(f[i - 1], p[i - 1]) /\ CallsFrom(f[i - 1], msgs, i - 1)
    BY <1>8
  <2>4. p[i - 1] \in Nat \X Nat /\ p[i] = PendingNext(msgs[i], p[i - 1])
    BY <1>3, <2>1
  <2>5. PairedBut(f[i], p[i]) /\ CallsFrom(f[i], msgs, i)
    BY <2>2, <2>3, <2>4, RepairStep
  <2>6. QED
    BY <2>1, <2>5
<1> HIDE DEF Fine
<1>9. 0..n \subseteq Fine
  BY <1>2, <1>7, <1>8, UpTo
<1>10. n \in Fine
  BY <1>2, <1>9
<1>11. PairedBut(f[n], p[n]) /\ CallsFrom(f[n], msgs, n)
  BY <1>10 DEF Fine
<1>12. /\ f[n] \in Seq(Message) /\ p[n] \in Nat \X Nat
       /\ Repaired(msgs) = f[n] \o Placeholder(p[n])
  <2>1. n \in 0..n + 1 /\ n + 1 \in 1..n + 1 /\ (n + 1) - 1 = n
    BY <1>2
  <2>2. f[n + 1] = f[(n + 1) - 1] \o pieces[n + 1] /\ f[n] \in Seq(Message)
    BY <1>5, <1>6, <2>1 DEF Glues
  <2>3. QED
    BY <1>1, <1>2, <1>3, <1>4, <1>6, <2>1, <2>2
<1>13. QED
  BY <1>11, <1>12, PairedByPlaceholder

\* Calls and results of a request are paired.
WellPaired(request) ==
  PairedBut(request, NoId) /\ \A i \in DOMAIN request : request[i].kind = "asks" => request[i].id # NoId

\* Whatever a conversation lost to aborts and compactions, the request that
\* MessageProjector.repairToolResultPairing makes of it answers each of its calls
\* exactly once, before the assistant speaks again, and answers nothing that it did
\* not ask: for every conversation whose calls and results are in order.
THEOREM RepairedWellPaired ==
  ASSUME NEW msgs \in Seq(Proper), Ordered(msgs)
  PROVE  Repaired(msgs) \in Seq(Message) /\ WellPaired(Repaired(msgs))
<1>1. /\ Repaired(msgs) \in Seq(Message) /\ PairedBut(Repaired(msgs), NoId)
      /\ CallsFrom(Repaired(msgs), msgs, Len(msgs))
  BY RepairedIsPaired
<1>2. ASSUME NEW i \in DOMAIN Repaired(msgs), Repaired(msgs)[i].kind = "asks"
      PROVE  Repaired(msgs)[i].id # NoId
  <2>1. PICK j \in 1..Len(msgs) : msgs[j] = Repaired(msgs)[i]
    BY <1>1, <1>2 DEF CallsFrom
  <2>2. msgs[j] \in Proper
    OBVIOUS
  <2>3. QED
    BY <1>2, <2>1, <2>2, ProperForm
<1>3. QED
  BY <1>1, <1>2 DEF WellPaired

-----------------------------------------------------------------------------
(***************************************************************************)
(* What the operations on a conversation keep of it                        *)
(***************************************************************************)

SpokenIn(msgs) == {m \in ToSet(msgs) : Spoken(m)}

\* What was said in less was said in msgs, and in the same order.
DrawnFrom(less, msgs) ==
  /\ \A i \in DOMAIN less : Spoken(less[i]) => \E p \in DOMAIN msgs : msgs[p] = less[i]
  /\ \A i, j \in DOMAIN less : i < j /\ Spoken(less[i]) /\ Spoken(less[j]) =>
       \E p, q \in DOMAIN msgs : p < q /\ msgs[p] = less[i] /\ msgs[q] = less[j]

\* The results come right after the calls.
Followed(msgs, i) == i < Len(msgs) /\ msgs[i + 1] = Results(msgs[i].id)

\* Only the turns that are excused leave calls without results.
Answered(msgs, excused) ==
  \A i \in DOMAIN msgs : msgs[i].kind = "asks" => Followed(msgs, i) \/ msgs[i].id[1] \in excused

LEMMA DrawnOrdered ==
  ASSUME NEW msgs, NEW less, Ordered(msgs), DrawnFrom(less, msgs)
  PROVE  Ordered(less) /\ SpokenIn(less) \subseteq SpokenIn(msgs)
<1>1. Ordered(less)
  BY DEF Ordered, DrawnFrom
<1>2. SpokenIn(less) \subseteq SpokenIn(msgs)
  BY DEF SpokenIn, ToSet, DrawnFrom
<1>3. QED
  BY <1>1, <1>2

LEMMA DrawnTransitive ==
  ASSUME NEW msgs, NEW less, NEW least, DrawnFrom(less, msgs), DrawnFrom(least, less)
  PROVE  DrawnFrom(least, msgs)
BY DEF DrawnFrom

LEMMA DrawnSelf ==
  ASSUME NEW msgs
  PROVE  DrawnFrom(msgs, msgs)
BY DEF DrawnFrom

\* A part of a conversation.
LEMMA PartForm ==
  ASSUME NEW M, NEW msgs \in Seq(M), NEW a \in 1..Len(msgs), NEW b \in 0..Len(msgs), a <= b + 1
  PROVE  /\ SubSeq(msgs, a, b) \in Seq(M) /\ Len(SubSeq(msgs, a, b)) = b - a + 1
         /\ DOMAIN SubSeq(msgs, a, b) = 1..b - a + 1
         /\ \A i \in 1..b - a + 1 : SubSeq(msgs, a, b)[i] = msgs[a + i - 1] /\ a + i - 1 \in DOMAIN msgs
<1>1. /\ a \in Int /\ b \in Int /\ \A i \in a..b : msgs[i] \in M
      /\ \A i \in 1..b - a + 1 : a + i - 1 \in DOMAIN msgs
  OBVIOUS
<1>2. /\ SubSeq(msgs, a, b) \in Seq(M)
      /\ Len(SubSeq(msgs, a, b)) = IF a <= b THEN b - a + 1 ELSE 0
      /\ \A i \in 1..b - a + 1 : SubSeq(msgs, a, b)[i] = msgs[a + i - 1]
  BY <1>1, SubSeqProperties
<1>3. (IF a <= b THEN b - a + 1 ELSE 0) = b - a + 1
  BY <1>1
<1>4. QED
  BY <1>1, <1>2, <1>3

LEMMA DrawnPart ==
  ASSUME NEW msgs \in Seq(Message), NEW a \in 1..Len(msgs), NEW b \in 0..Len(msgs), a <= b + 1
  PROVE  DrawnFrom(SubSeq(msgs, a, b), msgs)
<1> DEFINE less == SubSeq(msgs, a, b)
<1>1. DOMAIN less = 1..b - a + 1
  BY PartForm
<1>2. \A i \in 1..b - a + 1 : less[i] = msgs[a + i - 1] /\ a + i - 1 \in DOMAIN msgs
  BY PartForm
<1> HIDE DEF less
<1>3. \A i, j \in 1..b - a + 1 : i < j => a + i - 1 < a + j - 1
  OBVIOUS
<1>4. DrawnFrom(less, msgs)
  BY <1>1, <1>2, <1>3 DEF DrawnFrom
<1>5. QED
  BY <1>4 DEF less

\* The end of a conversation has all that follows in it.
LEMMA AnsweredEnd ==
  ASSUME NEW msgs \in Seq(Message), NEW a \in 1..Len(msgs), NEW E, Answered(msgs, E)
  PROVE  Answered(SubSeq(msgs, a, Len(msgs)), E)
<1> DEFINE n == Len(msgs)
           end == SubSeq(msgs, a, n)
<1>1. n \in Nat /\ n \in 0..n /\ a \in 1..n /\ a <= n + 1
  OBVIOUS
<1>2. /\ Len(end) = n - a + 1 /\ DOMAIN end = 1..n - a + 1
      /\ \A i \in 1..n - a + 1 : end[i] = msgs[a + i - 1] /\ a + i - 1 \in DOMAIN msgs
  BY <1>1, PartForm
<1> HIDE DEF end
<1>3. ASSUME NEW i \in DOMAIN end, end[i].kind = "asks"
      PROVE  Followed(end, i) \/ end[i].id[1] \in E
  <2>1. i \in 1..n - a + 1 /\ end[i] = msgs[a + i - 1] /\ a + i - 1 \in DOMAIN msgs
    BY <1>2
  <2>2. Followed(msgs, a + i - 1) \/ msgs[a + i - 1].id[1] \in E
    BY <1>3, <2>1 DEF Answered
  <2>3. ASSUME Followed(msgs, a + i - 1) PROVE Followed(end, i)
    <3>1. a + i - 1 < n /\ msgs[(a + i - 1) + 1] = Results(end[i].id)
      BY <2>1, <2>3 DEF Followed
    <3>2. i + 1 \in 1..n - a + 1 /\ a + (i + 1) - 1 = (a + i - 1) + 1 /\ i < n - a + 1
      BY <1>1, <2>1, <3>1
    <3>3. end[i + 1] = msgs[(a + i - 1) + 1]
      BY <1>2, <3>2
    <3>4. QED
      BY <1>2, <3>1, <3>2, <3>3 DEF Followed
  <2>4. QED
    BY <2>1, <2>2, <2>3
<1>4. Answered(end, E)
  BY <1>3 DEF Answered
<1>5. QED
  BY <1>4 DEF end

\* The beginning of one does not part calls from results, if no results come next.
LEMMA AnsweredBeginning ==
  ASSUME NEW msgs \in Seq(Message), NEW b \in 0..Len(msgs), NEW E, Answered(msgs, E),
         Len(msgs) # 0,
         b # 0 /\ b # Len(msgs) /\ msgs[b].kind = "asks" => msgs[b + 1].kind # "results"
  PROVE  Answered(SubSeq(msgs, 1, b), E)
<1> DEFINE n == Len(msgs)
           start == SubSeq(msgs, 1, b)
<1>1. n \in Nat /\ n # 0 /\ b \in 0..n /\ 1 \in 1..n /\ 1 <= b + 1
  OBVIOUS
<1>2. Len(start) = b /\ DOMAIN start = 1..b /\ \A i \in 1..b : start[i] = msgs[i] /\ i \in DOMAIN msgs
  <2>1. /\ Len(start) = b - 1 + 1 /\ DOMAIN start = 1..b - 1 + 1
        /\ \A i \in 1..b - 1 + 1 : start[i] = msgs[1 + i - 1] /\ 1 + i - 1 \in DOMAIN msgs
    BY <1>1, PartForm
  <2>2. b - 1 + 1 = b /\ \A i \in 1..b : 1 + i - 1 = i
    OBVIOUS
  <2> HIDE DEF start
  <2>3. QED
    BY <2>1, <2>2
<1> HIDE DEF start
<1>3. ASSUME NEW i \in DOMAIN start, start[i].kind = "asks"
      PROVE  Followed(start, i) \/ start[i].id[1] \in E
  <2>1. i \in 1..b /\ start[i] = msgs[i] /\ i \in DOMAIN msgs
    BY <1>2
  <2>2. Followed(msgs, i) \/ msgs[i].id[1] \in E
    BY <1>3, <2>1 DEF Answered
  <2>3. ASSUME Followed(msgs, i) PROVE Followed(start, i)
    <3>1. i < n /\ msgs[i + 1] = Results(msgs[i].id) /\ msgs[i + 1].kind = "results"
      BY <2>3 DEF Followed, Results
    <3>2. i # b
      BY <1>1, <1>3, <2>1, <3>1
    <3>3. i + 1 \in 1..b /\ i < b
      BY <1>1, <2>1, <3>2
    <3>4. QED
      BY <1>2, <2>1, <3>1, <3>3 DEF Followed
  <2>4. QED
    BY <2>1, <2>2, <2>3
<1>4. Answered(start, E)
  BY <1>3 DEF Answered
<1>5. QED
  BY <1>4 DEF start

-----------------------------------------------------------------------------

\* What is kept of a conversation: each of its messages was there, the order is the same,
\* neighbours that are both kept stay neighbours, and all that is to be kept is.
Selects(less, msgs, S) ==
  /\ \A j \in DOMAIN less : \E p \in DOMAIN msgs :
       /\ less[j] = msgs[p] /\ msgs[p] \in S
       /\ p < Len(msgs) /\ msgs[p + 1] \in S => j < Len(less) /\ less[j + 1] = msgs[p + 1]
  /\ \A i, j \in DOMAIN less : i < j =>
       \E p, q \in DOMAIN msgs : p < q /\ msgs[p] = less[i] /\ msgs[q] = less[j]
  /\ \A p \in DOMAIN msgs : msgs[p] \in S => \E j \in DOMAIN less : less[j] = msgs[p]

LEMMA KeptForm ==
  ASSUME NEW M, NEW msgs \in Seq(M), NEW S, NEW less, less = Kept(msgs, S)
  PROVE  less \in Seq(M) /\ Selects(less, msgs, S)
<1>1. less \in Seq(M)
  BY KeptPicks
<1>2. PICK pos : Picks(less, msgs, S, pos, Len(msgs))
  BY KeptPicks
<1> DEFINE n == Len(msgs)
           k == Len(less)
<1>3. n \in Nat /\ k \in Nat /\ DOMAIN msgs = 1..n /\ DOMAIN less = 1..k
  BY <1>1
<1>4. /\ \A j \in 1..k : pos[j] \in 1..n /\ less[j] = msgs[pos[j]] /\ less[j] \in S
      /\ \A i, j \in 1..k : i < j => pos[i] < pos[j]
      /\ \A i \in 1..n : msgs[i] \in S => \E j \in 1..k : pos[j] = i
  BY <1>2 DEF Picks
<1> HIDE DEF n, k
<1>5. ASSUME NEW j \in DOMAIN less
      PROVE  LET p == pos[j]
             IN  /\ p \in DOMAIN msgs /\ less[j] = msgs[p] /\ msgs[p] \in S
                 /\ p < n /\ msgs[p + 1] \in S => j < k /\ less[j + 1] = msgs[p + 1]
  <2> DEFINE p == pos[j]
  <2>1. j \in 1..k /\ p \in 1..n /\ less[j] = msgs[p] /\ msgs[p] \in S
    BY <1>3, <1>4
  <2>2. ASSUME p < n, msgs[p + 1] \in S PROVE j < k /\ less[j + 1] = msgs[p + 1]
    <3>1. PICK l \in 1..k : pos[l] = p + 1
      <4>1. p + 1 \in 1..n
        BY <1>3, <2>1, <2>2
      <4>2. QED
        BY <1>4, <2>2, <4>1
    <3>2. j < l
      <4>1. \A i \in 1..k : i < j => pos[i] < p
        BY <1>4, <2>1
      <4>2. ~(p + 1 < p) /\ p + 1 # p
        BY <1>3, <2>1
      <4>3. ~(l < j) /\ l # j
        BY <3>1, <4>1, <4>2
      <4>4. QED
        BY <1>3, <2>1, <3>1, <4>3
    <3>3. j + 1 \in 1..k /\ j < j + 1 /\ j < k
      BY <1>3, <2>1, <3>2
    <3>4. p < pos[j + 1] /\ pos[j + 1] \in 1..n
      BY <1>4, <2>1, <3>3
    <3>5. l = j + 1
      <4>1. ASSUME j + 1 < l PROVE FALSE
        <5>1. pos[j + 1] < p + 1
          BY <1>4, <3>1, <3>3, <4>1
        <5>2. QED
          BY <1>3, <2>1, <3>4, <5>1
      <4>2. QED
        BY <1>3, <2>1, <3>1, <3>2, <4>1
    <3>6. QED
      BY <1>4, <3>1, <3>3, <3>5
  <2>3. QED
    BY <1>3, <2>1, <2>2
<1>6. \A i, j \in DOMAIN less : i < j =>
        \E p, q \in DOMAIN msgs : p < q /\ msgs[p] = less[i] /\ msgs[q] = less[j]
  BY <1>3, <1>4
<1>7. \A p \in DOMAIN msgs : msgs[p] \in S => \E j \in DOMAIN less : less[j] = msgs[p]
  BY <1>3, <1>4
<1>8. \A j \in DOMAIN less : \E p \in DOMAIN msgs :
        /\ less[j] = msgs[p] /\ msgs[p] \in S
        /\ p < Len(msgs) /\ msgs[p + 1] \in S => j < Len(less) /\ less[j + 1] = msgs[p + 1]
  <2>1. n = Len(msgs) /\ k = Len(less)
    BY DEF n, k
  <2>2. QED
    BY <1>5, <2>1
<1>9. QED
  BY <1>1, <1>6, <1>7, <1>8 DEF Selects

LEMMA DrawnKept ==
  ASSUME NEW M, NEW msgs \in Seq(M), NEW S
  PROVE  DrawnFrom(Kept(msgs, S), msgs)
<1>1. Selects(Kept(msgs, S), msgs, S)
  BY KeptForm
<1>2. QED
  BY <1>1 DEF DrawnFrom, Selects

\* Calls and results are kept together.
LEMMA AnsweredKept ==
  ASSUME NEW msgs \in Seq(Message), NEW S, NEW E, Answered(msgs, E),
         \A p \in DOMAIN msgs : msgs[p].kind = "asks" /\ msgs[p] \in S /\ Followed(msgs, p)
                                  => msgs[p + 1] \in S
  PROVE  Answered(Kept(msgs, S), E)
<1> DEFINE less == Kept(msgs, S)
<1>1. Selects(less, msgs, S)
  BY KeptForm
<1> HIDE DEF less
<1>2. ASSUME NEW j \in DOMAIN less, less[j].kind = "asks"
      PROVE  Followed(less, j) \/ less[j].id[1] \in E
  <2>1. PICK p \in DOMAIN msgs :
          /\ less[j] = msgs[p] /\ msgs[p] \in S
          /\ p < Len(msgs) /\ msgs[p + 1] \in S => j < Len(less) /\ less[j + 1] = msgs[p + 1]
    BY <1>1 DEF Selects
  <2>2. Followed(msgs, p) \/ msgs[p].id[1] \in E
    BY <1>2, <2>1 DEF Answered
  <2>3. ASSUME Followed(msgs, p) PROVE Followed(less, j)
    BY <1>2, <2>1, <2>3 DEF Followed
  <2>4. QED
    BY <2>1, <2>2, <2>3
<1>3. Answered(less, E)
  BY <1>2 DEF Answered
<1>4. QED
  BY <1>3 DEF less

-----------------------------------------------------------------------------

\* less is what is left of msgs, notes and summaries aside.
Reduces(less, msgs) ==
  /\ less \in Seq(Proper) /\ less # <<>>
  /\ DrawnFrom(less, msgs)
  /\ \A E : Answered(msgs, E) => Answered(less, E)

LEMMA ReducesSelf ==
  ASSUME NEW msgs \in Seq(Proper), msgs # <<>>
  PROVE  Reduces(msgs, msgs)
BY DrawnSelf DEF Reduces

LEMMA ReducesTransitive ==
  ASSUME NEW msgs, NEW less, NEW least, Reduces(less, msgs), Reduces(least, less)
  PROVE  Reduces(least, msgs)
BY DrawnTransitive DEF Reduces

LEMMA ProperMessages ==
  /\ Seq(Proper) \subseteq Seq(Message)
  /\ Note \in Proper /\ Summary \in Proper
  /\ ~Spoken(Note) /\ ~Spoken(Summary) /\ Note.kind # "asks" /\ Summary.kind # "asks"
<1>1. Proper \subseteq Message
  BY DEF Proper
<1>2. /\ Note \in Message /\ Summary \in Message
      /\ Note.kind = "note" /\ Summary.kind = "summary"
  BY DEF Note, Summary, Message, Kind, NoId
<1>3. QED
  BY <1>1, <1>2 DEF Proper, Speech, Spoken

\* Two conversations, one after the other.
LEMMA JoinForm ==
  ASSUME NEW M, NEW x \in Seq(M), NEW y \in Seq(M)
  PROVE  /\ x \o y \in Seq(M) /\ Len(x \o y) = Len(x) + Len(y)
         /\ DOMAIN (x \o y) = 1..Len(x) + Len(y)
         /\ \A i \in DOMAIN x : (x \o y)[i] = x[i]
         /\ \A i \in DOMAIN y : (x \o y)[Len(x) + i] = y[i]
         /\ \A i \in 1..Len(x) + Len(y) :
              i \in DOMAIN x \/ \E j \in DOMAIN y : i = Len(x) + j
<1> DEFINE a == Len(x)
           b == Len(y)
           z == x \o y
<1>1. /\ a \in Nat /\ b \in Nat /\ DOMAIN x = 1..a /\ DOMAIN y = 1..b
      /\ z \in Seq(M) /\ Len(z) = a + b /\ DOMAIN z = 1..a + b
      /\ \A i \in 1..a + b : z[i] = IF i <= a THEN x[i] ELSE y[i - a]
  <2>1. /\ z \in Seq(M) /\ Len(z) = a + b
        /\ \A i \in 1..a + b : z[i] = IF i <= a THEN x[i] ELSE y[i - a]
    BY ConcatProperties
  <2>2. a \in Nat /\ b \in Nat /\ DOMAIN x = 1..a /\ DOMAIN y = 1..b
    OBVIOUS
  <2> HIDE DEF a, b, z
  <2>3. QED
    BY <2>1, <2>2
<1> HIDE DEF a, b, z
<1>2. \A i \in 1..a : i \in 1..a + b /\ i <= a
  BY <1>1
<1>3. \A i \in 1..b : a + i \in 1..a + b /\ ~(a + i <= a) /\ (a + i) - a = i
  BY <1>1
<1>4. ASSUME NEW i \in 1..a + b
      PROVE  i \in 1..a \/ \E j \in 1..b : i = a + j
  <2>1. CASE i <= a
    BY <1>1, <2>1
  <2>2. CASE ~(i <= a)
    <3>1. i - a \in 1..b /\ i = a + (i - a)
      BY <1>1, <2>2
    <3>2. QED
      BY <3>1
  <2>3. QED
    BY <2>1, <2>2
<1>5. /\ \A i \in DOMAIN x : z[i] = x[i]
      /\ \A i \in DOMAIN y : z[a + i] = y[i]
  BY <1>1, <1>2, <1>3
<1>6. QED
  BY <1>1, <1>4, <1>5 DEF a, b, z

LEMMA AnsweredJoin ==
  ASSUME NEW x \in Seq(Message), NEW y \in Seq(Message), NEW E, Answered(x, E), Answered(y, E)
  PROVE  Answered(x \o y, E)
<1> DEFINE a == Len(x)
           b == Len(y)
           z == x \o y
<1>1. /\ Len(z) = a + b /\ DOMAIN z = 1..a + b
      /\ \A i \in DOMAIN x : z[i] = x[i]
      /\ \A i \in DOMAIN y : z[a + i] = y[i]
      /\ \A i \in 1..a + b : i \in DOMAIN x \/ \E j \in DOMAIN y : i = a + j
  BY JoinForm
<1>2. a \in Nat /\ b \in Nat /\ DOMAIN x = 1..a /\ DOMAIN y = 1..b
  OBVIOUS
<1> HIDE DEF z
<1>3. ASSUME NEW i \in DOMAIN z, z[i].kind = "asks"
      PROVE  Followed(z, i) \/ z[i].id[1] \in E
  <2>1. CASE i \in DOMAIN x
    <3>1. z[i] = x[i] /\ (Followed(x, i) \/ x[i].id[1] \in E)
      BY <1>1, <1>3, <2>1 DEF Answered
    <3>2. ASSUME Followed(x, i) PROVE Followed(z, i)
      <4>1. i < a /\ x[i + 1] = Results(x[i].id)
        BY <3>2 DEF Followed
      <4>2. i + 1 \in DOMAIN x /\ i < a + b
        BY <1>2, <2>1, <4>1
      <4>3. QED
        BY <1>1, <3>1, <4>1, <4>2 DEF Followed
    <3>3. QED
      BY <3>1, <3>2
  <2>2. CASE \E j \in DOMAIN y : i = a + j
    <3>1. PICK j \in DOMAIN y : i = a + j
      BY <2>2
    <3>2. z[i] = y[j] /\ (Followed(y, j) \/ y[j].id[1] \in E)
      BY <1>1, <1>3, <3>1 DEF Answered
    <3>3. ASSUME Followed(y, j) PROVE Followed(z, i)
      <4>1. j < b /\ y[j + 1] = Results(y[j].id)
        BY <3>3 DEF Followed
      <4>2. j + 1 \in DOMAIN y /\ i < a + b /\ i + 1 = a + (j + 1)
        BY <1>2, <3>1, <4>1
      <4>3. QED
        BY <1>1, <3>2, <4>1, <4>2 DEF Followed
    <3>4. QED
      BY <3>2, <3>3
  <2>3. QED
    BY <1>1, <2>1, <2>2
<1>4. Answered(z, E)
  BY <1>3 DEF Answered
<1>5. QED
  BY <1>4 DEF z

\* What is drawn from the beginning, and after it what is drawn from the end.
LEMMA DrawnJoin ==
  ASSUME NEW msgs \in Seq(Message), NEW x \in Seq(Message), NEW y \in Seq(Message),
         NEW m \in 0..Len(msgs), NEW l \in 1..Len(msgs), m < l,
         DrawnFrom(x, SubSeq(msgs, 1, m)), DrawnFrom(y, SubSeq(msgs, l, Len(msgs)))
  PROVE  DrawnFrom(x \o y, msgs)
<1> DEFINE n == Len(msgs)
           a == Len(x)
           z == x \o y
           head == SubSeq(msgs, 1, m)
           tail == SubSeq(msgs, l, n)
<1>1. /\ DOMAIN z = 1..a + Len(y)
      /\ \A i \in DOMAIN x : z[i] = x[i]
      /\ \A i \in DOMAIN y : z[a + i] = y[i]
      /\ \A i \in 1..a + Len(y) : i \in DOMAIN x \/ \E j \in DOMAIN y : i = a + j
  BY JoinForm
<1>2. a \in Nat /\ DOMAIN x = 1..a /\ DOMAIN y = 1..Len(y) /\ Len(y) \in Nat /\ n \in Nat /\ n # 0
  OBVIOUS
<1>3. DOMAIN head = 1..m /\ \A i \in 1..m : head[i] = msgs[i] /\ i \in DOMAIN msgs
  <2>1. 1 \in 1..n /\ 1 <= m + 1 /\ m \in Nat
    BY <1>2
  <2>2. /\ DOMAIN head = 1..m - 1 + 1
        /\ \A i \in 1..m - 1 + 1 : head[i] = msgs[1 + i - 1] /\ 1 + i - 1 \in DOMAIN msgs
    BY <2>1, PartForm
  <2>3. m - 1 + 1 = m /\ \A i \in 1..m : 1 + i - 1 = i
    BY <2>1
  <2> HIDE DEF head
  <2>4. QED
    BY <2>2, <2>3
<1>4. /\ DOMAIN tail = 1..n - l + 1
      /\ \A i \in 1..n - l + 1 : tail[i] = msgs[l + i - 1] /\ l + i - 1 \in DOMAIN msgs
  <2>1. n \in 0..n /\ l <= n + 1
    BY <1>2
  <2>2. QED
    BY <2>1, PartForm
<1>5. DrawnFrom(x, head) /\ DrawnFrom(y, tail)
  OBVIOUS
<1> HIDE DEF z, head, tail, n, a
<1>6. \A i \in DOMAIN x : Spoken(x[i]) => \E p \in 1..m : p \in DOMAIN msgs /\ msgs[p] = x[i]
  BY <1>3, <1>5 DEF DrawnFrom
<1>7. ASSUME NEW i \in DOMAIN y, Spoken(y[i])
      PROVE  \E p \in DOMAIN msgs : p >= l /\ msgs[p] = y[i]
  <2>1. PICK p \in 1..n - l + 1 : tail[p] = y[i]
    BY <1>4, <1>5, <1>7 DEF DrawnFrom
  <2>2. l + p - 1 \in DOMAIN msgs /\ msgs[l + p - 1] = y[i] /\ l + p - 1 >= l
    BY <1>4, <2>1
  <2>3. QED
    BY <2>2
<1>8. ASSUME NEW i \in DOMAIN x, NEW j \in DOMAIN x, i < j, Spoken(x[i]), Spoken(x[j])
      PROVE  \E p, q \in DOMAIN msgs : p < q /\ msgs[p] = x[i] /\ msgs[q] = x[j]
  <2>0. \E p, q \in DOMAIN head : p < q /\ head[p] = x[i] /\ head[q] = x[j]
    BY <1>5, <1>8 DEF DrawnFrom
  <2>1. PICK p \in 1..m, q \in 1..m : p < q /\ head[p] = x[i] /\ head[q] = x[j]
    BY <1>3, <2>0
  <2>2. QED
    BY <1>3, <2>1
<1>9. ASSUME NEW i \in DOMAIN y, NEW j \in DOMAIN y, i < j, Spoken(y[i]), Spoken(y[j])
      PROVE  \E p, q \in DOMAIN msgs : p < q /\ msgs[p] = y[i] /\ msgs[q] = y[j]
  <2>0. \E p, q \in DOMAIN tail : p < q /\ tail[p] = y[i] /\ tail[q] = y[j]
    BY <1>5, <1>9 DEF DrawnFrom
  <2>1. PICK p \in 1..n - l + 1, q \in 1..n - l + 1 : p < q /\ tail[p] = y[i] /\ tail[q] = y[j]
    BY <1>4, <2>0
  <2>2. /\ l + p - 1 \in DOMAIN msgs /\ msgs[l + p - 1] = y[i]
        /\ l + q - 1 \in DOMAIN msgs /\ msgs[l + q - 1] = y[j]
        /\ l + p - 1 < l + q - 1
    BY <1>4, <2>1
  <2>3. QED
    BY <2>2
<1>10. ASSUME NEW i \in DOMAIN z, Spoken(z[i]) PROVE \E p \in DOMAIN msgs : msgs[p] = z[i]
  BY <1>1, <1>6, <1>7, <1>10
<1>11. ASSUME NEW i \in DOMAIN z, NEW j \in DOMAIN z, i < j, Spoken(z[i]), Spoken(z[j])
       PROVE  \E p, q \in DOMAIN msgs : p < q /\ msgs[p] = z[i] /\ msgs[q] = z[j]
  <2>1. CASE i \in DOMAIN x /\ j \in DOMAIN x
    BY <1>1, <1>8, <1>11, <2>1
  <2>2. CASE i \in DOMAIN x /\ \E k \in DOMAIN y : j = a + k
    <3>1. PICK k \in DOMAIN y : j = a + k
      BY <2>2
    <3>2. PICK p \in 1..m : p \in DOMAIN msgs /\ msgs[p] = z[i]
      BY <1>1, <1>6, <1>11, <2>2
    <3>3. PICK q \in DOMAIN msgs : q >= l /\ msgs[q] = z[j]
      BY <1>1, <1>7, <1>11, <3>1
    <3>4. p < q
      BY <1>2, <3>2, <3>3
    <3>5. QED
      BY <3>2, <3>3, <3>4
  <2>3. CASE (\E k \in DOMAIN y : i = a + k) /\ (\E k \in DOMAIN y : j = a + k)
    <3>1. PICK h \in DOMAIN y, k \in DOMAIN y : i = a + h /\ j = a + k
      BY <2>3
    <3>2. h < k /\ z[i] = y[h] /\ z[j] = y[k]
      BY <1>1, <1>2, <1>11, <3>1
    <3>3. QED
      BY <1>9, <1>11, <3>2
  <2>4. ~((\E k \in DOMAIN y : i = a + k) /\ j \in DOMAIN x)
    BY <1>2, <1>11
  <2>5. QED
    BY <1>1, <2>1, <2>2, <2>3, <2>4
<1>12. DrawnFrom(z, msgs)
  BY <1>10, <1>11 DEF DrawnFrom
<1>13. QED
  BY <1>12 DEF z

\* Notes and summaries.
Silent(msgs) ==
  msgs \in Seq(Proper) /\ \A i \in DOMAIN msgs : ~Spoken(msgs[i]) /\ msgs[i].kind # "asks"

LEMMA SilentJoin ==
  ASSUME NEW x, NEW y, Silent(x), Silent(y)
  PROVE  Silent(x \o y)
<1>1. x \in Seq(Proper) /\ y \in Seq(Proper)
  BY DEF Silent
<1>2. /\ x \o y \in Seq(Proper)
      /\ DOMAIN (x \o y) = 1..Len(x) + Len(y)
      /\ \A i \in DOMAIN x : (x \o y)[i] = x[i]
      /\ \A i \in DOMAIN y : (x \o y)[Len(x) + i] = y[i]
      /\ \A i \in 1..Len(x) + Len(y) : i \in DOMAIN x \/ \E j \in DOMAIN y : i = Len(x) + j
  BY <1>1, JoinForm
<1>3. QED
  BY <1>2 DEF Silent

\* Nothing of what was said.
LEMMA NothingDrawn ==
  ASSUME NEW less, NEW msgs, NEW E,
         \A i \in DOMAIN less : ~Spoken(less[i]) /\ less[i].kind # "asks"
  PROVE  DrawnFrom(less, msgs) /\ Answered(less, E)
BY DEF DrawnFrom, Answered

\* A note at the end.
LEMMA NoteReduces ==
  ASSUME NEW msgs, NEW less, Reduces(less, msgs)
  PROVE  Reduces(Append(less, Note), msgs)
<1>1. /\ less \in Seq(Proper) /\ less # <<>> /\ DrawnFrom(less, msgs)
      /\ Note \in Proper /\ ~Spoken(Note) /\ Note.kind # "asks" /\ less \in Seq(Message)
  BY ProperMessages DEF Reduces
<1> DEFINE n == Len(less)
           more == Append(less, Note)
<1>2. /\ n \in Nat /\ DOMAIN less = 1..n /\ more \in Seq(Proper) /\ Len(more) = n + 1
      /\ DOMAIN more = 1..n + 1 /\ more # <<>>
      /\ \A i \in 1..n : more[i] = less[i]
      /\ more[n + 1] = Note
  BY <1>1, AppendProperties
<1> HIDE DEF more
<1>3. \A i \in 1..n + 1 : i \in 1..n \/ i = n + 1
  BY <1>2
<1>4. DrawnFrom(more, less)
  BY <1>1, <1>2, <1>3 DEF DrawnFrom
<1>5. ASSUME NEW E, Answered(less, E) PROVE Answered(more, E)
  <2>1. ASSUME NEW i \in DOMAIN more, more[i].kind = "asks"
        PROVE  Followed(more, i) \/ more[i].id[1] \in E
    <3>1. i \in 1..n /\ more[i] = less[i]
      BY <1>1, <1>2, <1>3, <2>1
    <3>2. Followed(less, i) \/ less[i].id[1] \in E
      BY <1>2, <1>5, <2>1, <3>1 DEF Answered
    <3>3. ASSUME Followed(less, i) PROVE Followed(more, i)
      <4>1. i < n /\ less[i + 1] = Results(less[i].id)
        BY <3>3 DEF Followed
      <4>2. i + 1 \in 1..n /\ i < n + 1
        BY <1>2, <3>1, <4>1
      <4>3. QED
        BY <1>2, <3>1, <4>1, <4>2 DEF Followed
    <3>4. QED
      BY <3>1, <3>2, <3>3
  <2>2. QED
    BY <2>1 DEF Answered
<1>6. DrawnFrom(more, msgs)
  BY <1>1, <1>4, DrawnTransitive
<1>7. Reduces(more, msgs)
  BY <1>2, <1>5, <1>6 DEF Reduces
<1>8. QED
  BY <1>7 DEF more

LEMMA TrailingUserReduces ==
  ASSUME NEW msgs, NEW less, Reduces(less, msgs)
  PROVE  Reduces(TrailingUser(less), msgs)
BY NoteReduces DEF TrailingUser

-----------------------------------------------------------------------------

LEMMA LastOfReduces ==
  ASSUME NEW msgs \in Seq(Proper), NEW n \in 1..Len(msgs)
  PROVE  Reduces(LastOf(msgs, n), msgs)
<1> DEFINE a == Len(msgs) - n + 1
<1>1. /\ Len(msgs) \in Nat /\ Len(msgs) \in 0..Len(msgs) /\ a \in 1..Len(msgs)
      /\ a <= Len(msgs) + 1 /\ Len(msgs) - a + 1 # 0
      /\ LastOf(msgs, n) = SubSeq(msgs, a, Len(msgs)) /\ msgs \in Seq(Message)
  BY ProperMessages DEF LastOf
<1> HIDE DEF a
<1>2. LastOf(msgs, n) \in Seq(Proper) /\ LastOf(msgs, n) # <<>>
  <2>1. /\ SubSeq(msgs, a, Len(msgs)) \in Seq(Proper)
        /\ Len(SubSeq(msgs, a, Len(msgs))) = Len(msgs) - a + 1
    BY <1>1, PartForm
  <2>2. QED
    BY <1>1, <2>1, EmptySeq
<1>3. DrawnFrom(LastOf(msgs, n), msgs)
  BY <1>1, DrawnPart
<1>4. ASSUME NEW E, Answered(msgs, E) PROVE Answered(LastOf(msgs, n), E)
  BY <1>1, <1>4, AnsweredEnd
<1>5. QED
  BY <1>2, <1>3, <1>4 DEF Reduces

LEMMA TruncatedHeadReduces ==
  ASSUME NEW msgs \in Seq(Proper), msgs # <<>>
  PROVE  Reduces(TruncatedHead(msgs), msgs)
<1>1. Len(msgs) \in Nat /\ Len(msgs) # 0
  BY EmptySeq
<1>2. AtLeastOne(Len(msgs) \div 2) \in 1..Len(msgs)
  BY <1>1 DEF AtLeastOne
<1>3. QED
  BY <1>2, LastOfReduces DEF TruncatedHead

\* The last message may go, unless it has the results of the calls before it.
LEMMA FrontReduces ==
  ASSUME NEW msgs \in Seq(Proper), Len(msgs) >= 2,
         msgs[Len(msgs) - 1].kind = "asks" => Last(msgs).kind # "results"
  PROVE  Reduces(Front(msgs), msgs)
<1> DEFINE b == Len(msgs) - 1
<1>1. /\ Len(msgs) \in Nat /\ b \in 0..Len(msgs) /\ b # 0 /\ b + 1 = Len(msgs) /\ 1 \in 1..Len(msgs)
      /\ 1 <= b + 1 /\ b - 1 + 1 = b
      /\ Front(msgs) = SubSeq(msgs, 1, b) /\ Last(msgs) = msgs[b + 1] /\ msgs \in Seq(Message)
  <2>1. Front(msgs) = SubSeq(msgs, 1, b) /\ Last(msgs) = msgs[Len(msgs)] /\ msgs \in Seq(Message)
    BY ProperMessages DEF Front, Last
  <2>2. b + 1 = Len(msgs)
    OBVIOUS
  <2>3. QED
    BY <2>1, <2>2
<1>2. msgs[b].kind = "asks" => msgs[b + 1].kind # "results"
  BY <1>1
<1> HIDE DEF b
<1>3. Front(msgs) \in Seq(Proper) /\ Front(msgs) # <<>>
  <2>1. SubSeq(msgs, 1, b) \in Seq(Proper) /\ Len(SubSeq(msgs, 1, b)) = b - 1 + 1
    BY <1>1, PartForm
  <2>2. QED
    BY <1>1, <2>1, EmptySeq
<1>4. DrawnFrom(Front(msgs), msgs)
  BY <1>1, DrawnPart
<1>5. ASSUME NEW E, Answered(msgs, E) PROVE Answered(Front(msgs), E)
  <2>1. Len(msgs) # 0
    BY <1>1
  <2>2. QED
    BY <1>1, <1>2, <1>5, <2>1, AnsweredBeginning
<1>6. QED
  BY <1>3, <1>4, <1>5 DEF Reduces

\* The last two may go, unless the second has the results of calls before both.
LEMMA FrontTwiceReduces ==
  ASSUME NEW msgs \in Seq(Proper), Len(msgs) >= 3, FromAssistant(msgs[Len(msgs) - 1])
  PROVE  Reduces(Front(Front(msgs)), msgs)
<1> DEFINE b == Len(msgs) - 2
<1>1. /\ Len(msgs) \in Nat /\ b \in 0..Len(msgs) /\ b # 0 /\ b + 1 = Len(msgs) - 1 /\ 1 \in 1..Len(msgs)
      /\ 1 <= b + 1 /\ b - 1 + 1 = b
      /\ Front(msgs) = SubSeq(msgs, 1, b + 1) /\ msgs \in Seq(Message)
      /\ 1 \in 1..b + 1 /\ b + 1 \in 0..Len(msgs) /\ b \in 0..b + 1 /\ 1 <= (b + 1) + 1
      /\ (b + 1) - 1 + 1 = b + 1 /\ (b + 1) - 1 = b
  <2>1. Front(msgs) = SubSeq(msgs, 1, Len(msgs) - 1) /\ msgs \in Seq(Message)
    BY ProperMessages DEF Front
  <2>2. b + 1 = Len(msgs) - 1
    OBVIOUS
  <2>3. QED
    BY <2>1, <2>2
<1>2. msgs[b + 1].kind # "results"
  BY <1>1 DEF FromAssistant
<1> HIDE DEF b
<1>3. Front(Front(msgs)) = SubSeq(msgs, 1, b)
  <2>1. Len(Front(msgs)) = b + 1
    BY <1>1, PartForm
  <2>2. Front(Front(msgs)) = SubSeq(SubSeq(msgs, 1, b + 1), 1, b)
    BY <1>1, <2>1 DEF Front
  <2>3. 1 \in 1..Len(msgs) /\ b + 1 \in 1..Len(msgs) /\ 1 \in 1..(b + 1) - 1 + 1 /\ b \in 1..(b + 1) - 1 + 1
        /\ 1 + 1 - 1 = 1 /\ 1 + b - 1 = b
    BY <1>1
  <2>4. SubSeq(SubSeq(msgs, 1, b + 1), 1, b) = SubSeq(msgs, 1 + 1 - 1, 1 + b - 1)
    BY <2>3, SubSeqOfSubSeq
  <2>5. QED
    BY <2>2, <2>3, <2>4
<1>4. SubSeq(msgs, 1, b) \in Seq(Proper) /\ SubSeq(msgs, 1, b) # <<>>
  <2>1. SubSeq(msgs, 1, b) \in Seq(Proper) /\ Len(SubSeq(msgs, 1, b)) = b - 1 + 1
    BY <1>1, PartForm
  <2>2. QED
    BY <1>1, <2>1, EmptySeq
<1>5. DrawnFrom(SubSeq(msgs, 1, b), msgs)
  BY <1>1, DrawnPart
<1>6. ASSUME NEW E, Answered(msgs, E) PROVE Answered(SubSeq(msgs, 1, b), E)
  <2>1. Len(msgs) # 0
    BY <1>1
  <2>2. QED
    BY <1>1, <1>2, <1>6, <2>1, AnsweredBeginning
<1>7. QED
  BY <1>3, <1>4, <1>5, <1>6 DEF Reduces

\* A failed answer and its results go together.
LEMMA WithoutErrorPairReduces ==
  ASSUME NEW msgs \in Seq(Proper), Len(msgs) >= 2,
         Last(msgs).kind = "results" => Len(msgs) >= 3
  PROVE  Reduces(WithoutErrorPair(msgs), msgs)
<1> DEFINE n == Len(msgs)
<1>1. n \in Nat /\ n >= 2 /\ msgs # <<>> /\ Last(msgs) = msgs[n]
  BY EmptySeq DEF Last
<1>2. Len(Front(msgs)) = n - 1 /\ Front(msgs) # <<>> /\ Last(Front(msgs)) = msgs[n - 1]
  <2>1. 1 \in 1..n /\ n - 1 \in 0..n /\ 1 <= (n - 1) + 1 /\ (n - 1) - 1 + 1 = n - 1 /\ n - 1 \in 1..n - 1
        /\ 1 + (n - 1) - 1 = n - 1 /\ n - 1 # 0
    BY <1>1
  <2>2. /\ Front(msgs) \in Seq(Proper) /\ Len(Front(msgs)) = n - 1
        /\ \A i \in 1..(n - 1) - 1 + 1 : Front(msgs)[i] = msgs[1 + i - 1]
    BY <2>1, PartForm DEF Front
  <2>3. QED
    BY <2>1, <2>2, EmptySeq DEF Last
<1> HIDE DEF n
<1>3. CASE Last(msgs).kind = "results"
  <2>1. n >= 3
    BY <1>3 DEF n
  <2>2. CASE FromAssistant(msgs[n - 1])
    <3>1. WithoutErrorPair(msgs) = Front(Front(msgs))
      BY <1>2, <1>3, <2>2 DEF WithoutErrorPair
    <3>2. QED
      BY <2>1, <2>2, <3>1, FrontTwiceReduces DEF n
  <2>3. CASE ~FromAssistant(msgs[n - 1])
    <3>1. WithoutErrorPair(msgs) = Front(msgs)
      BY <1>2, <1>3, <2>3 DEF WithoutErrorPair
    <3>2. msgs[n - 1].kind # "asks"
      BY <2>3 DEF FromAssistant
    <3>3. QED
      BY <3>1, <3>2, FrontReduces DEF n
  <2>4. QED
    BY <2>2, <2>3
<1>4. CASE Last(msgs).kind # "results" /\ FromAssistant(Last(msgs))
  <2>1. WithoutErrorPair(msgs) = Front(msgs)
    BY <1>1, <1>4 DEF WithoutErrorPair
  <2>2. QED
    BY <1>4, <2>1, FrontReduces
<1>5. CASE Last(msgs).kind # "results" /\ ~FromAssistant(Last(msgs))
  <2>1. WithoutErrorPair(msgs) = msgs
    BY <1>5 DEF WithoutErrorPair
  <2>2. QED
    BY <1>1, <2>1, ReducesSelf
<1>6. QED
  BY <1>3, <1>4, <1>5

LEMMA MicroCompactedReduces ==
  ASSUME NEW msgs \in Seq(Proper), msgs # <<>>, NEW less \in MicroCompacted(msgs)
  PROVE  Reduces(less, msgs)
<1>1. less = TrailingUser(msgs)
  BY DEF MicroCompacted
<1>2. QED
  BY <1>1, ReducesSelf, TrailingUserReduces

\* What CompactionEngine.run leaves of a conversation, with a summary or without,
\* was in it, in the order it was, and leaves open no call of a turn all of
\* whose calls were followed by their results.
THEOREM CompactedReduces ==
  ASSUME NEW msgs \in Seq(Proper), msgs # <<>>, NEW summarized
  PROVE  Reduces(Compacted(msgs, summarized), msgs)
<1> DEFINE n == Len(msgs)
           keep == AtLeastOne((35 * n) \div 100)
           summary == IF summarized /\ keep < n THEN <<Summary>> ELSE <<>>
           front == <<Note>> \o summary
           tail == LastOf(msgs, keep)
           kept == PairsOnly(tail)
<1>1. n \in Nat /\ n # 0 /\ msgs \in Seq(Message)
  BY EmptySeq, ProperMessages
<1>2. keep \in 1..n
  BY <1>1 DEF AtLeastOne
<1>3. Reduces(tail, msgs)
  BY <1>2, LastOfReduces
<1>4. tail = SubSeq(msgs, n - keep + 1, n) /\ n - keep \in 0..n /\ n - keep + 1 \in 1..n
      /\ n - keep < n - keep + 1
  BY <1>1, <1>2 DEF LastOf
<1>5. /\ front \in Seq(Proper) /\ front # <<>>
      /\ \A i \in DOMAIN front : ~Spoken(front[i]) /\ front[i].kind # "asks"
  <2>1. ASSUME NEW m, m = Note \/ m = Summary PROVE Silent(<<m>>)
    <3>1. m \in Proper /\ ~Spoken(m) /\ m.kind # "asks"
      BY <2>1, ProperMessages
    <3>2. <<m>> \in Seq(Proper) /\ \A i \in DOMAIN <<m>> : <<m>>[i] = m
      BY <3>1
    <3>3. QED
      BY <3>1, <3>2 DEF Silent
  <2>2. Silent(<<>>)
    BY DEF Silent
  <2>3. Silent(<<Note>>) /\ Silent(summary)
    BY <2>1, <2>2
  <2>4. Silent(front)
    BY <2>3, SilentJoin
  <2>5. front # <<>>
    BY <2>3, ConcatEqualIffEmpty DEF Silent
  <2>6. QED
    BY <2>4, <2>5 DEF Silent
<1>6. Compacted(msgs, summarized) = TrailingUser(front \o kept)
  BY DEF Compacted
<1> HIDE DEF front, summary, keep
<1>7. tail \in Seq(Proper) /\ tail \in Seq(Message)
  BY <1>3, ProperMessages DEF Reduces
<1> HIDE DEF tail
<1> DEFINE S == {m \in ToSet(tail) : /\ m.kind = "asks" => Results(m.id) \in ToSet(tail)
                                     /\ m.kind = "results" => Asks(m.id) \in ToSet(tail)}
<1>8. kept = Kept(tail, S)
  BY DEF PairsOnly
<1>9. kept \in Seq(Proper) /\ DrawnFrom(kept, tail)
  BY <1>7, <1>8, KeptForm, DrawnKept
<1>10. ASSUME NEW p \in DOMAIN tail, tail[p].kind = "asks", tail[p] \in S, Followed(tail, p)
       PROVE  tail[p + 1] \in S
  <2>1. /\ p \in 1..Len(tail) /\ Len(tail) \in Nat /\ p < Len(tail) /\ tail[p] \in Message
        /\ tail[p + 1] = Results(tail[p].id)
    BY <1>7, <1>10 DEF Followed
  <2>2. p + 1 \in DOMAIN tail
    BY <1>7, <2>1
  <2>3. tail[p + 1].kind = "results" /\ tail[p + 1].id = tail[p].id
    BY <2>1 DEF Results
  <2>4. tail[p] = Asks(tail[p].id)
    BY <1>10, <2>1, MessageForm
  <2>5. tail[p] \in ToSet(tail) /\ tail[p + 1] \in ToSet(tail)
    BY <1>10, <2>2 DEF ToSet
  <2>6. QED
    BY <2>3, <2>4, <2>5
<1> HIDE DEF S
<1>11. ASSUME NEW E, Answered(msgs, E) PROVE Answered(kept, E)
  <2>1. Answered(tail, E)
    BY <1>3, <1>11 DEF Reduces
  <2>2. QED
    BY <1>7, <1>8, <1>10, <2>1, AnsweredKept
<1> HIDE DEF kept
<1>12. Reduces(front \o kept, msgs)
  <2>1. front \in Seq(Message) /\ kept \in Seq(Message)
    BY <1>5, <1>9, ProperMessages
  <2>2. front \o kept \in Seq(Proper) /\ front \o kept # <<>>
    BY <1>5, <1>9, ConcatProperties, ConcatEqualIffEmpty
  <2>3. DrawnFrom(front, SubSeq(msgs, 1, n - keep)) /\ DrawnFrom(kept, SubSeq(msgs, n - keep + 1, n))
    BY <1>4, <1>5, <1>9, NothingDrawn
  <2>4. DrawnFrom(front \o kept, msgs)
    BY <1>1, <1>4, <2>1, <2>3, DrawnJoin
  <2>5. ASSUME NEW E, Answered(msgs, E) PROVE Answered(front \o kept, E)
    <3>1. Answered(front, E)
      BY <1>5, NothingDrawn
    <3>2. Answered(kept, E)
      BY <1>11, <2>5
    <3>3. QED
      BY <2>1, <3>1, <3>2, AnsweredJoin
  <2>6. QED
    BY <2>2, <2>4, <2>5 DEF Reduces
<1>13. QED
  BY <1>6, <1>12, TrailingUserReduces

\* What the snip engine leaves when it cuts from one message to another.
SnipCut(msgs, middle, last) ==
  LET head == SubSeq(msgs, 1, middle - 1)
      tail == SubSeq(msgs, last, Len(msgs))
      calls == Kept(head, {m \in ToSet(head) : m.kind = "asks" => Results(m.id) \in ToSet(tail)})
      results == Kept(tail, {m \in ToSet(tail) :
                   m.kind = "results" => Asks(m.id) \in ToSet(head) \cup ToSet(tail)})
  IN  TrailingUser(calls \o <<Note>> \o results)

LEMMA SnipCuts ==
  ASSUME NEW msgs, NEW less \in Snips(msgs)
  PROVE  \E middle, last \in TurnStarts(msgs) : middle < last /\ less = SnipCut(msgs, middle, last)
<1> DEFINE starts == TurnStarts(msgs)
           cuts == {c \in starts \X starts :
                      /\ c[1] < c[2]
                      /\ Cardinality({s \in starts : s < c[1]}) = KeepHead
                      /\ Cardinality({s \in starts : s >= c[2]}) = KeepTail}
<1>1. Snips(msgs) = {SnipCut(msgs, cut[1], cut[2]) : cut \in cuts}
  BY DEF Snips, SnipCut
<1>2. PICK cut \in cuts : less = SnipCut(msgs, cut[1], cut[2])
  BY <1>1
<1>3. cut[1] \in starts /\ cut[2] \in starts /\ cut[1] < cut[2]
  OBVIOUS
<1>4. QED
  BY <1>2, <1>3

LEMMA DrawnThenSilent ==
  ASSUME NEW msgs, NEW x \in Seq(Proper), NEW y \in Seq(Proper), DrawnFrom(x, msgs),
         \A i \in DOMAIN y : ~Spoken(y[i]) /\ y[i].kind # "asks"
  PROVE  DrawnFrom(x \o y, msgs)
<1> DEFINE a == Len(x)
           z == x \o y
<1>1. /\ DOMAIN z = 1..a + Len(y)
      /\ \A i \in DOMAIN x : z[i] = x[i]
      /\ \A i \in DOMAIN y : z[a + i] = y[i]
      /\ \A i \in 1..a + Len(y) : i \in DOMAIN x \/ \E j \in DOMAIN y : i = a + j
  BY JoinForm
<1> HIDE DEF a, z
<1>2. \A i \in DOMAIN z : Spoken(z[i]) => i \in DOMAIN x /\ z[i] = x[i]
  BY <1>1
<1>3. DrawnFrom(z, msgs)
  BY <1>2 DEF DrawnFrom
<1>4. QED
  BY <1>3 DEF z

LEMMA SnipCutReduces ==
  ASSUME NEW msgs \in Seq(Proper), Ordered(msgs),
         NEW middle \in TurnStarts(msgs), NEW last \in TurnStarts(msgs), middle < last
  PROVE  Reduces(SnipCut(msgs, middle, last), msgs)
<1> DEFINE n == Len(msgs)
           head == SubSeq(msgs, 1, middle - 1)
           tail == SubSeq(msgs, last, n)
           H == {m \in ToSet(head) : m.kind = "asks" => Results(m.id) \in ToSet(tail)}
           T == {m \in ToSet(tail) :
                   m.kind = "results" => Asks(m.id) \in ToSet(head) \cup ToSet(tail)}
           calls == Kept(head, H)
           results == Kept(tail, T)
<1>1. /\ n \in Nat /\ n # 0 /\ middle \in 1..n /\ last \in 1..n
      /\ middle - 1 \in 0..n /\ middle - 1 < last
      /\ middle = 1 \/ msgs[middle].kind \in {"prompt", "note"}
  BY DEF TurnStarts
<1>2. SnipCut(msgs, middle, last) = TrailingUser(calls \o <<Note>> \o results)
  BY DEF SnipCut
<1>3. msgs \in Seq(Message)
  BY ProperMessages
<1>4. /\ head \in Seq(Proper) /\ DOMAIN head = 1..middle - 1 /\ Len(head) = middle - 1
      /\ \A i \in 1..middle - 1 : head[i] = msgs[i] /\ i \in DOMAIN msgs
  <2>1. 1 \in 1..n /\ 1 <= (middle - 1) + 1 /\ (middle - 1) - 1 + 1 = middle - 1
    BY <1>1
  <2>2. \A i \in 1..middle - 1 : 1 + i - 1 = i
    BY <1>1
  <2>3. /\ head \in Seq(Proper) /\ Len(head) = (middle - 1) - 1 + 1
        /\ DOMAIN head = 1..(middle - 1) - 1 + 1
        /\ \A i \in 1..(middle - 1) - 1 + 1 : head[i] = msgs[1 + i - 1] /\ 1 + i - 1 \in DOMAIN msgs
    BY <1>1, <2>1, PartForm
  <2> HIDE DEF head, n
  <2>4. QED
    BY <2>1, <2>2, <2>3
<1>5. /\ tail \in Seq(Proper) /\ DOMAIN tail = 1..n - last + 1 /\ Len(tail) = n - last + 1
      /\ \A i \in 1..n - last + 1 : tail[i] = msgs[last + i - 1] /\ last + i - 1 \in DOMAIN msgs
  <2>1. n \in 0..n /\ last <= n + 1
    BY <1>1
  <2>2. QED
    BY <1>1, <2>1, PartForm
<1>6. ASSUME NEW E, Answered(msgs, E) PROVE Answered(head, E) /\ Answered(tail, E)
  <2>1. Answered(tail, E)
    BY <1>1, <1>3, <1>6, AnsweredEnd
  <2>2. (middle - 1) + 1 = middle
    BY <1>1
  <2>3. middle - 1 # 0 /\ middle - 1 # n /\ msgs[middle - 1].kind = "asks"
          => msgs[(middle - 1) + 1].kind # "results"
    BY <1>1, <2>2
  <2>4. Answered(head, E)
    BY <1>1, <1>3, <1>6, <2>3, AnsweredBeginning
  <2>5. QED
    BY <2>1, <2>4
<1> HIDE DEF head, tail, n
\* The results of calls in the head that are answered there are not in the tail as well.
<1>7. ASSUME NEW p \in DOMAIN head, head[p].kind = "asks", head[p] \in H
      PROVE  ~Followed(head, p)
  <2>1. SUFFICES ASSUME Followed(head, p) PROVE FALSE
    OBVIOUS
  <2>2. p < middle - 1 /\ head[p + 1] = Results(head[p].id)
    BY <1>4, <2>1 DEF Followed
  <2>3. p + 1 \in 1..middle - 1 /\ msgs[p + 1] = Results(head[p].id) /\ p + 1 \in DOMAIN msgs
    <3>1. p + 1 \in 1..middle - 1
      BY <1>1, <1>4, <2>2
    <3>2. QED
      BY <1>4, <2>2, <3>1
  <2>4. Results(head[p].id) \in ToSet(tail)
    BY <1>7
  <2>5. PICK q \in 1..n - last + 1 : tail[q] = Results(head[p].id)
    BY <1>5, <2>4 DEF ToSet
  <2>6. last + q - 1 \in DOMAIN msgs /\ msgs[last + q - 1] = Results(head[p].id)
    BY <1>5, <2>5
  <2>7. Spoken(msgs[p + 1])
    BY <2>3 DEF Spoken, Results
  <2>8. p + 1 = last + q - 1
    BY <2>3, <2>6, <2>7, OnceEach
  <2>9. QED
    BY <1>1, <2>3, <2>5, <2>8
<1>8. ASSUME NEW p \in DOMAIN tail, tail[p].kind = "asks", tail[p] \in T, Followed(tail, p)
      PROVE  tail[p + 1] \in T
  <2>1. p \in 1..Len(tail) /\ Len(tail) \in Nat /\ p < Len(tail) /\ tail[p + 1] = Results(tail[p].id)
    BY <1>5, <1>8 DEF Followed
  <2>2. p + 1 \in DOMAIN tail
    BY <1>5, <2>1
  <2>3. tail[p + 1].kind = "results" /\ tail[p + 1].id = tail[p].id
    BY <2>1 DEF Results
  <2>4. tail[p] = Asks(tail[p].id)
    <3>1. tail[p] \in Proper
      BY <1>5, <1>8
    <3>2. QED
      BY <1>8, <3>1, ProperForm
  <2>5. tail[p] \in ToSet(tail) /\ tail[p + 1] \in ToSet(tail)
    BY <1>8, <2>2 DEF ToSet
  <2>6. QED
    BY <2>3, <2>4, <2>5
<1> HIDE DEF H, T
<1>9. /\ calls \in Seq(Proper) /\ DrawnFrom(calls, head)
      /\ results \in Seq(Proper) /\ DrawnFrom(results, tail)
  BY <1>4, <1>5, KeptForm, DrawnKept
<1>10. ASSUME NEW E, Answered(msgs, E) PROVE Answered(calls, E) /\ Answered(results, E)
  <2>1. Answered(head, E) /\ Answered(tail, E) /\ head \in Seq(Message) /\ tail \in Seq(Message)
    BY <1>4, <1>5, <1>6, <1>10, ProperMessages
  <2>2. Answered(calls, E)
    BY <1>7, <2>1, AnsweredKept
  <2>3. Answered(results, E)
    BY <1>8, <2>1, AnsweredKept
  <2>4. QED
    BY <2>2, <2>3
<1> HIDE DEF calls, results
<1> DEFINE note == <<Note>>
<1>11. /\ note \in Seq(Proper) /\ note # <<>>
       /\ \A i \in DOMAIN note : ~Spoken(note[i]) /\ note[i].kind # "asks"
  <2>1. Note \in Proper /\ ~Spoken(Note) /\ Note.kind # "asks"
    BY ProperMessages
  <2>2. note \in Seq(Proper) /\ note # <<>> /\ \A i \in DOMAIN note : note[i] = Note
    BY <2>1
  <2>3. QED
    BY <2>1, <2>2
<1>12. SnipCut(msgs, middle, last) = TrailingUser(calls \o note \o results)
  BY <1>2
<1> HIDE DEF note
<1> DEFINE front == calls \o note
<1>13. front \in Seq(Proper) /\ front # <<>>
  BY <1>9, <1>11, ConcatProperties, ConcatEqualIffEmpty
<1>14. DrawnFrom(front, head)
  BY <1>9, <1>11, DrawnThenSilent
<1>15. ASSUME NEW E, Answered(msgs, E) PROVE Answered(front, E)
  <2>1. calls \in Seq(Message) /\ note \in Seq(Message)
    BY <1>9, <1>11, ProperMessages
  <2>2. Answered(note, E)
    BY <1>11, NothingDrawn
  <2>3. QED
    BY <1>10, <1>15, <2>1, <2>2, AnsweredJoin
<1> HIDE DEF front
<1>16. Reduces(front \o results, msgs)
  <2>1. front \in Seq(Message) /\ results \in Seq(Message)
    BY <1>9, <1>13, ProperMessages
  <2>2. front \o results \in Seq(Proper) /\ front \o results # <<>>
    BY <1>9, <1>13, ConcatProperties, ConcatEqualIffEmpty
  <2>3. DrawnFrom(front, SubSeq(msgs, 1, middle - 1)) /\ DrawnFrom(results, SubSeq(msgs, last, Len(msgs)))
    BY <1>9, <1>14 DEF head, tail, n
  <2>4. middle - 1 \in 0..Len(msgs) /\ last \in 1..Len(msgs) /\ middle - 1 < last
    BY <1>1 DEF n
  <2>5. DrawnFrom(front \o results, msgs)
    BY <1>3, <2>1, <2>3, <2>4, DrawnJoin
  <2>6. ASSUME NEW E, Answered(msgs, E) PROVE Answered(front \o results, E)
    BY <1>10, <1>15, <2>1, <2>6, AnsweredJoin
  <2>7. QED
    BY <2>2, <2>5, <2>6 DEF Reduces
<1>17. QED
  BY <1>12, <1>16, TrailingUserReduces DEF front

\* Any way SnipEngine.snip takes turns out of the middle of a conversation leaves the
\* rest in its order, and no call behind without the results that followed it (the
\* results of calls that it drops may stay: those the repair takes out).
THEOREM SnipsReduce ==
  ASSUME NEW msgs \in Seq(Proper), Ordered(msgs), NEW less \in Snips(msgs)
  PROVE  Reduces(less, msgs)
BY SnipCuts, SnipCutReduces

-----------------------------------------------------------------------------
(***************************************************************************)
(* What the transcript holds                                               *)
(***************************************************************************)

\* Two orders of the same messages are one.
LEMMA SameOrder ==
  ASSUME NEW a \in Seq(Message), NEW b \in Seq(Message), Ordered(a), Ordered(b),
         \A i \in DOMAIN a : Spoken(a[i]), \A i \in DOMAIN b : Spoken(b[i]),
         ToSet(a) = ToSet(b)
  PROVE  a = b
<1> DEFINE m == Len(a)
           n == Len(b)
           Same(i) == i \in 1..m /\ i \in 1..n /\ a[i] = b[i]
           T == {i \in Nat : (i \in 1..m \/ i \in 1..n) /\ ~Same(i)}
<1>1. /\ m \in Nat /\ n \in Nat /\ DOMAIN a = 1..m /\ DOMAIN b = 1..n
      /\ \A i \in 1..m : a[i] \in Message
      /\ \A i \in 1..n : b[i] \in Message
  OBVIOUS
<1>2. /\ \A i, j \in 1..m : i < j => Before(a[i], a[j])
      /\ \A i, j \in 1..n : i < j => Before(b[i], b[j])
  BY <1>1 DEF Ordered
<1>3. /\ \A i \in 1..m : \E j \in 1..n : b[j] = a[i]
      /\ \A i \in 1..n : \E j \in 1..m : a[j] = b[i]
  <2>1. \A i \in 1..m : a[i] \in ToSet(b)
    BY <1>1 DEF ToSet
  <2>2. \A i \in 1..n : b[i] \in ToSet(a)
    BY <1>1 DEF ToSet
  <2>3. QED
    BY <1>1, <2>1, <2>2 DEF ToSet
<1> HIDE DEF m, n
<1>4. T = {}
  <2>1. SUFFICES ASSUME T # {} PROVE FALSE
    OBVIOUS
  <2>2. PICK i \in T : \A j \in T : i <= j
    <3>1. T \in SUBSET Nat
      OBVIOUS
    <3> HIDE DEF T
    <3>2. QED
      BY <2>1, <3>1, LeastNat
  <2>3. \A j \in 1..m : j < i => Same(j)
    BY <1>1, <2>2
  <2>4. \A j \in 1..n : j < i => Same(j)
    BY <1>1, <2>2
  <2>5. i \in Nat /\ ~Same(i) /\ (i \in 1..m \/ i \in 1..n)
    BY <2>2
  <2> HIDE DEF T
  <2>6. ASSUME i \in 1..m
        PROVE  \E j \in 1..n : b[j] = a[i] /\ i <= j
    <3>1. PICK j \in 1..n : b[j] = a[i]
      BY <1>3, <2>6
    <3>2. ASSUME j < i PROVE FALSE
      <4>1. j \in 1..m /\ a[j] = a[i]
        BY <2>4, <3>1, <3>2
      <4>2. Before(a[j], a[i]) /\ a[j] \in Message /\ a[i] \in Message
        BY <1>1, <1>2, <2>6, <3>2, <4>1
      <4>3. QED
        BY <4>1, <4>2, BeforeStrict
    <3>3. QED
      BY <1>1, <2>5, <3>1, <3>2
  <2>7. ASSUME i \in 1..n
        PROVE  \E j \in 1..m : a[j] = b[i] /\ i <= j
    <3>1. PICK j \in 1..m : a[j] = b[i]
      BY <1>3, <2>7
    <3>2. ASSUME j < i PROVE FALSE
      <4>1. j \in 1..n /\ b[j] = b[i]
        BY <2>3, <3>1, <3>2
      <4>2. Before(b[j], b[i]) /\ b[j] \in Message /\ b[i] \in Message
        BY <1>1, <1>2, <2>7, <3>2, <4>1
      <4>3. QED
        BY <4>1, <4>2, BeforeStrict
    <3>3. QED
      BY <1>1, <2>5, <3>1, <3>2
  <2>8. i \in 1..m /\ i \in 1..n
    BY <1>1, <2>5, <2>6, <2>7
  <2>9. PICK j \in 1..n : b[j] = a[i] /\ i <= j
    BY <2>6, <2>8
  <2>10. PICK k \in 1..m : a[k] = b[i] /\ i <= k
    BY <2>7, <2>8
  <2>11. i # j /\ i # k
    BY <2>5, <2>8, <2>9, <2>10
  <2>12. i < j /\ i < k
    BY <1>1, <2>5, <2>9, <2>10, <2>11
  <2>13. Before(b[i], a[i]) /\ Before(a[i], b[i]) /\ a[i] \in Message /\ b[i] \in Message
    BY <1>1, <1>2, <2>8, <2>9, <2>10, <2>12
  <2>14. QED
    BY <2>13, BeforeStrict
<1>5. /\ \A i \in 1..m : i \in 1..n /\ a[i] = b[i]
      /\ \A i \in 1..n : i \in 1..m
  BY <1>1, <1>4
<1>6. m = n
  BY <1>1, <1>5
<1>7. QED
  BY <1>1, <1>5, <1>6 DEF m, n

\* What an entry makes the session hear again.
Saying(e) == e.type # "turn_result"
Said(e) == IF e.type = "accepted_input" THEN Prompt(e.turn) ELSE e.msg
Counts(file, e) ==
  \/ e.type = "accepted_input"
  \/ e.type = "message" /\ HasEnded(file, e.turn)
Heard(file) == {Said(e) : e \in {d \in ToSet(file) : Counts(file, d)}}

FileOrdered(file) ==
  \A i, j \in DOMAIN file : i < j /\ Saying(file[i]) /\ Saying(file[j])
                              => Before(Said(file[i]), Said(file[j]))
ProperEntry(e) ==
  e.type = "message" => e.msg \in Proper /\ e.msg.kind \in Speech /\ e.msg.id[1] = e.turn
FileProper(file) == \A e \in ToSet(file) : ProperEntry(e)
FileFollowed(file, i) ==
  i < Len(file) /\ file[i + 1] = Durable(file[i].turn, Results(file[i].msg.id))
FileAnswered(file, excused) ==
  \A i \in DOMAIN file : file[i].type = "message" /\ file[i].msg.kind = "asks" =>
    FileFollowed(file, i) \/ file[i].turn \in excused \/ ~HasEnded(file, file[i].turn)

LEMMA EntryForm ==
  ASSUME NEW e \in Entry
  PROVE  /\ e.turn \in Nat /\ e.type \in {"accepted_input", "message", "turn_result"}
         /\ e.type = "message" => e.msg \in Message
         /\ Saying(e) => Said(e) \in Message
         /\ e.type = "accepted_input" => e = Input(e.turn) /\ Said(e) = Prompt(e.turn)
         /\ Prompt(e.turn) \in Proper /\ Spoken(Prompt(e.turn))
         /\ ProperEntry(e) /\ Saying(e) => Said(e) \in Proper /\ Spoken(Said(e))
<1>1. /\ e.turn \in Nat /\ e.type \in {"accepted_input", "message", "turn_result"}
      /\ e.type = "message" => e.msg \in Message
  BY DEF Entry
<1>2. e.type = "accepted_input" => e = Input(e.turn)
  BY DEF Entry, Input
<1>3. Prompt(e.turn) \in Message /\ Prompt(e.turn).kind = "prompt"
  BY <1>1 DEF Prompt, Message, Kind
<1>4. Prompt(e.turn) \in Proper /\ Spoken(Prompt(e.turn))
  BY <1>3 DEF Proper, Speech, Spoken
<1>5. ASSUME ProperEntry(e), Saying(e) PROVE Said(e) \in Proper /\ Spoken(Said(e))
  <2>1. e.type = "message" => e.msg \in Proper /\ Spoken(e.msg)
    BY <1>5 DEF ProperEntry, Spoken, Speech
  <2>2. QED
    BY <1>1, <1>4, <1>5, <2>1 DEF Said, Saying
<1>6. QED
  BY <1>1, <1>2, <1>3, <1>4, <1>5 DEF Said, Saying

\* What replayTranscriptEntries reads back from a file, for every file: the
\* accepted inputs and the messages of the turns that ended, each of them and
\* nothing else; in the order they were written, and with calls followed by their
\* results as they are in the file.
THEOREM ReplayForm ==
  ASSUME NEW file \in Seq(Entry)
  PROVE  /\ Replayed(file) \in Seq(Message)
         /\ ToSet(Replayed(file)) = Heard(file)
         /\ FileOrdered(file) => Ordered(Replayed(file))
         /\ FileProper(file) => /\ Replayed(file) \in Seq(Proper)
                                /\ \A i \in DOMAIN Replayed(file) : Spoken(Replayed(file)[i])
         /\ \A E : FileProper(file) /\ FileAnswered(file, E) => Answered(Replayed(file), E)
<1> DEFINE S == {e \in ToSet(file) : Counts(file, e)}
           read == Kept(file, S)
           replay == [i \in DOMAIN read |-> Said(read[i])]
<1>1. Replayed(file) = replay
  <2>1. S = {e \in ToSet(file) : \/ e.type = "accepted_input"
                                 \/ e.type = "message" /\ HasEnded(file, e.turn)}
    BY DEF Counts
  <2>2. Replayed(file) = [i \in DOMAIN read |->
           IF read[i].type = "accepted_input" THEN Prompt(read[i].turn) ELSE read[i].msg]
    BY <2>1 DEF Replayed
  <2> HIDE DEF read
  <2>3. QED
    BY <2>2 DEF Said
<1>2. read \in Seq(Entry) /\ Selects(read, file, S)
  BY KeptForm
<1> HIDE DEF read
<1> DEFINE n == Len(read)
<1>3. n \in Nat /\ DOMAIN read = 1..n /\ \A i \in 1..n : read[i] \in Entry
  BY <1>2
<1>4. \A e \in S : e \in ToSet(file) /\ Saying(e) /\ Counts(file, e)
  BY DEF Saying, Counts
<1>5. \A i \in 1..n : read[i] \in S
  BY <1>2, <1>3 DEF Selects
<1>6. \A i \in 1..n : Said(read[i]) \in Message
  BY <1>3, <1>4, <1>5, EntryForm
<1> HIDE DEF S, n
<1>7. DOMAIN replay = 1..n /\ \A i \in 1..n : replay[i] = Said(read[i])
  BY <1>3
<1>8. replay \in Seq(Message) /\ Len(replay) = n
  <2>1. replay = [i \in 1..n |-> replay[i]] /\ \A i \in 1..n : replay[i] \in Message
    BY <1>3, <1>6
  <2> HIDE DEF replay
  <2>2. QED
    BY <1>3, <1>7, <2>1
<1> HIDE DEF replay
<1>9. ToSet(replay) = Heard(file)
  <2>1. ASSUME NEW i \in 1..n PROVE replay[i] \in Heard(file)
    BY <1>4, <1>5, <1>7 DEF Heard
  <2>2. ASSUME NEW e \in ToSet(file), Counts(file, e) PROVE \E i \in 1..n : replay[i] = Said(e)
    <3>1. PICK p \in DOMAIN file : file[p] = e
      BY DEF ToSet
    <3>2. file[p] \in S
      BY <2>2, <3>1 DEF S
    <3>3. PICK i \in 1..n : read[i] = file[p]
      BY <1>2, <1>3, <3>2 DEF Selects
    <3>4. QED
      BY <1>7, <3>1, <3>3
  <2>3. QED
    BY <1>7, <2>1, <2>2 DEF ToSet, Heard
<1>10. ASSUME FileOrdered(file) PROVE Ordered(replay)
  <2>1. ASSUME NEW i \in 1..n, NEW j \in 1..n, i < j PROVE Before(replay[i], replay[j])
    <3>0. i \in DOMAIN read /\ j \in DOMAIN read
      BY <1>3
    <3>1. PICK p \in DOMAIN file, q \in DOMAIN file : p < q /\ file[p] = read[i] /\ file[q] = read[j]
      BY <1>2, <2>1, <3>0 DEF Selects
    <3>2. Saying(read[i]) /\ Saying(read[j])
      BY <1>4, <1>5
    <3>3. QED
      BY <1>7, <1>10, <3>1, <3>2 DEF FileOrdered
  <2>2. QED
    BY <1>7, <2>1 DEF Ordered
<1>11. ASSUME FileProper(file)
       PROVE  replay \in Seq(Proper) /\ \A i \in DOMAIN replay : Spoken(replay[i])
  <2>1. \A i \in 1..n : replay[i] \in Proper /\ Spoken(replay[i])
    BY <1>3, <1>4, <1>5, <1>7, <1>11, EntryForm DEF FileProper
  <2>2. replay = [i \in 1..n |-> replay[i]]
    BY <1>7, <1>8
  <2>3. QED
    BY <1>3, <1>7, <1>8, <2>1, <2>2
<1>12. ASSUME NEW E, FileProper(file), FileAnswered(file, E) PROVE Answered(replay, E)
  <2>1. ASSUME NEW i \in 1..n, replay[i].kind = "asks"
        PROVE  Followed(replay, i) \/ replay[i].id[1] \in E
    <3>0. \E p \in DOMAIN file :
            /\ read[i] = file[p] /\ file[p] \in S
            /\ p < Len(file) /\ file[p + 1] \in S => i < Len(read) /\ read[i + 1] = file[p + 1]
      BY <1>2, <1>3 DEF Selects
    <3>1. PICK p \in DOMAIN file :
            /\ read[i] = file[p] /\ file[p] \in S
            /\ p < Len(file) /\ file[p + 1] \in S => i < n /\ read[i + 1] = file[p + 1]
      BY <3>0 DEF n
    <3>2. file[p] \in ToSet(file) /\ Counts(file, file[p]) /\ ProperEntry(file[p]) /\ file[p] \in Entry
      BY <1>4, <1>12, <3>1 DEF FileProper
    <3>3. /\ file[p].type = "message" /\ replay[i] = file[p].msg
          /\ file[p].msg.id[1] = file[p].turn /\ HasEnded(file, file[p].turn)
      <4>1. replay[i] = Said(file[p])
        BY <1>7, <3>1
      <4>2. Prompt(file[p].turn).kind # "asks"
        BY DEF Prompt
      <4>3. QED
        BY <2>1, <3>2, <4>1, <4>2 DEF Said, Counts, ProperEntry
    <3>4. FileFollowed(file, p) \/ file[p].turn \in E
      BY <1>12, <2>1, <3>3 DEF FileAnswered
    <3>5. ASSUME FileFollowed(file, p) PROVE Followed(replay, i)
      <4>1. p < Len(file) /\ file[p + 1] = Durable(file[p].turn, Results(file[p].msg.id))
        BY <3>5 DEF FileFollowed
      <4>2. p + 1 \in DOMAIN file
        BY <4>1
      <4>3. file[p + 1].type = "message" /\ file[p + 1].turn = file[p].turn
            /\ file[p + 1].msg = Results(file[p].msg.id)
        BY <4>1 DEF Durable
      <4>4. file[p + 1] \in S
        BY <3>3, <4>2, <4>3 DEF S, ToSet, Counts
      <4>5. i < n /\ read[i + 1] = file[p + 1]
        BY <3>1, <4>1, <4>4
      <4>6. i + 1 \in 1..n
        BY <1>3, <4>5
      <4>7. replay[i + 1] = Results(replay[i].id)
        BY <1>7, <3>3, <4>3, <4>5, <4>6 DEF Said
      <4>8. QED
        BY <1>8, <4>5, <4>7 DEF Followed
    <3>6. QED
      BY <3>3, <3>4, <3>5
  <2>2. QED
    BY <1>7, <2>1 DEF Answered
<1>13. QED
  BY <1>1, <1>8, <1>9, <1>10, <1>11, <1>12

\* What has been heard is heard again after more has been written.
LEMMA HeardGrows ==
  ASSUME NEW file \in Seq(Entry), NEW e \in Entry
  PROVE  /\ Append(file, e) \in Seq(Entry)
         /\ ToSet(Append(file, e)) = ToSet(file) \cup {e}
         /\ Heard(file) \subseteq Heard(Append(file, e))
<1> DEFINE more == Append(file, e)
<1>1. /\ more \in Seq(Entry) /\ Len(file) \in Nat /\ DOMAIN file = 1..Len(file)
      /\ DOMAIN more = 1..Len(file) + 1 /\ more[Len(file) + 1] = e
      /\ \A i \in 1..Len(file) : more[i] = file[i]
  BY AppendProperties
<1>2. \A i \in 1..Len(file) + 1 : i \in 1..Len(file) \/ i = Len(file) + 1
  BY <1>1
<1> HIDE DEF more
<1>3. ToSet(more) = ToSet(file) \cup {e}
  <2>1. ToSet(more) \subseteq ToSet(file) \cup {e}
    BY <1>1, <1>2 DEF ToSet
  <2>2. ToSet(file) \subseteq ToSet(more)
    BY <1>1 DEF ToSet
  <2>3. e \in ToSet(more)
    BY <1>1 DEF ToSet
  <2>4. QED
    BY <2>1, <2>2, <2>3
<1>4. \A d : Counts(file, d) => Counts(more, d)
  BY <1>3 DEF Counts, HasEnded
<1>5. Heard(file) \subseteq Heard(more)
  BY <1>3, <1>4 DEF Heard
<1>6. QED
  BY <1>1, <1>3, <1>5 DEF more

===================================================================================
