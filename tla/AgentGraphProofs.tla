---------------------------- MODULE AgentGraphProofs ----------------------------
(***************************************************************************)
(* Proofs about AgentGraph: IInv is inductive, and implies its properties, *)
(* for any numbers of invocations, calls, Agents, budgets and Approvals.   *)
(***************************************************************************)
EXTENDS AgentGraph, FiniteSetTheorems, TLAPS

-----------------------------------------------------------------------------
(***************************************************************************)
(* What the operators on states return                                     *)
(***************************************************************************)

\* A request for a batch is a message, and so is an answer.
LEMMA MessagesAreTyped ==
    /\ UserSays \in Message
    /\ \A batch \in Batches : Asking(batch) \in Message
    /\ \A c \in Calls : Answering(c) \in Message
BY SMT DEF UserSays, Asking, Answering, Message

\* A batch is a sequence of calls that is not empty.
LEMMA BatchesAreSequences ==
    \A batch \in Batches \cup {<<>>} : batch \in Seq(Calls) /\ Len(batch) \in Nat
<1>1. ASSUME NEW batch \in Batches PROVE batch \in Seq(Calls)
  BY ConstantsAssumption
<1>2. <<>> \in Seq(Calls)
  OBVIOUS
<1>3. \A s \in Seq(Calls) : Len(s) \in Nat
  OBVIOUS
<1> QED BY <1>1, <1>2, <1>3

\* The call at a cursor that is not past the end is a call.
LEMMA CurrentIsCall ==
    ASSUME NEW st \in State, st.cursor < Len(st.calls)
    PROVE  Current(st) \in Calls
<1>1. st.calls \in Seq(Calls)
  BY BatchesAreSequences DEF State
<1>2. st.cursor \in Nat
  BY DEF State
<1> QED BY <1>1, <1>2 DEF Current

LEMMA InitialStateFields ==
    ASSUME NEW agent \in Agents \cup {NoAgent}, NEW budget \in Nat
    PROVE  /\ InitialState(agent, budget) \in State
           /\ InitialState(agent, budget).agent = agent
           /\ InitialState(agent, budget).budget = budget
           /\ InitialState(agent, budget).step = 0
           /\ InitialState(agent, budget).messages = <<UserSays>>
           /\ InitialState(agent, budget).calls = <<>>
           /\ InitialState(agent, budget).cursor = 0
           /\ InitialState(agent, budget).pending = NoApproval
           /\ InitialState(agent, budget).answered = FALSE
<1>1. <<UserSays>> \in Seq(Message)
  BY MessagesAreTyped
<1> QED BY <1>1 DEF InitialState, State

LEMMA WithBatchFields ==
    ASSUME NEW st \in State, NEW batch \in Batches
    PROVE  /\ WithBatch(st, batch) \in State
           /\ WithBatch(st, batch).agent = st.agent
           /\ WithBatch(st, batch).budget = st.budget
           /\ WithBatch(st, batch).step = st.step + 1
           /\ WithBatch(st, batch).messages = Append(st.messages, Asking(batch))
           /\ WithBatch(st, batch).calls = batch
           /\ WithBatch(st, batch).cursor = 0
           /\ WithBatch(st, batch).pending = NoApproval
           /\ WithBatch(st, batch).answered = st.answered
<1>1. Append(st.messages, Asking(batch)) \in Seq(Message)
  BY MessagesAreTyped DEF State
<1>2. WithBatch(st, batch) \in State
  BY <1>1, st.step + 1 \in Nat DEF WithBatch, State
<1> QED BY <1>2 DEF WithBatch, State

LEMMA WithAnswerFields ==
    ASSUME NEW st \in State
    PROVE  /\ WithAnswer(st) \in State
           /\ WithAnswer(st).agent = st.agent
           /\ WithAnswer(st).budget = st.budget
           /\ WithAnswer(st).step = st.step + 1
           /\ WithAnswer(st).messages = st.messages
           /\ WithAnswer(st).calls = st.calls
           /\ WithAnswer(st).cursor = st.cursor
           /\ WithAnswer(st).pending = st.pending
           /\ WithAnswer(st).answered = TRUE
<1>1. WithAnswer(st) \in State
  BY TRUE \in BOOLEAN, st.step + 1 \in Nat DEF WithAnswer, State
<1>2. /\ WithAnswer(st).agent = st.agent
      /\ WithAnswer(st).budget = st.budget
      /\ WithAnswer(st).step = st.step + 1
      /\ WithAnswer(st).messages = st.messages
      /\ WithAnswer(st).calls = st.calls
      /\ WithAnswer(st).cursor = st.cursor
      /\ WithAnswer(st).pending = st.pending
  BY DEF WithAnswer, State
<1>3. WithAnswer(st).answered = TRUE
  BY DEF WithAnswer, State
<1> QED BY <1>1, <1>2, <1>3

LEMMA CallDoneFields ==
    ASSUME NEW st \in State, st.cursor < Len(st.calls)
    PROVE  /\ CallDone(st) \in State
           /\ CallDone(st).agent = st.agent
           /\ CallDone(st).budget = st.budget
           /\ CallDone(st).step = st.step
           /\ CallDone(st).messages = Append(st.messages, Answering(Current(st)))
           /\ CallDone(st).calls = st.calls
           /\ CallDone(st).cursor = st.cursor + 1
           /\ CallDone(st).pending = NoApproval
           /\ CallDone(st).answered = st.answered
<1>1. Append(st.messages, Answering(Current(st))) \in Seq(Message)
  BY MessagesAreTyped, CurrentIsCall DEF State
<1>2. CallDone(st) \in State
  BY <1>1, st.cursor + 1 \in Nat DEF CallDone, State
<1> QED BY <1>2 DEF CallDone, State

LEMMA PausedForFields ==
    ASSUME NEW st \in State, NEW p \in Approvals
    PROVE  /\ PausedFor(st, p) \in State
           /\ PausedFor(st, p).agent = st.agent
           /\ PausedFor(st, p).budget = st.budget
           /\ PausedFor(st, p).step = st.step
           /\ PausedFor(st, p).messages = st.messages
           /\ PausedFor(st, p).calls = st.calls
           /\ PausedFor(st, p).cursor = st.cursor
           /\ PausedFor(st, p).pending = p
           /\ PausedFor(st, p).answered = st.answered
BY DEF PausedFor, State

LEMMA BatchDoneFields ==
    ASSUME NEW st \in State
    PROVE  /\ BatchDone(st) \in State
           /\ BatchDone(st).agent = st.agent
           /\ BatchDone(st).budget = st.budget
           /\ BatchDone(st).step = st.step
           /\ BatchDone(st).messages = st.messages
           /\ BatchDone(st).calls = st.calls
           /\ BatchDone(st).cursor = st.cursor
           /\ BatchDone(st).pending = NoApproval
           /\ BatchDone(st).answered = st.answered
BY DEF BatchDone, State

LEMMA ResumedForFields ==
    ASSUME NEW st \in State
    PROVE  /\ ResumedFor(st) \in State
           /\ ResumedFor(st).agent = st.agent
           /\ ResumedFor(st).budget = st.budget
           /\ ResumedFor(st).step = st.step
           /\ ResumedFor(st).messages = st.messages
           /\ ResumedFor(st).calls = st.calls
           /\ ResumedFor(st).cursor = st.cursor
           /\ ResumedFor(st).pending = st.pending
           /\ ResumedFor(st).answered = st.answered
BY DEF ResumedFor, State

-----------------------------------------------------------------------------
(***************************************************************************)
(* Transcripts                                                             *)
(***************************************************************************)

\* Appending changes no earlier message.
LEMMA AppendedMessages ==
    ASSUME NEW m \in Seq(Message), NEW x \in Message
    PROVE  /\ Len(Append(m, x)) = Len(m) + 1
           /\ DOMAIN Append(m, x) = 1 .. Len(m) + 1
           /\ \A i \in 1 .. Len(m) : Append(m, x)[i] = m[i]
           /\ Append(m, x)[Len(m) + 1] = x
           /\ DOMAIN m = 1 .. Len(m) /\ Len(m) \in Nat
BY SMT

\* The calls of a message are a sequence.
LEMMA CallsOfMessages ==
    ASSUME NEW m \in Seq(Message), NEW i \in 1 .. Len(m)
    PROVE  /\ Len(m[i].calls) \in Nat
           /\ DOMAIN m[i].calls = 1 .. Len(m[i].calls)
<1>1. m[i] \in Message
  OBVIOUS
<1>2. m[i].calls \in Seq(Calls)
  BY <1>1, BatchesAreSequences DEF Message
<1> QED BY <1>2

\* A new batch at the end of a complete transcript is the open one.
LEMMA BatchOpens ==
    ASSUME NEW m \in Seq(Message), NEW batch \in Batches,
           AnswersBefore(m, Len(m) + 1)
    PROVE  /\ AnswersBefore(Append(m, Asking(batch)), Len(m) + 1)
           /\ OpenBatch(Append(m, Asking(batch)), Len(m) + 1, batch)
<1> DEFINE n == Append(m, Asking(batch))
<1>1. /\ Len(n) = Len(m) + 1 /\ DOMAIN n = 1 .. Len(m) + 1
      /\ \A i \in 1 .. Len(m) : n[i] = m[i]
      /\ n[Len(m) + 1] = Asking(batch)
      /\ DOMAIN m = 1 .. Len(m) /\ Len(m) \in Nat
  BY AppendedMessages, MessagesAreTyped
<1> HIDE DEF n
<1>2. ASSUME NEW i \in DOMAIN n, n[i].role = "assistant"
      PROVE  /\ i < Len(m) + 1 => i + Len(n[i].calls) < Len(m) + 1
             /\ \A k \in DOMAIN n[i].calls :
                  i + k <= Len(n) => n[i + k] = Answering(n[i].calls[k])
  <2>1. CASE i = Len(m) + 1
    <3>1. n[i].calls = batch
      BY <1>1, <2>1 DEF Asking
    <3>2. DOMAIN batch = 1 .. Len(batch) /\ Len(batch) \in Nat
      BY BatchesAreSequences
    <3>3. ~(i < Len(m) + 1)
      BY <1>1, <2>1
    <3>4. ASSUME NEW k \in 1 .. Len(batch) PROVE ~(i + k <= Len(n))
      BY <1>1, <2>1, <3>2
    <3> QED BY <3>1, <3>2, <3>3, <3>4
  <2>2. CASE i \in 1 .. Len(m)
    <3>1. n[i] = m[i] /\ i \in DOMAIN m
      BY <1>1, <2>2
    <3>2. i + Len(m[i].calls) < Len(m) + 1
      BY <1>2, <2>2, <3>1, <1>1 DEF AnswersBefore
    <3>3. Len(m[i].calls) \in Nat /\ DOMAIN m[i].calls = 1 .. Len(m[i].calls)
      BY <2>2, CallsOfMessages
    <3>4. ASSUME NEW k \in DOMAIN m[i].calls
          PROVE  n[i + k] = Answering(m[i].calls[k])
      <4>1. i + k \in 1 .. Len(m)
        BY <2>2, <3>2, <3>3, <1>1
      <4>2. m[i + k] = Answering(m[i].calls[k])
        BY <1>2, <3>1, <4>1, <1>1 DEF AnswersBefore
      <4> QED BY <4>1, <4>2, <1>1
    <3> QED BY <3>1, <3>2, <3>4
  <2> QED BY <2>1, <2>2, <1>1
<1>3. ASSUME NEW i \in DOMAIN n, n[i].role = "tool"
      PROVE  \E j \in 1 .. i : n[j].role = "assistant" /\ i - j \in DOMAIN n[j].calls
  <2>1. i \in 1 .. Len(m) /\ n[i] = m[i]
    BY <1>1, <1>3 DEF Asking
  <2>2. PICK j \in 1 .. i : m[j].role = "assistant" /\ i - j \in DOMAIN m[j].calls
    BY <1>1, <1>3, <2>1 DEF AnswersBefore
  <2>3. n[j] = m[j]
    BY <1>1, <2>1, <2>2
  <2> QED BY <2>2, <2>3
<1>4. AnswersBefore(n, Len(m) + 1)
  BY <1>2, <1>3 DEF AnswersBefore
<1>5. OpenBatch(n, Len(m) + 1, batch)
  BY <1>1 DEF OpenBatch
<1> QED BY <1>4, <1>5 DEF n

\* The answer to the call at the cursor extends the open batch.
LEMMA BatchAdvances ==
    ASSUME NEW m \in Seq(Message), NEW calls \in Batches \cup {<<>>},
           NEW cursor \in Nat, cursor < Len(calls),
           AnswersBefore(m, Len(m) - cursor), OpenBatch(m, Len(m) - cursor, calls)
    PROVE  LET n == Append(m, Answering(calls[cursor + 1])) IN
           /\ AnswersBefore(n, Len(m) - cursor)
           /\ OpenBatch(n, Len(m) - cursor, calls)
<1> DEFINE answer == Answering(calls[cursor + 1])
           n == Append(m, answer)
           b == Len(m) - cursor
<1>1. calls \in Seq(Calls) /\ Len(calls) \in Nat /\ DOMAIN calls = 1 .. Len(calls)
  BY BatchesAreSequences
<1>2. answer \in Message /\ answer.role = "tool"
  <2>1. calls[cursor + 1] \in Calls
    BY <1>1
  <2> QED BY <2>1, MessagesAreTyped DEF Answering
<1>3. /\ Len(n) = Len(m) + 1 /\ DOMAIN n = 1 .. Len(m) + 1
      /\ \A i \in 1 .. Len(m) : n[i] = m[i]
      /\ n[Len(m) + 1] = answer
      /\ DOMAIN m = 1 .. Len(m) /\ Len(m) \in Nat
  BY <1>2, AppendedMessages
<1> HIDE DEF n, answer
<1>4. b \in 1 .. Len(m) /\ m[b] = Asking(calls) /\ n[b] = Asking(calls)
  BY <1>3 DEF OpenBatch
<1>5. Asking(calls).role = "assistant" /\ Asking(calls).calls = calls
  BY DEF Asking
<1>6. b + (cursor + 1) = Len(m) + 1
  BY <1>3
<1>7. \A i \in 1 .. Len(m) : i > b => m[i].role = "tool"
  BY <1>3 DEF OpenBatch
<1>8. /\ \A i \in DOMAIN m : m[i].role = "assistant" =>
           /\ i < b => i + Len(m[i].calls) < b
           /\ \A k \in DOMAIN m[i].calls :
                i + k <= Len(m) => m[i + k] = Answering(m[i].calls[k])
      /\ \A i \in DOMAIN m : m[i].role = "tool" =>
           \E j \in 1 .. i : m[j].role = "assistant" /\ i - j \in DOMAIN m[j].calls
  BY DEF AnswersBefore
<1> HIDE DEF b
<1>9. b \in Nat
  BY <1>3, <1>4
<1>10. ASSUME NEW i \in DOMAIN n, n[i].role = "assistant"
       PROVE  /\ i < b => i + Len(n[i].calls) < b
              /\ \A k \in DOMAIN n[i].calls :
                   i + k <= Len(n) => n[i + k] = Answering(n[i].calls[k])
  <2>1. i \in 1 .. Len(m) /\ n[i] = m[i]
    BY <1>2, <1>3, <1>10
  <2>2. i = b \/ i < b
    BY <1>7, <1>9, <1>10, <2>1
  <2>3. CASE i = b
    <3>1. n[i].calls = calls
      BY <1>4, <1>5, <2>3
    <3>2. ASSUME NEW k \in 1 .. Len(calls), i + k <= Len(m) + 1
          PROVE  n[i + k] = Answering(calls[k])
      <4>1. CASE k = cursor + 1
        BY <4>1, <2>3, <1>3, <1>6 DEF answer
      <4>2. CASE k # cursor + 1
        <5>1. i + k \in 1 .. Len(m)
          BY <4>2, <3>2, <2>3, <1>1, <1>3, <1>6, <1>9
        <5>2. m[i + k] = Answering(calls[k])
          <6>1. m[i].role = "assistant" /\ m[i].calls = calls /\ i \in DOMAIN m
            BY <1>3, <1>10, <2>1, <3>1
          <6>2. k \in DOMAIN m[i].calls
            BY <1>1, <6>1
          <6>3. i + k <= Len(m)
            BY <5>1, <1>3
          <6> QED BY <6>1, <6>2, <6>3, <1>8
        <5> QED BY <5>1, <5>2, <1>3
      <4> QED BY <4>1, <4>2
    <3> QED BY <3>1, <3>2, <2>3, <1>1, <1>3, <1>9
  <2>4. CASE i < b
    <3>1. i + Len(m[i].calls) < b
      BY <1>8, <1>10, <2>1, <2>4, <1>3
    <3>2. Len(m[i].calls) \in Nat /\ DOMAIN m[i].calls = 1 .. Len(m[i].calls)
      BY <2>1, CallsOfMessages
    <3>3. ASSUME NEW k \in DOMAIN m[i].calls
          PROVE  n[i + k] = Answering(m[i].calls[k])
      <4>1. i + k \in 1 .. Len(m)
        BY <2>1, <3>1, <3>2, <1>3, <1>4, <1>9
      <4>2. m[i + k] = Answering(m[i].calls[k])
        BY <1>8, <1>10, <2>1, <4>1, <1>3
      <4> QED BY <4>1, <4>2, <1>3
    <3> QED BY <2>1, <3>1, <3>3
  <2> QED BY <2>2, <2>3, <2>4
<1>11. ASSUME NEW i \in DOMAIN n, n[i].role = "tool"
       PROVE  \E j \in 1 .. i : n[j].role = "assistant" /\ i - j \in DOMAIN n[j].calls
  <2>1. CASE i = Len(m) + 1
    <3>1. i - b = cursor + 1 /\ b \in 1 .. i
      BY <2>1, <1>3, <1>4, <1>6, <1>9
    <3>2. n[b].role = "assistant" /\ cursor + 1 \in DOMAIN n[b].calls
      BY <1>1, <1>4, <1>5
    <3> QED BY <3>1, <3>2
  <2>2. CASE i \in 1 .. Len(m)
    <3>1. m[i].role = "tool"
      BY <2>2, <1>3, <1>11
    <3>2. PICK j \in 1 .. i : m[j].role = "assistant" /\ i - j \in DOMAIN m[j].calls
      BY <2>2, <3>1, <1>3, <1>8
    <3>3. n[j] = m[j]
      BY <2>2, <3>2, <1>3
    <3> QED BY <3>2, <3>3
  <2> QED BY <2>1, <2>2, <1>3
<1>12. AnswersBefore(n, b)
  BY <1>10, <1>11 DEF AnswersBefore
<1>13. OpenBatch(n, b, calls)
  <2>1. b \in DOMAIN n
    BY <1>3, <1>4
  <2>2. ASSUME NEW i \in DOMAIN n, i > b PROVE n[i].role = "tool"
    BY <2>2, <1>2, <1>3, <1>7
  <2> QED BY <2>1, <2>2, <1>4 DEF OpenBatch
<1> QED BY <1>12, <1>13 DEF n, answer, b

\* With its last answer the open batch is complete.
LEMMA BatchCompletes ==
    ASSUME NEW m \in Seq(Message), NEW calls \in Batches \cup {<<>>},
           AnswersBefore(m, Len(m) - Len(calls)), OpenBatch(m, Len(m) - Len(calls), calls)
    PROVE  AnswersBefore(m, Len(m) + 1)
<1> DEFINE b == Len(m) - Len(calls)
<1>1. Len(calls) \in Nat /\ Len(m) \in Nat /\ DOMAIN m = 1 .. Len(m)
  BY BatchesAreSequences
<1>2. b \in Int /\ b <= Len(m) /\ b + Len(calls) = Len(m)
  BY <1>1
<1>3. m[b].calls = calls
  BY DEF OpenBatch, Asking
<1>4. \A i \in DOMAIN m : i > b => m[i].role = "tool"
  BY DEF OpenBatch
<1>5. /\ \A i \in DOMAIN m : m[i].role = "assistant" =>
           /\ i < b => i + Len(m[i].calls) < b
           /\ \A k \in DOMAIN m[i].calls :
                i + k <= Len(m) => m[i + k] = Answering(m[i].calls[k])
      /\ \A i \in DOMAIN m : m[i].role = "tool" =>
           \E j \in 1 .. i : m[j].role = "assistant" /\ i - j \in DOMAIN m[j].calls
  BY DEF AnswersBefore
<1> HIDE DEF b
<1>6. ASSUME NEW i \in DOMAIN m, m[i].role = "assistant"
      PROVE  i + Len(m[i].calls) < Len(m) + 1
  <2>1. i \in 1 .. Len(m) /\ Len(m[i].calls) \in Nat
    BY <1>1, CallsOfMessages
  <2>2. i = b \/ i < b
    BY <1>2, <1>4, <1>6, <2>1
  <2>3. CASE i = b
    BY <2>1, <2>3, <1>1, <1>2, <1>3
  <2>4. CASE i < b
    <3>1. i + Len(m[i].calls) < b
      BY <2>4, <1>5, <1>6
    <3> QED BY <3>1, <2>1, <1>1, <1>2
  <2> QED BY <2>2, <2>3, <2>4
<1> QED BY <1>5, <1>6 DEF AnswersBefore

-----------------------------------------------------------------------------
(***************************************************************************)
(* Rounds                                                                  *)
(***************************************************************************)

\* The rounds of a state are finitely many positions of its transcript.
LEMMA RoundsAreFinite ==
    ASSUME NEW st \in State
    PROVE  /\ Rounds(st) \subseteq 1 .. Len(st.messages)
           /\ IsFiniteSet(Rounds(st))
           /\ Cardinality(Rounds(st)) \in Nat
<1>1. Len(st.messages) \in Nat /\ DOMAIN st.messages = 1 .. Len(st.messages)
  BY DEF State
<1>2. Rounds(st) \subseteq 1 .. Len(st.messages)
  BY <1>1 DEF Rounds
<1>3. IsFiniteSet(1 .. Len(st.messages))
  BY <1>1, FS_Interval
<1>4. IsFiniteSet(Rounds(st))
  BY <1>2, <1>3, FS_Subset
<1> QED BY <1>2, <1>4, FS_CardinalityType

\* A request for a batch is one round more.
LEMMA RoundsOfBatch ==
    ASSUME NEW st \in State, NEW batch \in Batches
    PROVE  Cardinality(Rounds(WithBatch(st, batch))) = Cardinality(Rounds(st)) + 1
<1> DEFINE n == WithBatch(st, batch).messages
<1>1. /\ DOMAIN n = 1 .. Len(st.messages) + 1
      /\ \A i \in 1 .. Len(st.messages) : n[i] = st.messages[i]
      /\ n[Len(st.messages) + 1] = Asking(batch)
      /\ DOMAIN st.messages = 1 .. Len(st.messages) /\ Len(st.messages) \in Nat
  <2>1. st.messages \in Seq(Message) /\ n = Append(st.messages, Asking(batch))
    BY WithBatchFields DEF State
  <2> HIDE DEF n
  <2> QED BY <2>1, AppendedMessages, MessagesAreTyped
<1>2. n[Len(st.messages) + 1].role = "assistant"
  BY <1>1 DEF Asking
<1>3. Rounds(WithBatch(st, batch)) = {i \in DOMAIN n : n[i].role = "assistant"}
  BY DEF Rounds
<1> HIDE DEF n
<1>4. Rounds(WithBatch(st, batch)) = Rounds(st) \cup {Len(st.messages) + 1}
  BY <1>1, <1>2, <1>3 DEF Rounds
<1>5. Len(st.messages) + 1 \notin Rounds(st)
  BY <1>1, RoundsAreFinite
<1> QED BY <1>4, <1>5, RoundsAreFinite, FS_AddElement

\* An answer is none.
LEMMA RoundsOfAnswer ==
    ASSUME NEW st \in State, st.cursor < Len(st.calls)
    PROVE  Rounds(CallDone(st)) = Rounds(st)
<1> DEFINE n == CallDone(st).messages
<1>1. /\ DOMAIN n = 1 .. Len(st.messages) + 1
      /\ \A i \in 1 .. Len(st.messages) : n[i] = st.messages[i]
      /\ n[Len(st.messages) + 1] = Answering(Current(st))
      /\ DOMAIN st.messages = 1 .. Len(st.messages) /\ Len(st.messages) \in Nat
  <2>1. st.messages \in Seq(Message) /\ n = Append(st.messages, Answering(Current(st)))
    BY CallDoneFields DEF State
  <2>2. Answering(Current(st)) \in Message
    BY CurrentIsCall, MessagesAreTyped
  <2> HIDE DEF n
  <2> QED BY <2>1, <2>2, AppendedMessages
<1>2. n[Len(st.messages) + 1].role # "assistant"
  BY <1>1 DEF Answering
<1>3. Rounds(CallDone(st)) = {i \in DOMAIN n : n[i].role = "assistant"}
  BY DEF Rounds
<1> HIDE DEF n
<1> QED BY <1>1, <1>2, <1>3 DEF Rounds

-----------------------------------------------------------------------------
(***************************************************************************)
(* What a node makes of a legitimate state                                 *)
(***************************************************************************)

LEMMA LegitInitially ==
    ASSUME NEW agent \in Agents \cup {NoAgent}, NEW budget \in Nat, NEW appr
    PROVE  Legit("llm", InitialState(agent, budget), [agent |-> agent, budget |-> budget], appr)
<1> DEFINE x == InitialState(agent, budget)
<1>1. /\ x \in State /\ x.agent = agent /\ x.budget = budget /\ x.step = 0
      /\ x.messages = <<UserSays>> /\ x.calls = <<>> /\ x.cursor = 0
      /\ x.pending = NoApproval /\ x.answered = FALSE
  BY InitialStateFields
<1> HIDE DEF x
<1>2. DOMAIN x.messages = {1} /\ x.messages[1].role = "user"
  BY <1>1 DEF UserSays
<1>3. Rounds(x) = {}
  BY <1>2 DEF Rounds
<1>4. StepsInv("llm", x)
  BY <1>1, <1>3, FS_EmptySet DEF StepsInv, InBatch
<1>5. PendingInv("llm", x, appr)
  BY <1>1 DEF PendingInv
<1>6. TranscriptInv("llm", x)
  <2>1. AnswersBefore(x.messages, OpenAt("llm", x))
    BY <1>2 DEF AnswersBefore
  <2>2. x.cursor <= Len(x.calls)
    BY <1>1
  <2> QED BY <2>1, <2>2 DEF TranscriptInv, InBatch
<1>7. Legit("llm", x, [agent |-> agent, budget |-> budget], appr)
  BY <1>1, <1>4, <1>5, <1>6 DEF Legit
<1> QED BY <1>7 DEF x

\* Legitimate states stay so while Approvals keep their call and their draw.
LEMMA LegitStable ==
    ASSUME NEW next, NEW st, NEW org, NEW appr, NEW appr2,
           Legit(next, st, org, appr),
           st.pending # NoApproval /\ appr[st.pending].status # "FREE" =>
             /\ appr2[st.pending].call = appr[st.pending].call
             /\ appr2[st.pending].status # "FREE"
    PROVE  Legit(next, st, org, appr2)
<1>1. PendingInv(next, st, appr2)
  BY DEF Legit, PendingInv
<1> QED BY <1>1 DEF Legit

\* llm: the model answers.
LEMMA LegitAnswer ==
    ASSUME NEW st \in State, NEW org, NEW appr, Legit("llm", st, org, appr), st.step < st.budget
    PROVE  Legit("end", WithAnswer(st), org, appr)
<1> DEFINE x == WithAnswer(st)
<1>1. /\ x.agent = st.agent /\ x.budget = st.budget /\ x.step = st.step + 1
      /\ x.messages = st.messages /\ x.calls = st.calls /\ x.cursor = st.cursor
      /\ x.pending = st.pending /\ x.answered = TRUE
  BY WithAnswerFields
<1>2. Rounds(x) = Rounds(st)
  BY <1>1 DEF Rounds
<1> HIDE DEF x
<1>3. Cardinality(Rounds(st)) \in Nat /\ st.step \in Nat /\ st.budget \in Nat
  BY RoundsAreFinite DEF State
<1>4. StepsInv("end", x)
  BY <1>1, <1>2, <1>3 DEF Legit, StepsInv, InBatch
<1>5. PendingInv("end", x, appr)
  BY <1>1 DEF Legit, PendingInv, InBatch
<1>6. TranscriptInv("end", x)
  BY <1>1 DEF Legit, TranscriptInv, OpenAt, InBatch
<1>7. Legit("end", x, org, appr)
  BY <1>1, <1>4, <1>5, <1>6 DEF Legit
<1> QED BY <1>7 DEF x

\* llm: the model asks for a batch.
LEMMA LegitBatch ==
    ASSUME NEW st \in State, NEW org, NEW appr, Legit("llm", st, org, appr),
           st.step < st.budget, NEW batch \in Batches
    PROVE  Legit("tool", WithBatch(st, batch), org, appr)
<1> DEFINE x == WithBatch(st, batch)
<1>1. /\ x.agent = st.agent /\ x.budget = st.budget /\ x.step = st.step + 1
      /\ x.messages = Append(st.messages, Asking(batch)) /\ x.calls = batch /\ x.cursor = 0
      /\ x.pending = NoApproval /\ x.answered = st.answered
  BY WithBatchFields
<1>2. Cardinality(Rounds(x)) = Cardinality(Rounds(st)) + 1
  BY RoundsOfBatch
<1> HIDE DEF x
<1>3. Cardinality(Rounds(st)) \in Nat /\ st.step \in Nat /\ st.budget \in Nat
  BY RoundsAreFinite DEF State
<1>4. StepsInv("tool", x)
  BY <1>1, <1>2, <1>3 DEF Legit, StepsInv, InBatch
<1>5. PendingInv("tool", x, appr)
  BY <1>1 DEF PendingInv
<1>6. TranscriptInv("tool", x)
  <2>1. st.messages \in Seq(Message) /\ Asking(batch) \in Message
    BY MessagesAreTyped DEF State
  <2>2. AnswersBefore(st.messages, Len(st.messages) + 1)
    BY DEF Legit, TranscriptInv, OpenAt, InBatch
  <2>3. OpenAt("tool", x) = Len(st.messages) + 1
    BY <1>1, <2>1, AppendedMessages DEF OpenAt, InBatch
  <2>4. x.cursor <= Len(x.calls)
    BY <1>1, BatchesAreSequences
  <2> QED BY <1>1, <2>1, <2>2, <2>3, <2>4, BatchOpens DEF TranscriptInv
<1>7. Legit("tool", x, org, appr)
  BY <1>1, <1>4, <1>5, <1>6 DEF Legit
<1> QED BY <1>7 DEF x

\* tool: one call of the batch has its result.
LEMMA LegitCallDone ==
    ASSUME NEW st \in State, NEW org, NEW appr, Legit("tool", st, org, appr),
           st.cursor < Len(st.calls)
    PROVE  Legit("tool", CallDone(st), org, appr)
<1> DEFINE x == CallDone(st)
           c == Answering(Current(st))
<1>1. /\ x.agent = st.agent /\ x.budget = st.budget /\ x.step = st.step
      /\ x.messages = Append(st.messages, c) /\ x.calls = st.calls
      /\ x.cursor = st.cursor + 1 /\ x.pending = NoApproval /\ x.answered = st.answered
  BY CallDoneFields
<1>2. Rounds(x) = Rounds(st)
  BY RoundsOfAnswer
<1>3. c \in Message /\ c = Answering(st.calls[st.cursor + 1])
  BY CurrentIsCall, MessagesAreTyped DEF Current
<1> HIDE DEF x, c
<1>4. StepsInv("tool", x)
  BY <1>1, <1>2 DEF Legit, StepsInv
<1>5. PendingInv("tool", x, appr)
  BY <1>1 DEF PendingInv
<1>6. TranscriptInv("tool", x)
  <2>1. /\ st.messages \in Seq(Message) /\ st.calls \in Batches \cup {<<>>}
        /\ st.cursor \in Nat /\ Len(st.messages) \in Nat
    BY DEF State
  <2>2. /\ AnswersBefore(st.messages, Len(st.messages) - st.cursor)
        /\ OpenBatch(st.messages, Len(st.messages) - st.cursor, st.calls)
    BY <2>1 DEF Legit, TranscriptInv, OpenAt, InBatch
  <2>3. /\ AnswersBefore(x.messages, Len(st.messages) - st.cursor)
        /\ OpenBatch(x.messages, Len(st.messages) - st.cursor, st.calls)
    BY <1>1, <1>3, <2>1, <2>2, BatchAdvances
  <2>4. OpenAt("tool", x) = Len(st.messages) - st.cursor
    <3>1. Len(x.messages) = Len(st.messages) + 1
      BY <1>1, <1>3, <2>1, AppendedMessages
    <3> QED BY <1>1, <2>1, <3>1 DEF OpenAt, InBatch
  <2>5. x.cursor <= Len(x.calls)
    BY <1>1, <2>1, BatchesAreSequences
  <2> QED BY <1>1, <2>3, <2>4, <2>5 DEF TranscriptInv
<1>7. Legit("tool", x, org, appr)
  BY <1>1, <1>4, <1>5, <1>6 DEF Legit
<1> QED BY <1>7 DEF x

\* The transcript's part stands when only the Approval fields change.
LEMMA TranscriptKept ==
    ASSUME NEW st \in State, NEW x \in State, TranscriptInv("tool", st),
           x.messages = st.messages, x.calls = st.calls, x.cursor = st.cursor
    PROVE  TranscriptInv("approval_pause", x)
BY DEF TranscriptInv, OpenAt, InBatch

\* tool: an Approval is drawn for the call at the cursor.
LEMMA LegitPaused ==
    ASSUME NEW st \in State, NEW org, NEW appr, Legit("tool", st, org, appr),
           st.cursor < Len(st.calls), NEW p \in Approvals,
           appr[p].call = Current(st), appr[p].status # "FREE"
    PROVE  Legit("approval_pause", PausedFor(st, p), org, appr)
<1> DEFINE x == PausedFor(st, p)
<1>1. /\ x \in State /\ x.agent = st.agent /\ x.budget = st.budget /\ x.step = st.step
      /\ x.messages = st.messages /\ x.calls = st.calls /\ x.cursor = st.cursor
      /\ x.pending = p /\ x.answered = st.answered
  BY PausedForFields
<1>2. Rounds(x) = Rounds(st) /\ Current(x) = Current(st)
  BY <1>1 DEF Rounds, Current
<1> HIDE DEF x
<1>3. StepsInv("approval_pause", x)
  BY <1>1, <1>2 DEF Legit, StepsInv, InBatch
<1>4. PendingInv("approval_pause", x, appr)
  BY <1>1, <1>2, ConstantsAssumption DEF PendingInv, InBatch
<1>5. TranscriptInv("approval_pause", x)
  BY <1>1, TranscriptKept DEF Legit
<1>6. Legit("approval_pause", x, org, appr)
  BY <1>1, <1>3, <1>4, <1>5 DEF Legit
<1> QED BY <1>6 DEF x

\* tool: the batch is done.
LEMMA LegitBatchDone ==
    ASSUME NEW st \in State, NEW org, NEW appr, Legit("tool", st, org, appr),
           st.cursor = Len(st.calls)
    PROVE  Legit("llm", BatchDone(st), org, appr)
<1> DEFINE x == BatchDone(st)
<1>1. /\ x.agent = st.agent /\ x.budget = st.budget /\ x.step = st.step
      /\ x.messages = st.messages /\ x.calls = st.calls /\ x.cursor = st.cursor
      /\ x.pending = NoApproval /\ x.answered = st.answered
  BY BatchDoneFields
<1>2. Rounds(x) = Rounds(st)
  BY <1>1 DEF Rounds
<1> HIDE DEF x
<1>3. StepsInv("llm", x)
  BY <1>1, <1>2 DEF Legit, StepsInv, InBatch
<1>4. PendingInv("llm", x, appr)
  BY <1>1 DEF PendingInv
<1>5. TranscriptInv("llm", x)
  <2>1. /\ st.messages \in Seq(Message) /\ st.calls \in Batches \cup {<<>>}
        /\ st.cursor \in Nat /\ Len(st.messages) \in Nat
    BY DEF State
  <2>2. /\ AnswersBefore(st.messages, Len(st.messages) - Len(st.calls))
        /\ OpenBatch(st.messages, Len(st.messages) - Len(st.calls), st.calls)
    BY <2>1 DEF Legit, TranscriptInv, OpenAt, InBatch
  <2>3. AnswersBefore(x.messages, Len(x.messages) + 1)
    BY <1>1, <2>1, <2>2, BatchCompletes
  <2> QED BY <1>1, <2>1, <2>3 DEF TranscriptInv, OpenAt, InBatch
<1>6. Legit("llm", x, org, appr)
  BY <1>1, <1>3, <1>4, <1>5 DEF Legit
<1> QED BY <1>6 DEF x

\* approval_pause: the workflow was resumed for its Approval.
LEMMA LegitResumed ==
    ASSUME NEW st \in State, NEW org, NEW appr, Legit("approval_pause", st, org, appr)
    PROVE  Legit("tool", ResumedFor(st), org, appr)
<1> DEFINE x == ResumedFor(st)
<1>1. /\ x.agent = st.agent /\ x.budget = st.budget /\ x.step = st.step
      /\ x.messages = st.messages /\ x.calls = st.calls /\ x.cursor = st.cursor
      /\ x.pending = st.pending /\ x.answered = st.answered
  BY ResumedForFields
<1>2. Rounds(x) = Rounds(st) /\ Current(x) = Current(st)
  BY <1>1 DEF Rounds, Current
<1> HIDE DEF x
<1>3. StepsInv("tool", x)
  BY <1>1, <1>2 DEF Legit, StepsInv, InBatch
<1>4. PendingInv("tool", x, appr)
  BY <1>1, <1>2 DEF Legit, PendingInv, InBatch
<1>5. TranscriptInv("tool", x)
  BY <1>1 DEF Legit, TranscriptInv, OpenAt, InBatch
<1>6. Legit("tool", x, org, appr)
  BY <1>1, <1>3, <1>4, <1>5 DEF Legit
<1> QED BY <1>6 DEF x

-----------------------------------------------------------------------------
(***************************************************************************)
(* Steps                                                                   *)
(***************************************************************************)

\* What every step does to the Approvals: once drawn, an id keeps its call,
\* and once decided, all.
Keeps(appr, appr2) ==
    \A p \in Approvals :
        /\ appr[p].status # "FREE" => appr2[p].call = appr[p].call /\ appr2[p].status # "FREE"
        /\ appr[p].status = "APPROVED" => appr2[p] = appr[p]

\* A legitimate state of the checkpoint or of a thread stays so.
LEMMA LegitKept ==
    ASSUME NEW next, NEW st \in State, NEW org, NEW appr, NEW appr2,
           Legit(next, st, org, appr), Keeps(appr, appr2)
    PROVE  Legit(next, st, org, appr2)
<1>1. st.pending \in Approvals \cup {NoApproval}
  BY DEF State
<1>2. st.pending # NoApproval /\ appr[st.pending].status # "FREE" =>
         /\ appr2[st.pending].call = appr[st.pending].call
         /\ appr2[st.pending].status # "FREE"
  BY <1>1 DEF Keeps
<1> QED BY <1>2, LegitStable

LEMMA RunInvKept ==
    ASSUME NEW inv \in Invocation, NEW org, NEW appr, NEW appr2,
           RunInv(inv, org, appr), Keeps(appr, appr2)
    PROVE  RunInv(inv, org, appr2)
<1>1. inv.st \in State
  BY DEF Invocation
<1>2. inv.pc \in Node => Legit(inv.pc, inv.st, org, appr2)
  BY <1>1, LegitKept DEF RunInv
<1> QED BY <1>2 DEF RunInv

\* An idle thread is well-typed and harmless.
LEMMA IdleIsHarmless ==
    /\ NoState \in State
    /\ Idle \in Invocation
    /\ \A org, appr : RunInv(Idle, org, appr)
<1>1. NoState \in State
  BY InitialStateFields DEF NoState
<1>2. Idle \in Invocation
  BY <1>1 DEF Idle, Invocation
<1>3. Idle.pc = "idle"
  BY DEF Idle
<1> QED BY <1>1, <1>2, <1>3 DEF RunInv, Node

\* While a thread is in the graph there is a workflow, and it is legitimate.
LEMMA WorkflowHasBegun ==
    ASSUME IInv, NEW r \in Runs, run[r].pc # "idle"
    PROVE  /\ checkpoint.next # "none"
           /\ Legit(checkpoint.next, checkpoint.st, origin, approval)
BY DEF IInv, CheckpointInv

\* A step of one thread, or of none, once the workflow has begun.
LEMMA StepKeeps ==
    ASSUME IInv, checkpoint.next # "none",
           NEW r \in Runs, NEW x \in Invocation, RunInv(x, origin, approval'),
           run' = [run EXCEPT ![r] = x], origin' = origin,
           checkpoint' \in Checkpoint, checkpoint'.next # "none",
           Legit(checkpoint'.next, checkpoint'.st, origin, approval'),
           approval' \in [Approvals -> ApprovalRow], Keeps(approval, approval'),
           entered' \subseteq [call : Calls, appr : Approvals \cup {NoApproval}],
           ProtectedEntriesApproved', GrantsSurvivePauses'
    PROVE  IInv'
<1>1. TypeOK'
  BY DEF IInv, TypeOK
<1>2. CheckpointInv'
  BY DEF CheckpointInv
<1>3. ASSUME NEW q \in Runs PROVE RunInv(run'[q], origin', approval')
  <2>1. run'[q] = IF q = r THEN x ELSE run[q]
    BY DEF IInv, TypeOK
  <2>2. run[q] \in Invocation /\ RunInv(run[q], origin, approval)
    BY DEF IInv, TypeOK
  <2>3. RunInv(run[q], origin, approval')
    BY <2>2, RunInvKept
  <2> QED BY <2>1, <2>3
<1> QED BY <1>1, <1>2, <1>3 DEF IInv

\* The two histories of entered calls, when no Tool is entered.
LEMMA EntriesKept ==
    ASSUME IInv, entered' = entered, origin' = origin, Keeps(approval, approval')
    PROVE  ProtectedEntriesApproved' /\ GrantsSurvivePauses'
<1>1. ASSUME NEW e \in entered, e.call \in Protected
      PROVE  e.appr \in Approvals /\ approval'[e.appr] = [status |-> "APPROVED", call |-> e.call]
  <2>1. e.appr \in Approvals /\ approval[e.appr] = [status |-> "APPROVED", call |-> e.call]
    BY <1>1 DEF IInv, ProtectedEntriesApproved, Authorized
  <2> QED BY <2>1 DEF Keeps
<1>2. ProtectedEntriesApproved'
  BY <1>1 DEF ProtectedEntriesApproved, Authorized
<1>3. GrantsSurvivePauses'
  BY DEF IInv, GrantsSurvivePauses
<1> QED BY <1>2, <1>3

\* Nothing begun: all is legitimate.
LEMMA InitEstablishes == Init => IInv
<1> SUFFICES ASSUME Init PROVE IInv
  OBVIOUS
<1>1. TypeOK
  <2>1. checkpoint \in Checkpoint
    BY IdleIsHarmless DEF Init, Checkpoint
  <2>2. run \in [Runs -> Invocation]
    BY IdleIsHarmless DEF Init
  <2>3. approval \in [Approvals -> ApprovalRow]
    BY DEF Init, ApprovalRow
  <2> QED BY <2>1, <2>2, <2>3 DEF Init, TypeOK
<1>2. \A r \in Runs : run[r] = Idle /\ run[r].pc = "idle"
  BY DEF Init, Idle
<1>3. CheckpointInv
  BY <1>2 DEF Init, CheckpointInv
<1>4. \A r \in Runs : RunInv(run[r], origin, approval)
  BY <1>2, IdleIsHarmless
<1>5. ProtectedEntriesApproved /\ GrantsSurvivePauses
  BY DEF Init, ProtectedEntriesApproved, GrantsSurvivePauses
<1> QED BY <1>1, <1>3, <1>4, <1>5 DEF IInv

\* A step that neither enters a Tool nor writes a checkpoint.
LEMMA LocalStep ==
    ASSUME IInv, NEW r \in Runs, checkpoint.next # "none",
           NEW x \in Invocation, RunInv(x, origin, approval'),
           run' = [run EXCEPT ![r] = x],
           UNCHANGED <<checkpoint, origin, entered>>,
           approval' \in [Approvals -> ApprovalRow], Keeps(approval, approval')
    PROVE  IInv'
<1>1. checkpoint \in Checkpoint /\ checkpoint.st \in State
  BY DEF IInv, TypeOK, Checkpoint
<1>2. Legit(checkpoint.next, checkpoint.st, origin, approval)
  BY DEF IInv, CheckpointInv
<1>3. Legit(checkpoint'.next, checkpoint'.st, origin, approval')
  BY <1>1, <1>2, LegitKept
<1>4. ProtectedEntriesApproved' /\ GrantsSurvivePauses'
  BY EntriesKept
<1>5. entered' \subseteq [call : Calls, appr : Approvals \cup {NoApproval}]
  BY DEF IInv, TypeOK
<1> QED BY <1>1, <1>3, <1>4, <1>5, StepKeeps

\* The Approvals as they are.
LEMMA ApprovalsAlone ==
    ASSUME IInv, approval' = approval
    PROVE  approval' \in [Approvals -> ApprovalRow] /\ Keeps(approval, approval')
BY DEF IInv, TypeOK, Keeps

LEMMA RaiseKeeps == ASSUME IInv, NEW r \in Runs, Raise(r) PROVE IInv'
<1>1. checkpoint.next # "none"
  BY WorkflowHasBegun DEF Raise
<1>2. run' = [run EXCEPT ![r] = Idle] /\ UNCHANGED <<checkpoint, approval, origin, entered>>
  BY DEF Raise, End
<1>3. Idle \in Invocation /\ RunInv(Idle, origin, approval')
  BY IdleIsHarmless
<1> QED BY <1>1, <1>2, <1>3, ApprovalsAlone, LocalStep

LEMMA PauseKeeps == ASSUME IInv, NEW r \in Runs, Pause(r) PROVE IInv'
<1> DEFINE p == run[r].st.pending
<1>1. checkpoint.next # "none"
  BY WorkflowHasBegun DEF Pause
<1>2. run' = [run EXCEPT ![r] = Idle] /\ UNCHANGED <<checkpoint, origin, entered>>
  BY DEF Pause, End
<1>3. Idle \in Invocation /\ RunInv(Idle, origin, approval')
  BY IdleIsHarmless
<1>4. /\ approval' = [approval EXCEPT ![p].status = "PENDING"]
      /\ approval[p].status = "DRAFT"
  BY DEF Pause
<1> HIDE DEF p
<1>5. approval \in [Approvals -> ApprovalRow]
  BY DEF IInv, TypeOK
<1>6. approval' \in [Approvals -> ApprovalRow]
  BY <1>4, <1>5 DEF ApprovalRow
<1>7. ASSUME NEW q \in Approvals
      PROVE  /\ approval'[q].call = approval[q].call
             /\ q # p => approval'[q] = approval[q]
             /\ q = p => approval'[q].status = "PENDING"
  BY <1>4, <1>5 DEF ApprovalRow
<1>8. Keeps(approval, approval')
  BY <1>4, <1>7 DEF Keeps
<1> QED BY <1>1, <1>2, <1>3, <1>6, <1>8, LocalStep

\* The decision of a human.
LEMMA DecideKeeps == ASSUME IInv, NEW p \in Approvals, Decide(p) PROVE IInv'
<1>1. UNCHANGED <<checkpoint, run, origin, entered>> /\ approval[p].status = "PENDING"
  BY DEF Decide
<1>2. PICK status \in {"APPROVED", "REJECTED"} :
         approval' = [approval EXCEPT ![p].status = status]
  BY DEF Decide
<1>3. approval \in [Approvals -> ApprovalRow]
  BY DEF IInv, TypeOK
<1>4. approval' \in [Approvals -> ApprovalRow]
  BY <1>2, <1>3 DEF ApprovalRow
<1>5. ASSUME NEW q \in Approvals
      PROVE  /\ approval'[q].call = approval[q].call
             /\ q # p => approval'[q] = approval[q]
             /\ q = p => approval'[q].status = status
  BY <1>2, <1>3 DEF ApprovalRow
<1>6. Keeps(approval, approval')
  BY <1>1, <1>5 DEF Keeps
<1>7. TypeOK'
  BY <1>1, <1>4 DEF IInv, TypeOK
<1>8. CheckpointInv'
  <2>1. CASE checkpoint.next = "none"
    BY <2>1, <1>1 DEF IInv, CheckpointInv
  <2>2. CASE checkpoint.next # "none"
    <3>1. checkpoint.st \in State
      BY DEF IInv, TypeOK, Checkpoint
    <3>2. Legit(checkpoint.next, checkpoint.st, origin, approval)
      BY <2>2 DEF IInv, CheckpointInv
    <3>3. Legit(checkpoint.next, checkpoint.st, origin, approval')
      BY <3>1, <3>2, <1>6, LegitKept
    <3> QED BY <3>3, <2>2, <1>1 DEF CheckpointInv
  <2> QED BY <2>1, <2>2
<1>9. ASSUME NEW q \in Runs PROVE RunInv(run'[q], origin', approval')
  <2>1. run[q] \in Invocation /\ RunInv(run[q], origin, approval)
    BY DEF IInv, TypeOK
  <2>2. RunInv(run[q], origin, approval')
    BY <2>1, <1>6, RunInvKept
  <2> QED BY <2>2, <1>1
<1>10. ProtectedEntriesApproved' /\ GrantsSurvivePauses'
  BY <1>1, <1>6, EntriesKept
<1> QED BY <1>7, <1>8, <1>9, <1>10 DEF IInv

\* A first invocation.
LEMMA RunKeeps == ASSUME IInv, NEW r \in Runs, Run(r) PROVE IInv'
<1>1. PICK budget \in Budgets, agent \in Agents \cup {NoAgent} :
         /\ run' = [run EXCEPT ![r] = Begun(budget, agent)]
         /\ checkpoint' = [next |-> "llm", st |-> InitialState(agent, budget)]
         /\ origin' = [agent |-> agent, budget |-> budget]
  BY DEF Run
<1>2. UNCHANGED <<approval, entered>> /\ checkpoint.next = "none"
  BY DEF Run
<1>3. entered = {} /\ \A q \in Runs : run[q].pc = "idle"
  BY <1>2 DEF IInv, CheckpointInv
<1> DEFINE s == InitialState(agent, budget)
           x == Begun(budget, agent)
<1>4. budget \in Nat
  BY ConstantsAssumption
<1>5. /\ s \in State /\ s.step = 0 /\ s.budget = budget
  BY <1>4, InitialStateFields
<1>6. Legit("llm", s, origin', approval')
  BY <1>1, <1>4, LegitInitially
<1>7. /\ x.pc = "llm" /\ x.st = s /\ x.fuel = 2 * budget + 3 /\ x.scope = agent
      /\ x.resume = NoApproval /\ x.own = budget
  BY <1>4 DEF Begun, Supersteps
<1>8. x \in Invocation
  <2>1. x = [pc |-> "llm", own |-> budget, scope |-> agent, resume |-> NoApproval,
             fuel |-> Supersteps(2 * budget + 4), st |-> s]
    BY DEF Begun
  <2>2. Supersteps(2 * budget + 4) \in Int
    BY <1>4 DEF Supersteps
  <2> QED BY <2>1, <2>2, <1>4, <1>5 DEF Invocation, Node
<1> HIDE DEF s, x
<1>9. RunInv(x, origin', approval')
  <2>1. x.fuel >= Needed(x)
    BY <1>4, <1>5, <1>7 DEF Needed
  <2> QED BY <2>1, <1>1, <1>6, <1>7 DEF RunInv, Node
<1>10. TypeOK'
  <2>1. checkpoint' \in Checkpoint
    BY <1>1, <1>5 DEF Checkpoint, Node, s
  <2>2. origin' \in [agent : Agents \cup {NoAgent}, budget : Nat]
    BY <1>1, <1>4
  <2>3. run' \in [Runs -> Invocation]
    BY <1>1, <1>8 DEF x, IInv, TypeOK
  <2> QED BY <2>1, <2>2, <2>3, <1>2 DEF IInv, TypeOK
<1>11. CheckpointInv'
  BY <1>1, <1>6 DEF CheckpointInv, s
<1>12. ASSUME NEW q \in Runs PROVE RunInv(run'[q], origin', approval')
  <2>1. CASE q = r
    <3>1. run'[q] = x
      BY <2>1, <1>1 DEF x, IInv, TypeOK
    <3> QED BY <3>1, <1>9
  <2>2. CASE q # r
    <3>1. run'[q].pc = "idle"
      BY <2>2, <1>1, <1>3 DEF IInv, TypeOK
    <3> QED BY <3>1 DEF RunInv, Node
  <2> QED BY <2>1, <2>2
<1>13. ProtectedEntriesApproved' /\ GrantsSurvivePauses'
  BY <1>2, <1>3 DEF ProtectedEntriesApproved, GrantsSurvivePauses
<1> QED BY <1>10, <1>11, <1>12, <1>13 DEF IInv

\* A continuation starts: from a legitimate snapshot, with the workflow's own
\* limit and the workflow's own Agent.
LEMMA ContinueKeeps ==
    ASSUME IInv, NEW r \in Runs, NEW p \in Approvals, NEW resume \in Approvals \cup {NoApproval},
           checkpoint.next # "none", Continue(r, p, resume)
    PROVE  IInv'
<1> DEFINE st == checkpoint.st
<1>1. PICK own \in Budgets, ambient \in Agents \cup {NoAgent} :
         run' = [run EXCEPT ![r] = Continuing(st, own, Restored(st.agent, ambient), resume)]
  BY DEF Continue
<1>2. UNCHANGED <<checkpoint, approval, origin, entered>>
  BY DEF Continue
<1>3. st \in State /\ st.agent = origin.agent /\ st.budget = origin.budget
  BY DEF IInv, TypeOK, Checkpoint, CheckpointInv, Legit
<1> DEFINE scope == Restored(st.agent, ambient)
           x == Continuing(st, own, scope, resume)
<1>4. /\ scope \in Agents \cup {NoAgent}
      /\ origin.agent # NoAgent => scope = origin.agent
  BY <1>3 DEF Restored, State
<1> HIDE DEF scope
<1>5. st.budget \in Nat /\ own \in Nat
  BY <1>3, ConstantsAssumption DEF State
<1>6. Supersteps(ResumeLimit(st, own)) = 2 * origin.budget + 3
  BY <1>3, <1>5 DEF Supersteps, ResumeLimit
<1>7. x = [pc |-> "entering", own |-> own, scope |-> scope, resume |-> resume,
           fuel |-> 2 * origin.budget + 3, st |-> NoState]
  BY <1>6 DEF Continuing
<1> HIDE DEF x, st
<1>8. x \in Invocation
  BY <1>3, <1>4, <1>5, <1>7, IdleIsHarmless DEF Invocation
<1>9. RunInv(x, origin, approval')
  BY <1>4, <1>7 DEF RunInv, Node
<1>10. run' = [run EXCEPT ![r] = x]
  BY <1>1 DEF x, scope
<1> QED BY <1>2, <1>8, <1>9, <1>10, ApprovalsAlone, LocalStep

LEMMA ResumeKeeps == ASSUME IInv, NEW r \in Runs, NEW p \in Approvals, Resume(r, p) PROVE IInv'
BY ContinueKeeps DEF Resume

LEMMA ResumePendingToolKeeps ==
    ASSUME IInv, NEW r \in Runs, NEW p \in Approvals, ResumePendingTool(r, p) PROVE IInv'
BY ContinueKeeps DEF ResumePendingTool

\* The graph goes on from the latest checkpoint, whatever snapshot was compared.
LEMMA EnterKeeps == ASSUME IInv, NEW r \in Runs, Enter(r) PROVE IInv'
<1>1. /\ run[r].pc = "entering" /\ checkpoint.next # "none"
      /\ Legit(checkpoint.next, checkpoint.st, origin, approval)
      /\ UNCHANGED <<checkpoint, approval, origin, entered>>
  BY WorkflowHasBegun DEF Enter
<1>2. CASE checkpoint.next = "end"
  <2>1. run' = [run EXCEPT ![r] = Idle]
    BY <1>2 DEF Enter, End
  <2>2. Idle \in Invocation /\ RunInv(Idle, origin, approval')
    BY IdleIsHarmless
  <2> QED BY <1>1, <2>1, <2>2, ApprovalsAlone, LocalStep
<1>3. CASE checkpoint.next # "end"
  <2> DEFINE inv == run[r]
             x == Entered(inv, checkpoint)
  <2>1. /\ inv \in Invocation /\ RunInv(inv, origin, approval)
        /\ checkpoint.next \in Node /\ checkpoint.st \in State
    BY <1>1, <1>3 DEF IInv, TypeOK, Checkpoint
  <2>2. run' = [run EXCEPT ![r] = x]
    BY <1>3 DEF Enter, Entered, IInv, TypeOK
  <2>3. /\ x \in Invocation
        /\ x.pc = checkpoint.next /\ x.st = checkpoint.st /\ x.fuel = inv.fuel
        /\ x.scope = inv.scope /\ x.resume = inv.resume
    BY <2>1 DEF Entered, Invocation
  <2>4. /\ inv.fuel = 2 * origin.budget + 3
        /\ origin.agent # NoAgent => inv.scope = origin.agent
    BY <1>1, <2>1 DEF RunInv
  <2> HIDE DEF x, inv
  <2>5. /\ x.st.budget = origin.budget /\ x.st.step \in Nat /\ x.st.budget \in Nat
        /\ InBatch(x.pc) => x.st.step >= 1
    BY <1>1, <2>1, <2>3 DEF Legit, StepsInv, State
  <2>6. x.fuel >= Needed(x)
    BY <2>1, <2>3, <2>4, <2>5 DEF Needed, InBatch, Node
  <2>7. RunInv(x, origin, approval')
    BY <1>1, <2>3, <2>4, <2>6, <2>1 DEF RunInv, Node
  <2> QED BY <1>1, <2>2, <2>3, <2>7, ApprovalsAlone, LocalStep
<1> QED BY <1>2, <1>3

\* A node returns a legitimate state, with enough supersteps left.
LEMMA ReturnKeeps ==
    ASSUME IInv, NEW r \in Runs, run[r].pc \in Node,
           NEW next \in Node \cup {"end"}, NEW st \in State, Return(r, next, st),
           Legit(next, st, origin, approval'),
           approval' \in [Approvals -> ApprovalRow], Keeps(approval, approval'),
           \A inv : next # "end" /\ inv.pc = next /\ inv.st = st /\ inv.resume = NoApproval =>
                      run[r].fuel - 1 >= Needed(inv)
    PROVE  IInv'
<1>1. checkpoint.next # "none"
  BY WorkflowHasBegun DEF Node
<1>2. /\ checkpoint' = [next |-> next, st |-> st]
      /\ UNCHANGED <<origin, entered>>
  BY DEF Return
<1>3. checkpoint' \in Checkpoint /\ checkpoint'.next # "none"
  BY <1>2 DEF Checkpoint, Node
<1>4. ProtectedEntriesApproved' /\ GrantsSurvivePauses'
  BY <1>2, EntriesKept
<1>5. entered' \subseteq [call : Calls, appr : Approvals \cup {NoApproval}]
  BY <1>2 DEF IInv, TypeOK
<1>6. PICK x \in Invocation : RunInv(x, origin, approval') /\ run' = [run EXCEPT ![r] = x]
  <2>1. CASE next = "end"
    <3>1. run' = [run EXCEPT ![r] = Idle]
      BY <2>1 DEF Return
    <3> QED BY <3>1, IdleIsHarmless
  <2>2. CASE next # "end"
    <3> DEFINE inv == run[r]
               x == Moved(inv, next, st)
    <3>1. inv \in Invocation /\ RunInv(inv, origin, approval)
      BY DEF IInv, TypeOK
    <3>2. run' = [run EXCEPT ![r] = x]
      BY <2>2 DEF Return, IInv, TypeOK
    <3>3. inv.fuel \in Int /\ inv.fuel - 1 \in Int
      BY <3>1 DEF Invocation
    <3>4. /\ x.pc = next /\ x.st = st /\ x.fuel = inv.fuel - 1
          /\ x.scope = inv.scope /\ x.resume = NoApproval
      BY <3>1 DEF Moved, Invocation
    <3>5. x \in Invocation
      BY <2>2, <3>1, <3>3 DEF Moved, Invocation
    <3>6. inv.fuel - 1 >= Needed(x)
      BY <2>2, <3>4
    <3> HIDE DEF x
    <3>7. origin.agent # NoAgent => inv.scope = origin.agent
      BY <3>1 DEF RunInv
    <3> HIDE DEF inv
    <3>8. RunInv(x, origin, approval')
      BY <2>2, <3>4, <3>6, <3>7 DEF RunInv, Node
    <3> QED BY <3>2, <3>5, <3>8
  <2> QED BY <2>1, <2>2
<1> QED BY <1>1, <1>2, <1>3, <1>4, <1>5, <1>6, StepKeeps

\* What is known of a thread at a node.
LEMMA AtNodeFacts ==
    ASSUME IInv, NEW r \in Runs, NEW node \in Node, AtNode(r, node)
    PROVE  /\ run[r] \in Invocation /\ run[r].pc = node /\ run[r].pc \in Node
           /\ run[r].st \in State
           /\ Legit(node, run[r].st, origin, approval)
           /\ run[r].fuel \in Int /\ run[r].fuel >= Needed(run[r])
           /\ run[r].st.step \in Nat /\ run[r].st.budget \in Nat
           /\ run[r].st.step <= run[r].st.budget
<1>1. run[r] \in Invocation /\ run[r].pc = node
  BY DEF AtNode, IInv, TypeOK
<1>2. run[r].st \in State /\ run[r].fuel \in Int
  BY <1>1 DEF Invocation
<1>3. Legit(node, run[r].st, origin, approval) /\ run[r].fuel >= Needed(run[r])
  BY <1>1 DEF IInv, RunInv
<1>4. run[r].st.step \in Nat /\ run[r].st.budget \in Nat /\ run[r].st.step <= run[r].st.budget
  BY <1>2, <1>3 DEF State, Legit, StepsInv
<1> QED BY <1>1, <1>2, <1>3, <1>4

LEMMA LlmNodeKeeps == ASSUME IInv, NEW r \in Runs, LlmNode(r) PROVE IInv'
<1> DEFINE st == run[r].st
           fuel == run[r].fuel
<1>1. AtNode(r, "llm") /\ st.step < st.budget /\ approval' = approval
  BY DEF LlmNode, Budget
<1>2. /\ run[r].pc \in Node /\ st \in State /\ Legit("llm", st, origin, approval)
      /\ fuel \in Int /\ fuel >= 2 * (st.budget - st.step) + 1
      /\ st.step \in Nat /\ st.budget \in Nat
  <2>1. "llm" \in Node
    BY DEF Node
  <2>2. run[r].pc = "llm" /\ fuel >= Needed(run[r])
    BY <1>1, <2>1, AtNodeFacts
  <2>3. fuel >= 2 * (st.budget - st.step) + 1
    BY <2>2 DEF Needed
  <2> QED BY <1>1, <2>1, <2>3, AtNodeFacts
<1>3. approval' \in [Approvals -> ApprovalRow] /\ Keeps(approval, approval')
  BY <1>1, ApprovalsAlone
<1>4. CASE Return(r, "end", WithAnswer(st))
  <2>1. WithAnswer(st) \in State /\ Legit("end", WithAnswer(st), origin, approval')
    BY <1>1, <1>2, WithAnswerFields, LegitAnswer
  <2>2. "end" \in Node \cup {"end"}
    OBVIOUS
  <2> QED BY <1>2, <1>3, <1>4, <2>1, <2>2, ReturnKeeps
<1>5. ASSUME NEW batch \in Batches, Return(r, "tool", WithBatch(st, batch))
      PROVE  IInv'
  <2> DEFINE x == WithBatch(st, batch)
  <2>1. x \in State /\ x.step = st.step + 1 /\ x.budget = st.budget
    BY <1>2, WithBatchFields
  <2>2. Legit("tool", x, origin, approval')
    BY <1>1, <1>2, LegitBatch
  <2>3. Return(r, "tool", x)
    BY <1>5
  <2> HIDE DEF x, st, fuel
  <2>4. ASSUME NEW inv, inv.pc = "tool", inv.st = x
        PROVE  fuel - 1 >= Needed(inv)
    BY <1>2, <2>1, <2>4 DEF Needed
  <2>5. "tool" \in Node \cup {"end"}
    BY DEF Node
  <2> QED BY <1>2, <1>3, <2>1, <2>2, <2>3, <2>4, <2>5, ReturnKeeps DEF fuel
<1> QED BY <1>4, <1>5 DEF LlmNode

\* The tool node returns with no call left.
LEMMA ToolsDoneKeeps == ASSUME IInv, NEW r \in Runs, ToolsDone(r) PROVE IInv'
<1> DEFINE st == run[r].st
           fuel == run[r].fuel
           x == BatchDone(st)
<1>1. /\ AtNode(r, "tool") /\ st.cursor = Len(st.calls) /\ approval' = approval
      /\ Return(r, "llm", x)
  BY DEF ToolsDone
<1>2. /\ run[r].pc \in Node /\ st \in State /\ Legit("tool", st, origin, approval)
      /\ fuel \in Int /\ fuel >= 2 * (st.budget - st.step) + 2
      /\ st.step \in Nat /\ st.budget \in Nat
  <2>1. "tool" \in Node
    BY DEF Node
  <2>2. run[r].pc = "tool" /\ fuel >= Needed(run[r])
    BY <1>1, <2>1, AtNodeFacts
  <2>3. fuel >= 2 * (st.budget - st.step) + 2
    BY <2>2 DEF Needed
  <2> QED BY <1>1, <2>1, <2>3, AtNodeFacts
<1>3. approval' \in [Approvals -> ApprovalRow] /\ Keeps(approval, approval')
  BY <1>1, ApprovalsAlone
<1>4. x \in State /\ x.step = st.step /\ x.budget = st.budget
  BY <1>2, BatchDoneFields
<1>5. Legit("llm", x, origin, approval')
  BY <1>1, <1>2, LegitBatchDone
<1> HIDE DEF x, st, fuel
<1>6. ASSUME NEW inv, inv.pc = "llm", inv.st = x
      PROVE  fuel - 1 >= Needed(inv)
  BY <1>2, <1>4, <1>6 DEF Needed
<1>7. "llm" \in Node \cup {"end"}
  BY DEF Node
<1> QED BY <1>1, <1>2, <1>3, <1>4, <1>5, <1>6, <1>7, ReturnKeeps DEF fuel

LEMMA PauseNodeKeeps == ASSUME IInv, NEW r \in Runs, PauseNode(r) PROVE IInv'
<1> DEFINE st == run[r].st
           fuel == run[r].fuel
           x == ResumedFor(st)
<1>1. /\ AtNode(r, "approval_pause") /\ run[r].resume = st.pending /\ approval' = approval
      /\ Return(r, "tool", x)
  BY DEF PauseNode
<1>2. /\ run[r].pc \in Node /\ st \in State /\ Legit("approval_pause", st, origin, approval)
      /\ fuel \in Int /\ fuel >= 2 * (st.budget - st.step) + 3
      /\ st.step \in Nat /\ st.budget \in Nat
  <2>1. "approval_pause" \in Node
    BY DEF Node
  <2>2. /\ run[r].pc = "approval_pause" /\ fuel >= Needed(run[r])
        /\ Legit("approval_pause", st, origin, approval)
    BY <1>1, <2>1, AtNodeFacts
  <2>3. run[r].resume # NoApproval
    BY <1>1, <2>2 DEF Legit, PendingInv
  <2>4. fuel >= 2 * (st.budget - st.step) + 3
    BY <2>2, <2>3 DEF Needed
  <2> QED BY <1>1, <2>1, <2>4, AtNodeFacts
<1>3. approval' \in [Approvals -> ApprovalRow] /\ Keeps(approval, approval')
  BY <1>1, ApprovalsAlone
<1>4. x \in State /\ x.step = st.step /\ x.budget = st.budget
  BY <1>2, ResumedForFields
<1>5. Legit("tool", x, origin, approval')
  BY <1>1, <1>2, LegitResumed
<1> HIDE DEF x, st, fuel
<1>6. ASSUME NEW inv, inv.pc = "tool", inv.st = x
      PROVE  fuel - 1 >= Needed(inv)
  BY <1>2, <1>4, <1>6 DEF Needed
<1>7. "tool" \in Node \cup {"end"}
  BY DEF Node
<1> QED BY <1>1, <1>2, <1>3, <1>4, <1>5, <1>6, <1>7, ReturnKeeps DEF fuel

LEMMA InterruptKeeps == ASSUME IInv, NEW r \in Runs, Interrupt(r) PROVE IInv'
<1> DEFINE inv == run[r]
           x == [inv EXCEPT !.pc = "paused"]
<1>1. checkpoint.next # "none"
  BY WorkflowHasBegun DEF Interrupt, AtNode
<1>2. UNCHANGED <<checkpoint, approval, origin, entered>>
  BY DEF Interrupt
<1>3. inv \in Invocation
  BY DEF IInv, TypeOK
<1>4. run' = [run EXCEPT ![r] = x]
  BY DEF Interrupt, IInv, TypeOK
<1>5. x \in Invocation /\ x.pc = "paused"
  BY <1>3 DEF Invocation
<1> HIDE DEF x
<1>6. RunInv(x, origin, approval')
  BY <1>5 DEF RunInv, Node
<1> QED BY <1>1, <1>2, <1>4, <1>5, <1>6, ApprovalsAlone, LocalStep

\* An Approval is drawn and the workflow pauses for it.
LEMMA AskKeeps == ASSUME IInv, NEW r \in Runs, Ask(r) PROVE IInv'
<1> DEFINE st == run[r].st
           fuel == run[r].fuel
<1>1. AtNode(r, "tool") /\ st.cursor < Len(st.calls)
  BY DEF Ask, ToolCallsLeft
<1>2. PICK p \in Approvals :
         /\ approval[p].status = "FREE"
         /\ approval' = [approval EXCEPT ![p] = [status |-> "DRAFT", call |-> Current(st)]]
         /\ Return(r, "approval_pause", PausedFor(st, p))
  BY DEF Ask
<1>3. /\ run[r].pc \in Node /\ st \in State /\ Legit("tool", st, origin, approval)
      /\ fuel \in Int /\ fuel >= 2 * (st.budget - st.step) + 2
      /\ st.step \in Nat /\ st.budget \in Nat /\ st.step <= st.budget
  <2>1. "tool" \in Node
    BY DEF Node
  <2>2. run[r].pc = "tool" /\ fuel >= Needed(run[r])
    BY <1>1, <2>1, AtNodeFacts
  <2>3. fuel >= 2 * (st.budget - st.step) + 2
    BY <2>2 DEF Needed
  <2> QED BY <1>1, <2>1, <2>3, AtNodeFacts
<1> DEFINE x == PausedFor(st, p)
<1>4. Return(r, "approval_pause", x)
  BY <1>2
<1>5. x \in State
  BY <1>3, PausedForFields
<1>6. Current(st) \in Calls
  BY <1>1, <1>3, CurrentIsCall
<1>7. approval \in [Approvals -> ApprovalRow]
  BY DEF IInv, TypeOK
<1>8. [status |-> "DRAFT", call |-> Current(st)] \in ApprovalRow
  BY <1>6 DEF ApprovalRow
<1>9. /\ approval' \in [Approvals -> ApprovalRow]
      /\ approval'[p].call = Current(st) /\ approval'[p].status = "DRAFT"
      /\ \A q \in Approvals : q # p => approval'[q] = approval[q]
  BY <1>2, <1>7, <1>8
<1>10. Keeps(approval, approval')
  BY <1>2, <1>9 DEF Keeps
<1>11. Legit("tool", st, origin, approval')
  BY <1>3, <1>10, LegitKept
<1>12. Legit("approval_pause", x, origin, approval')
  BY <1>1, <1>3, <1>9, <1>11, LegitPaused
<1> HIDE DEF x, st, fuel
<1>13. ASSUME NEW inv, inv.pc = "approval_pause", inv.resume = NoApproval
       PROVE  fuel - 1 >= Needed(inv)
  BY <1>3, <1>13 DEF Needed
<1>14. "approval_pause" \in Node \cup {"end"}
  BY DEF Node
<1> QED BY <1>3, <1>4, <1>5, <1>9, <1>10, <1>12, <1>13, <1>14, ReturnKeeps DEF fuel

\* A Tool is entered, under p or, if the call is not protected, without.
LEMMA EnterToolKeeps ==
    ASSUME IInv, NEW r \in Runs, ToolCallsLeft(r), NEW p \in Approvals \cup {NoApproval},
           EnterTool(r, p),
           Current(run[r].st) \in Protected =>
             p \in Approvals /\ Authorized(p, Current(run[r].st))
    PROVE  IInv'
<1> DEFINE inv == run[r]
           st == inv.st
           x == [inv EXCEPT !.st = CallDone(st)]
           e == [call |-> Current(st), appr |-> p]
<1>1. AtNode(r, "tool") /\ st.cursor < Len(st.calls)
  BY DEF ToolCallsLeft
<1>2. /\ UNCHANGED <<checkpoint, approval, origin>> /\ Permitted(inv.scope, Current(st))
      /\ entered' = entered \cup {e}
  BY DEF EnterTool
<1>3. run' = [run EXCEPT ![r] = x]
  BY DEF EnterTool, IInv, TypeOK
<1>4. /\ inv \in Invocation /\ inv.pc = "tool" /\ st \in State
      /\ Legit("tool", st, origin, approval) /\ inv.fuel >= Needed(inv)
  <2>1. "tool" \in Node
    BY DEF Node
  <2> QED BY <1>1, <2>1, AtNodeFacts
<1>5. origin.agent # NoAgent => inv.scope = origin.agent
  <2>1. RunInv(inv, origin, approval)
    BY DEF IInv
  <2> QED BY <2>1, <1>4 DEF RunInv, Node
<1>6. Current(st) \in Calls
  BY <1>1, <1>4, CurrentIsCall
<1>7. /\ CallDone(st) \in State /\ CallDone(st).step = st.step
      /\ CallDone(st).budget = st.budget
  BY <1>1, <1>4, CallDoneFields
<1>8. Legit("tool", CallDone(st), origin, approval')
  BY <1>1, <1>2, <1>4, LegitCallDone
<1>9. /\ x \in Invocation /\ x.pc = "tool" /\ x.st = CallDone(st)
      /\ x.fuel = inv.fuel /\ x.scope = inv.scope
  BY <1>4, <1>7 DEF Invocation
<1> HIDE DEF x
<1>10. Needed(x) = Needed(inv)
  BY <1>4, <1>7, <1>9 DEF Needed
<1>11. RunInv(x, origin, approval')
  BY <1>4, <1>5, <1>8, <1>9, <1>10 DEF RunInv, Node
<1>12. checkpoint.next # "none" /\ Legit(checkpoint.next, checkpoint.st, origin, approval)
  BY <1>4, WorkflowHasBegun
<1>13. approval' \in [Approvals -> ApprovalRow] /\ Keeps(approval, approval')
  BY <1>2, ApprovalsAlone
<1>14. entered' \subseteq [call : Calls, appr : Approvals \cup {NoApproval}]
  BY <1>2, <1>6 DEF IInv, TypeOK
<1>15. ProtectedEntriesApproved'
  <2>1. ASSUME NEW f \in entered', f.call \in Protected
        PROVE  f.appr \in Approvals /\ approval[f.appr] = [status |-> "APPROVED", call |-> f.call]
    <3>1. CASE f \in entered
      BY <3>1, <2>1 DEF IInv, ProtectedEntriesApproved, Authorized
    <3>2. CASE f = e
      BY <3>2, <2>1 DEF Authorized
    <3> QED BY <3>1, <3>2, <1>2
  <2> QED BY <2>1, <1>2 DEF ProtectedEntriesApproved, Authorized
<1>16. GrantsSurvivePauses'
  <2>1. ASSUME NEW f \in entered', origin.agent # NoAgent
        PROVE  f.call \in Grants[origin.agent]
    <3>1. CASE f \in entered
      BY <3>1, <2>1 DEF IInv, GrantsSurvivePauses
    <3>2. CASE f = e
      BY <3>2, <2>1, <1>2, <1>5 DEF Permitted
    <3> QED BY <3>1, <3>2, <1>2
  <2> QED BY <2>1, <1>2 DEF GrantsSurvivePauses
<1>17. checkpoint \in Checkpoint
  BY DEF IInv, TypeOK
<1> QED BY <1>2, <1>3, <1>9, <1>11, <1>12, <1>13, <1>14, <1>15, <1>16, <1>17, StepKeeps

LEMMA RunToolKeeps == ASSUME IInv, NEW r \in Runs, RunTool(r) PROVE IInv'
<1>1. ToolCallsLeft(r) /\ EnterTool(r, NoApproval) /\ Current(run[r].st) \notin Protected
  BY DEF RunTool, Automatic
<1> QED BY <1>1, EnterToolKeeps

LEMMA RunApprovedKeeps == ASSUME IInv, NEW r \in Runs, RunApproved(r) PROVE IInv'
<1> DEFINE st == run[r].st
<1>1. /\ ToolCallsLeft(r) /\ EnterTool(r, st.pending)
      /\ st.pending # NoApproval /\ Authorized(st.pending, Current(st))
  BY DEF RunApproved
<1>2. st.pending \in Approvals
  BY <1>1 DEF IInv, TypeOK, Invocation, State
<1> QED BY <1>1, <1>2, EnterToolKeeps

-----------------------------------------------------------------------------
\* No step breaks the invariant.
LEMMA NextKeeps == IInv /\ [Next]_vars => IInv'
<1> SUFFICES ASSUME IInv, [Next]_vars PROVE IInv'
  OBVIOUS
<1>1. ASSUME NEW r \in Runs, Invoke(r) PROVE IInv'
  BY <1>1, RunKeeps, ResumeKeeps, ResumePendingToolKeeps, EnterKeeps DEF Invoke
<1>2. ASSUME NEW r \in Runs, RunNode(r) PROVE IInv'
  BY <1>2, LlmNodeKeeps, RunToolKeeps, RunApprovedKeeps, AskKeeps, ToolsDoneKeeps,
     InterruptKeeps, PauseNodeKeeps DEF RunNode
<1>3. ASSUME NEW r \in Runs, Raise(r) \/ Pause(r) PROVE IInv'
  BY <1>3, RaiseKeeps, PauseKeeps
<1>4. ASSUME NEW p \in Approvals, Decide(p) PROVE IInv'
  BY <1>4, DecideKeeps
<1>5. CASE UNCHANGED vars
  BY <1>5 DEF vars, IInv, TypeOK, CheckpointInv, ProtectedEntriesApproved, Authorized,
    GrantsSurvivePauses
<1> QED BY <1>1, <1>2, <1>3, <1>4, <1>5 DEF Next

\* The invariant of the workflow holds in every reachable state.
THEOREM Invariance == Spec => []IInv
<1>1. Init => IInv
  BY InitEstablishes
<1>2. IInv /\ [Next]_vars => IInv'
  BY NextKeeps
<1> QED BY <1>1, <1>2, PTL DEF Spec

\* Every transcript a node runs from, and the checkpoint's, is legitimate; the
\* checkpoint of a workflow that has not begun holds nothing.
LEMMA TranscriptsAreLegit ==
    ASSUME IInv, NEW t \in Transcripts
    PROVE  /\ t[2] \in State
           /\ t[1] # "none" => Legit(t[1], t[2], origin, approval)
           /\ t[1] = "none" => t[2].pending = NoApproval
<1>1. CASE t = <<checkpoint.next, checkpoint.st>>
  <2>1. checkpoint.st \in State
    BY DEF IInv, TypeOK, Checkpoint
  <2>2. CASE checkpoint.next = "none"
    <3>1. NoState.pending = NoApproval
      BY DEF NoState, InitialState
    <3>2. checkpoint.st = NoState
      BY <2>2 DEF IInv, CheckpointInv
    <3> QED BY <1>1, <2>1, <2>2, <3>1, <3>2
  <2>3. CASE checkpoint.next # "none"
    BY <1>1, <2>1, <2>3 DEF IInv, CheckpointInv
  <2> QED BY <2>2, <2>3
<1>2. CASE \E r \in Runs : run[r].pc \in Node /\ t = <<run[r].pc, run[r].st>>
  <2>1. PICK r \in Runs : run[r].pc \in Node /\ t = <<run[r].pc, run[r].st>>
    BY <1>2
  <2>2. run[r].st \in State
    BY DEF IInv, TypeOK, Invocation
  <2>3. Legit(run[r].pc, run[r].st, origin, approval)
    BY <2>1 DEF IInv, RunInv
  <2> QED BY <2>1, <2>2, <2>3 DEF Node
<1> QED BY <1>1, <1>2 DEF Transcripts

\* The model is called with complete transcripts only.
THEOREM TranscriptsAreComplete == Spec => []TranscriptIsComplete
<1>1. IInv => TranscriptIsComplete
  <2> SUFFICES ASSUME IInv, NEW t \in Transcripts, t[1] \in {"llm", "end"}
               PROVE  EveryCallAnswered(t[2].messages)
    BY DEF TranscriptIsComplete
  <2> DEFINE m == t[2].messages
  <2>1. m \in Seq(Message)
    BY TranscriptsAreLegit DEF State
  <2>2. AnswersBefore(m, Len(m) + 1)
    BY TranscriptsAreLegit DEF Legit, TranscriptInv, OpenAt, InBatch
  <2> HIDE DEF m
  <2>3. ASSUME NEW i \in DOMAIN m, m[i].role = "assistant", NEW k \in DOMAIN m[i].calls
        PROVE  i + k \in DOMAIN m /\ m[i + k] = Answering(m[i].calls[k])
    <3>1. i \in 1 .. Len(m) /\ Len(m) \in Nat /\ DOMAIN m = 1 .. Len(m)
      BY <2>1
    <3>2. Len(m[i].calls) \in Nat /\ k \in 1 .. Len(m[i].calls)
      BY <2>1, <2>3, <3>1, CallsOfMessages
    <3>3. i + Len(m[i].calls) < Len(m) + 1
      BY <2>2, <2>3, <3>1 DEF AnswersBefore
    <3>4. i + k \in 1 .. Len(m)
      BY <3>1, <3>2, <3>3
    <3>5. m[i + k] = Answering(m[i].calls[k])
      BY <2>2, <2>3, <3>1, <3>4 DEF AnswersBefore
    <3> QED BY <3>1, <3>4, <3>5
  <2>4. \A i \in DOMAIN m : m[i].role = "tool" =>
          \E j \in 1 .. i : m[j].role = "assistant" /\ i - j \in DOMAIN m[j].calls
    BY <2>2 DEF AnswersBefore
  <2> QED BY <2>3, <2>4 DEF EveryCallAnswered, m
<1> QED BY <1>1, Invariance, PTL

\* The checkpoint, the invocations, the Approvals and the history keep their types.
THEOREM TypeCorrect == Spec => []TypeOK
<1>1. IInv => TypeOK
  BY DEF IInv
<1> QED BY <1>1, Invariance, PTL

\* The original budget bounds the rounds of the whole workflow.
THEOREM BudgetBoundsWorkflow == Spec => []BudgetSpansResumes
<1>1. IInv => BudgetSpansResumes
  <2> SUFFICES ASSUME IInv, NEW t \in Transcripts, t[1] # "none"
               PROVE  Cardinality(Rounds(t[2])) + (IF t[2].answered THEN 1 ELSE 0)
                        <= origin.budget
    BY DEF BudgetSpansResumes
  <2>1. Legit(t[1], t[2], origin, approval)
    BY TranscriptsAreLegit
  <2> QED BY <2>1 DEF Legit, StepsInv
<1> QED BY <1>1, Invariance, PTL

\* The recursion limit never ends a workflow that still has budget.
THEOREM LimitNeverReached == Spec => []LimitIsOnlyAGuard
<1>1. IInv => LimitIsOnlyAGuard
  <2> SUFFICES ASSUME IInv, NEW r \in Runs, run[r].pc \in Node
               PROVE  run[r].fuel > 0
    BY DEF LimitIsOnlyAGuard
  <2>1. /\ run[r].fuel \in Int /\ run[r].fuel >= Needed(run[r])
        /\ run[r].st.step \in Nat /\ run[r].st.budget \in Nat
        /\ run[r].st.step <= run[r].st.budget
    BY AtNodeFacts DEF AtNode
  <2>2. Needed(run[r]) >= 1
    BY <2>1 DEF Needed, Node
  <2>3. Needed(run[r]) \in Int
    BY <2>1 DEF Needed, Node
  <2> QED BY <2>1, <2>2, <2>3
<1> QED BY <1>1, Invariance, PTL

\* An Approval in a state is the one drawn for the call at its cursor.
THEOREM PendingApprovalNamesCall == Spec => []PendingNamesItsCall
<1>1. IInv => PendingNamesItsCall
  <2> SUFFICES ASSUME IInv, NEW t \in Transcripts, t[2].pending # NoApproval
               PROVE  /\ t[2].cursor < Len(t[2].calls)
                      /\ approval[t[2].pending].call = Current(t[2])
    BY DEF PendingNamesItsCall
  <2>1. Legit(t[1], t[2], origin, approval)
    BY TranscriptsAreLegit
  <2> QED BY <2>1 DEF Legit, PendingInv
<1> QED BY <1>1, Invariance, PTL

\* Protected Tools are entered under an Approval of exactly that call.
THEOREM ProtectedNeedsApproval == Spec => []ProtectedEntriesApproved
<1>1. IInv => ProtectedEntriesApproved
  BY DEF IInv
<1> QED BY <1>1, Invariance, PTL

\* The Agent a workflow began for governs all its Tool entries.
THEOREM GrantsGovernWorkflow == Spec => []GrantsSurvivePauses
<1>1. IInv => GrantsSurvivePauses
  BY DEF IInv
<1> QED BY <1>1, Invariance, PTL
=============================================================================
