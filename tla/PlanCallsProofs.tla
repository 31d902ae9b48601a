--------------------------- MODULE PlanCallsProofs ---------------------------
(***************************************************************************)
(* Proofs about PlanCalls for any arguments: any states, questions and     *)
(* budgets.                                                                *)
(***************************************************************************)
EXTENDS CallTrees, TreeProofs

-----------------------------------------------------------------------------
(* The inductive invariant *)

\* The questions taken so far are 1..k-1, in this order, each in one place.
Taken ==
  /\ \A i \in DOMAIN calls : \A a \in DOMAIN calls[i].questions :
       calls[i].questions[a] \in 1..(k - 1)
  /\ \A i, j \in DOMAIN calls :
       \A a \in DOMAIN calls[i].questions, b \in DOMAIN calls[j].questions :
         i < j \/ (i = j /\ a < b) => calls[i].questions[a] < calls[j].questions[b]
  /\ pc = "done" => k = Len(tails) + 1
Covered ==
  \A q \in 1..(k - 1) : \/ \E i \in DOMAIN calls : q \in Members(calls[i])
                        \/ pc = "fill" /\ q \in Members(open)
TakenByOpen ==
  pc = "fill" =>
    /\ \A b \in DOMAIN open.questions : open.questions[b] \in 1..(k - 1)
    /\ \A b, c \in DOMAIN open.questions : b < c => open.questions[b] < open.questions[c]
    /\ \A i \in DOMAIN calls : \A a \in DOMAIN calls[i].questions :
         \A b \in DOMAIN open.questions : calls[i].questions[a] < open.questions[b]

\* What the open call has counted is what it reads.
Counted ==
  pc = "fill" => /\ open.state_from = pos
                 /\ open.state_to = P
                 /\ used = (P - pos) + TreeTokens(tails, Members(open))
                 /\ FitsCall(open)
                 /\ open.questions = <<>> => k <= Len(tails)
AllFit == \A i \in DOMAIN calls : FitsCall(calls[i])

\* Where the state has been read to.
ReadTo ==
  /\ pc # "done" => pos = IF calls = <<>> THEN input.from ELSE calls[Len(calls)].state_to
  /\ pc = "pieces" => k = 1
  /\ pc = "questions" => k = 1 \/ pos = P

IInv == /\ TypeOK
        /\ input \in Inputs
        /\ Taken /\ Covered /\ TakenByOpen
        /\ Counted /\ AllFit
        /\ StateInOrder /\ ReadTo

\* What is known of the arguments.
LEMMA Arguments ==
  ASSUME input \in Inputs
  PROVE  /\ P \in Nat
         /\ input.from \in 0..P
         /\ tails \in Seq(Seq(Int))
         /\ \A q \in DOMAIN tails : tails[q] # <<>>
         /\ input.piece_budget \in Nat \ {0}
         /\ input.call_budget \in Nat
         /\ input.max_count \in Nat
<1> QED BY InputsAssumption DEF P, tails

\* A call without questions has no members.
LEMMA MembersOfNone == ASSUME NEW c, c.questions = <<>> PROVE Members(c) = {}
<1> QED BY DEF Members

\* A question added to a call is a member of it.
LEMMA MembersAppend ==
  ASSUME NEW c \in CallSet, NEW q \in Nat
  PROVE  Members([c EXCEPT !.questions = Append(@, q)]) = Members(c) \union {q}
<1> DEFINE s == c.questions
           d == [c EXCEPT !.questions = Append(@, q)]
<1>1. s \in Seq(Nat) /\ d.questions = Append(s, q)
  BY DEF CallSet
<1>2. /\ DOMAIN d.questions = DOMAIN s \union {Len(s) + 1}
      /\ \A i \in DOMAIN s : d.questions[i] = s[i]
      /\ d.questions[Len(s) + 1] = q
  BY <1>1, AppendProperties
<1> HIDE DEF d
<1> QED BY <1>2 DEF Members

\* An empty tree reads nothing.
LEMMA NoTree == ASSUME NEW ts PROVE TreeTokens(ts, {}) = 0
<1>1. UNION {Starts(ts[m]) : m \in {}} = {}
  OBVIOUS
<1>2. Cardinality({}) = 0
  BY FS_EmptySet
<1> QED BY <1>1, <1>2 DEF TreeTokens

\* The plan begins without calls.
LEMMA InitInv == Init => IInv
<1> SUFFICES ASSUME Init PROVE IInv
  OBVIOUS
<1> USE DEF Init
<1>1. input \in Inputs
  OBVIOUS
<1>2. TypeOK
  BY <1>1, Arguments DEF TypeOK, CallSet, Call
<1>3. Taken /\ Covered /\ TakenByOpen
  BY DEF Taken, Covered, TakenByOpen
<1>4. Counted /\ AllFit
  BY DEF Counted, AllFit
<1>5. StateInOrder /\ ReadTo
  BY DEF StateInOrder, ReadTo
<1> QED BY <1>1, <1>2, <1>3, <1>4, <1>5 DEF IInv

\* What the open call adds, and that it is a number.
LEMMA CostIsGrowth ==
  ASSUME IInv, pc = "fill", k <= Len(tails)
  PROVE  /\ cost \in Nat
         /\ k \in DOMAIN tails
         /\ Members(open) \subseteq DOMAIN tails
         /\ k \notin Members(open)
         /\ TreeTokens(tails, Members(open)) \in Nat
         /\ TreeTokens(tails, Members(open) \union {k}) = TreeTokens(tails, Members(open)) + cost
<1>1. k \in DOMAIN tails
  BY Arguments DEF IInv, TypeOK
<1>2. Members(open) \subseteq 1..(k - 1)
  BY DEF IInv, TakenByOpen, Members
<1>3. Members(open) \subseteq DOMAIN tails /\ k \notin Members(open)
  BY <1>1, <1>2, Arguments DEF IInv, TypeOK
<1> QED BY <1>1, <1>3, Arguments, AddedIsGrowth DEF IInv, cost

\* A sequence with one element more.
LEMMA Appended ==
  ASSUME NEW S, NEW s \in Seq(S), NEW c \in S, NEW t, t = Append(s, c)
  PROVE  /\ t \in Seq(S)
         /\ t # <<>>
         /\ Len(s) \in Nat
         /\ Len(t) = Len(s) + 1
         /\ DOMAIN s = 1..Len(s)
         /\ DOMAIN t = 1..(Len(s) + 1)
         /\ \A i \in 1..Len(s) : t[i] = s[i] /\ s[i] \in S
         /\ t[Len(s) + 1] = c
         /\ s = <<>> <=> Len(s) = 0
<1> QED BY AppendProperties, EmptySeq

\* The state stays in order when a call that starts at pos joins the result.
LEMMA StateKept ==
  ASSUME IInv, pc # "done", UNCHANGED input,
         NEW c \in CallSet, calls' = Append(calls, c),
         c.state_from = pos, pos <= c.state_to, c.state_to <= P,
         pc' = "done" => c.state_to = P
  PROVE  StateInOrder' /\ calls'[Len(calls')].state_to = c.state_to /\ calls' # <<>>
<1>1. /\ calls \in Seq(CallSet)
      /\ P' = P /\ input' = input
      /\ pos = IF calls = <<>> THEN input.from ELSE calls[Len(calls)].state_to
      /\ \A i \in DOMAIN calls :
           /\ calls[i].state_from = (IF i = 1 THEN input.from ELSE calls[i - 1].state_to)
           /\ calls[i].state_from <= calls[i].state_to
           /\ calls[i].state_to <= P
  BY DEF IInv, TypeOK, P, StateInOrder, ReadTo
<1> DEFINE t == calls'
<1>2. /\ t # <<>>
      /\ Len(calls) \in Nat
      /\ Len(t) = Len(calls) + 1
      /\ DOMAIN calls = 1..Len(calls)
      /\ DOMAIN t = 1..(Len(calls) + 1)
      /\ \A i \in 1..Len(calls) : t[i] = calls[i]
      /\ t[Len(calls) + 1] = c
      /\ calls = <<>> <=> Len(calls) = 0
  BY <1>1, Appended
<1> HIDE DEF t
<1>3. ASSUME NEW i \in DOMAIN t
      PROVE  /\ t[i].state_from = (IF i = 1 THEN input.from ELSE t[i - 1].state_to)
             /\ t[i].state_from <= t[i].state_to
             /\ t[i].state_to <= P
  <2>1. CASE i \in DOMAIN calls
    <3>1. t[i] = calls[i] /\ (i # 1 => t[i - 1] = calls[i - 1])
      BY <1>2, <2>1
    <3> QED BY <1>1, <2>1, <3>1
  <2>2. CASE i = Len(calls) + 1
    <3>1. t[i] = c
      BY <1>2, <2>2
    <3>2. i # 1 => t[i - 1] = calls[Len(calls)] /\ calls # <<>>
      BY <1>2, <2>2
    <3>3. i = 1 => calls = <<>>
      BY <1>2, <2>2
    <3> QED BY <1>1, <3>1, <3>2, <3>3
  <2> QED BY <1>2, <1>3, <2>1, <2>2
<1>4. t[Len(t)] = c
  BY <1>2
<1> QED BY <1>1, <1>2, <1>3, <1>4 DEF StateInOrder, t

\* A step that takes no question and keeps the result as it is, or adds a piece
\* to it, keeps what is known of the questions.
LEMMA QuestionsKept ==
  ASSUME IInv, UNCHANGED <<input, k>>, pc # "fill", pc' # "fill", pc' # "done",
         \/ UNCHANGED calls
         \/ \E c \in CallSet : c.questions = <<>> /\ calls' = Append(calls, c)
  PROVE  Taken' /\ Covered' /\ TakenByOpen' /\ Counted' /\ AllFit'
<1> SUFFICES ASSUME TRUE PROVE Taken' /\ Covered' /\ AllFit'
  BY DEF TakenByOpen, Counted
<1>1. CASE UNCHANGED calls
  BY <1>1 DEF IInv, Taken, Covered, AllFit, Members, FitsCall, Reads, StateTokens, tails, P
<1>2. ASSUME NEW c \in CallSet, c.questions = <<>>, calls' = Append(calls, c)
      PROVE  Taken' /\ Covered' /\ AllFit'
  <2> DEFINE t == calls'
  <2>1. /\ Len(calls) \in Nat
        /\ DOMAIN calls = 1..Len(calls)
        /\ DOMAIN t = 1..(Len(calls) + 1)
        /\ \A i \in 1..Len(calls) : t[i] = calls[i]
        /\ t[Len(calls) + 1] = c
    BY <1>2, Appended DEF IInv, TypeOK
  <2>2. DOMAIN c.questions = {} /\ Len(c.questions) = 0
    BY <1>2
  <2> HIDE DEF t
  <2>3. Taken'
    BY <2>1, <2>2 DEF IInv, Taken, t
  <2>4. Covered'
    BY <2>1 DEF IInv, Covered, Members, t
  <2>5. AllFit'
    <3> SUFFICES ASSUME NEW i \in DOMAIN calls' PROVE FitsCall(calls[i])'
      BY DEF AllFit
    <3>1. CASE i \in DOMAIN calls
      <4>1. calls'[i] = calls[i] /\ FitsCall(calls[i])
        BY <2>1, <3>1 DEF IInv, AllFit, t
      <4> QED BY <4>1 DEF FitsCall, Reads, StateTokens, tails, Members
    <3>2. CASE i = Len(calls) + 1
      <4>1. calls'[i] = c
        BY <2>1, <3>2 DEF t
      <4> QED BY <2>2, <4>1 DEF FitsCall
    <3> QED BY <2>1, <3>1, <3>2 DEF t
  <2> QED BY <2>3, <2>4, <2>5
<1> QED BY <1>1, <1>2

\* A piece of the state read in a call of its own keeps the invariant.
LEMMA ReadPieceStep == ASSUME IInv, ReadPiece PROVE IInv'
<1> DEFINE c == Call(pos, pos + Piece, <<>>)
<1>1. /\ P \in Nat /\ pos \in Nat /\ pos < P /\ input.from <= pos /\ input.from \in Nat
      /\ input.piece_budget \in Nat \ {0}
      /\ pc = "pieces" /\ pc' = "pieces"
  BY Arguments DEF IInv, TypeOK, ReadPiece
<1>2. Piece \in Nat \ {0} /\ pos + Piece <= P
  BY <1>1 DEF Piece
<1>3. /\ c \in CallSet
      /\ c.state_from = pos /\ c.state_to = pos + Piece /\ c.questions = <<>>
  BY <1>1, <1>2 DEF Call, CallSet
<1>4. /\ calls' = Append(calls, c) /\ pos' = pos + Piece
      /\ UNCHANGED <<input, k, open, used, pc>>
  BY DEF ReadPiece
<1> HIDE DEF c
<1>5. StateInOrder' /\ calls'[Len(calls')].state_to = pos + Piece /\ calls' # <<>>
  BY <1>1, <1>2, <1>3, <1>4, StateKept
<1>6. Taken' /\ Covered' /\ TakenByOpen' /\ Counted' /\ AllFit'
  BY <1>1, <1>3, <1>4, QuestionsKept
<1>7. ReadTo'
  BY <1>1, <1>4, <1>5 DEF ReadTo, IInv
<1>8. TypeOK'
  <2>1. calls' \in Seq(CallSet)
    BY <1>3, <1>4, Appended DEF IInv, TypeOK
  <2> QED BY <2>1, <1>1, <1>2, <1>4 DEF IInv, TypeOK, P, tails
<1> QED BY <1>4, <1>5, <1>6, <1>7, <1>8 DEF IInv

\* Going on to the questions keeps the invariant.
LEMMA EndPiecesStep == ASSUME IInv, EndPieces PROVE IInv'
<1>1. /\ pc = "pieces" /\ pc' = "questions"
      /\ UNCHANGED <<input, pos, k, calls, open, used>>
  BY DEF EndPieces
<1>2. Taken' /\ Covered' /\ TakenByOpen' /\ Counted' /\ AllFit'
  BY <1>1, QuestionsKept
<1>3. StateInOrder' /\ ReadTo'
  BY <1>1 DEF IInv, StateInOrder, ReadTo, P
<1>4. TypeOK'
  BY <1>1 DEF IInv, TypeOK, P, tails
<1> QED BY <1>1, <1>2, <1>3, <1>4 DEF IInv

\* Opening the next call keeps the invariant.
LEMMA OpenCallStep == ASSUME IInv, OpenCall PROVE IInv'
<1>1. /\ pc = "questions" /\ pc' = "fill" /\ k <= Len(tails)
      /\ open' = Call(pos, P, <<>>)
      /\ used' = P - pos
      /\ UNCHANGED <<input, pos, k, calls>>
      /\ P' = P /\ tails' = tails
  BY DEF OpenCall, P, tails
<1>2. P \in Nat /\ pos \in input.from..P /\ input.from \in Nat
  BY Arguments DEF IInv, TypeOK
<1>3. /\ open' \in CallSet
      /\ open'.state_from = pos /\ open'.state_to = P /\ open'.questions = <<>>
  BY <1>1, <1>2 DEF Call, CallSet
<1>4. Members(open)' = {} /\ Len(open'.questions) = 0 /\ DOMAIN open'.questions = {}
  BY <1>3 DEF Members
<1>5. Taken' /\ Covered' /\ TakenByOpen'
  BY <1>1, <1>4 DEF IInv, Taken, Covered, TakenByOpen, Members
<1>6. Counted'
  <2>1. TreeTokens(tails', Members(open)') = 0
    BY <1>4, NoTree
  <2> QED BY <2>1, <1>1, <1>2, <1>3, <1>4 DEF Counted, FitsCall
<1>7. AllFit'
  BY <1>1 DEF IInv, AllFit, FitsCall, Reads, StateTokens, Members
<1>8. StateInOrder' /\ ReadTo'
  BY <1>1 DEF IInv, StateInOrder, ReadTo
<1>9. TypeOK'
  BY <1>1, <1>2, <1>3 DEF IInv, TypeOK
<1> QED BY <1>1, <1>5, <1>6, <1>7, <1>8, <1>9 DEF IInv

\* Taking a question into the open call keeps the invariant.
LEMMA TakeQuestionStep == ASSUME IInv, TakeQuestion PROVE IInv'
<1>1. /\ pc = "fill" /\ pc' = "fill" /\ k <= Len(tails) /\ ~Full
      /\ open' = [open EXCEPT !.questions = Append(@, k)]
      /\ used' = used + cost
      /\ k' = k + 1
      /\ UNCHANGED <<input, pos, calls>>
      /\ P' = P /\ tails' = tails
  BY DEF TakeQuestion, Joins, P, tails
<1>2. /\ k \in Nat \ {0} /\ open \in CallSet /\ used \in Nat /\ Len(tails) \in Nat
  BY Arguments DEF IInv, TypeOK
<1>3. /\ cost \in Nat
      /\ TreeTokens(tails, Members(open)) \in Nat
      /\ TreeTokens(tails, Members(open) \union {k}) = TreeTokens(tails, Members(open)) + cost
  BY <1>1, CostIsGrowth
<1> DEFINE s == open.questions
<1>4. /\ s \in Seq(Nat)
      /\ open' \in CallSet
      /\ open'.state_from = open.state_from /\ open'.state_to = open.state_to
      /\ open'.questions = Append(s, k)
  BY <1>1, <1>2, AppendProperties DEF CallSet
<1>5. /\ Len(s) \in Nat
      /\ Len(open'.questions) = Len(s) + 1
      /\ open'.questions # <<>>
      /\ DOMAIN s = 1..Len(s)
      /\ DOMAIN open'.questions = 1..(Len(s) + 1)
      /\ \A i \in 1..Len(s) : open'.questions[i] = s[i]
      /\ open'.questions[Len(s) + 1] = k
      /\ s = <<>> <=> Len(s) = 0
  <2> DEFINE t == open'.questions
  <2>1. k \in Nat /\ s \in Seq(Nat) /\ t = Append(s, k)
    BY <1>2, <1>4
  <2> HIDE DEF s, t
  <2>2. /\ t # <<>>
        /\ Len(s) \in Nat
        /\ Len(t) = Len(s) + 1
        /\ DOMAIN s = 1..Len(s)
        /\ DOMAIN t = 1..(Len(s) + 1)
        /\ \A i \in 1..Len(s) : t[i] = s[i]
        /\ t[Len(s) + 1] = k
        /\ s = <<>> <=> Len(s) = 0
    BY <2>1, Appended
  <2> QED BY <2>2 DEF t
<1>6. Members(open)' = Members(open) \union {k}
  <2>1. Members(open') = Members(open) \union {k}
    BY <1>1, <1>2, MembersAppend
  <2> QED BY <2>1 DEF Members
<1> HIDE DEF s
<1>7. Taken'
  BY <1>1, <1>2 DEF IInv, Taken
<1>8. Covered'
  <2> SUFFICES ASSUME NEW q \in 1..k
               PROVE  (\E i \in DOMAIN calls : q \in Members(calls[i])) \/ q \in Members(open)'
    BY <1>1, <1>2 DEF Covered, Members
  <2>1. CASE q = k
    BY <2>1, <1>6
  <2>2. CASE q \in 1..(k - 1)
    BY <2>2, <1>1, <1>6 DEF IInv, Covered
  <2> QED BY <1>2, <2>1, <2>2
<1>9. TakenByOpen'
  <2>1. /\ \A b \in DOMAIN s : s[b] \in 1..(k - 1)
        /\ \A b, c \in DOMAIN s : b < c => s[b] < s[c]
        /\ \A i \in DOMAIN calls : \A a \in DOMAIN calls[i].questions :
             \A b \in DOMAIN s : calls[i].questions[a] < s[b]
        /\ \A i \in DOMAIN calls : \A a \in DOMAIN calls[i].questions :
             calls[i].questions[a] \in 1..(k - 1)
    BY <1>1 DEF IInv, TakenByOpen, Taken, s
  <2>2. \A b \in DOMAIN open'.questions : open'.questions[b] \in 1..k
    BY <1>2, <1>5, <2>1
  <2>3. \A b, c \in DOMAIN open'.questions : b < c => open'.questions[b] < open'.questions[c]
    BY <1>2, <1>5, <2>1
  <2>4. \A i \in DOMAIN calls : \A a \in DOMAIN calls[i].questions :
          \A b \in DOMAIN open'.questions : calls[i].questions[a] < open'.questions[b]
    <3> SUFFICES ASSUME NEW i \in DOMAIN calls, NEW a \in DOMAIN calls[i].questions,
                        NEW b \in DOMAIN open'.questions
                 PROVE  calls[i].questions[a] < open'.questions[b]
      OBVIOUS
    <3>1. CASE b \in DOMAIN s
      BY <3>1, <1>5, <2>1
    <3>2. CASE b = Len(s) + 1
      BY <3>2, <1>2, <1>5, <2>1
    <3> QED BY <3>1, <3>2, <1>5
  <2> QED BY <1>1, <1>2, <2>2, <2>3, <2>4 DEF TakenByOpen
<1>10. Counted'
  <2>1. /\ open.state_from = pos /\ open.state_to = P
        /\ used = (P - pos) + TreeTokens(tails, Members(open))
    BY <1>1 DEF IInv, Counted
  <2>2. P \in Nat /\ pos \in Nat /\ P - pos \in Nat
    BY Arguments DEF IInv, TypeOK
  <2>3. used' = (P - pos) + TreeTokens(tails, Members(open) \union {k})
    BY <1>1, <1>3, <2>1, <2>2
  <2>4. used' = (P' - pos') + TreeTokens(tails', Members(open)')
    BY <1>1, <1>6, <2>3
  <2>5. FitsCall(open)'
    <3> SUFFICES ASSUME Len(open'.questions) >= 2
                 PROVE  used' <= input.call_budget /\ Len(open'.questions) <= input.max_count
      BY <1>1, <1>4, <2>1, <2>4 DEF FitsCall, Reads, StateTokens
    <3>1. s # <<>>
      BY <1>5
    <3>2. ~(Len(s) >= input.max_count) /\ ~(used + cost > input.call_budget)
      BY <1>1, <3>1 DEF Full, s
    <3>3. input.max_count \in Nat /\ input.call_budget \in Nat
      BY Arguments DEF IInv
    <3> QED BY <3>2, <3>3, <1>1, <1>2, <1>3, <1>5
  <2> QED BY <1>1, <1>4, <1>5, <2>1, <2>4, <2>5 DEF Counted
<1>11. AllFit'
  BY <1>1 DEF IInv, AllFit, FitsCall, Reads, StateTokens, Members
<1>12. StateInOrder' /\ ReadTo'
  BY <1>1 DEF IInv, StateInOrder, ReadTo
<1>13. TypeOK'
  <2>1. k' \in 1..(Len(tails') + 1)
    BY <1>1, <1>2
  <2>2. used' \in Nat
    BY <1>1, <1>2, <1>3
  <2> QED BY <1>1, <1>4, <2>1, <2>2 DEF IInv, TypeOK
<1> QED BY <1>1, <1>7, <1>8, <1>9, <1>10, <1>11, <1>12, <1>13 DEF IInv

\* The questions of the open call become those of the last call of the result.
LEMMA CloseCallStep == ASSUME IInv, CloseCall PROVE IInv'
<1>1. /\ pc = "fill" /\ pc' = "questions"
      /\ calls' = Append(calls, open)
      /\ pos' = P
      /\ UNCHANGED <<input, k, open, used>>
      /\ P' = P /\ tails' = tails
  BY DEF CloseCall, P, tails
<1>2. /\ open \in CallSet /\ calls \in Seq(CallSet)
      /\ P \in Nat /\ pos \in input.from..P /\ input.from \in 0..P
      /\ open.state_from = pos /\ open.state_to = P /\ FitsCall(open)
  BY <1>1, Arguments DEF IInv, TypeOK, Counted
<1>3. StateInOrder' /\ calls'[Len(calls')].state_to = P /\ calls' # <<>>
  BY <1>1, <1>2, StateKept
<1> DEFINE t == calls'
<1>4. /\ t \in Seq(CallSet)
      /\ Len(calls) \in Nat
      /\ DOMAIN calls = 1..Len(calls)
      /\ DOMAIN t = 1..(Len(calls) + 1)
      /\ \A i \in 1..Len(calls) : t[i] = calls[i]
      /\ t[Len(calls) + 1] = open
  BY <1>1, <1>2, Appended
<1> HIDE DEF t
<1>5. Taken'
  <2>1. /\ \A i \in DOMAIN calls : \A a \in DOMAIN calls[i].questions :
             calls[i].questions[a] \in 1..(k - 1)
        /\ \A b \in DOMAIN open.questions : open.questions[b] \in 1..(k - 1)
        /\ \A b, c \in DOMAIN open.questions : b < c => open.questions[b] < open.questions[c]
        /\ \A i \in DOMAIN calls : \A a \in DOMAIN calls[i].questions :
             \A b \in DOMAIN open.questions : calls[i].questions[a] < open.questions[b]
        /\ \A i, j \in DOMAIN calls :
             \A a \in DOMAIN calls[i].questions, b \in DOMAIN calls[j].questions :
               i < j \/ (i = j /\ a < b) => calls[i].questions[a] < calls[j].questions[b]
    BY <1>1 DEF IInv, Taken, TakenByOpen
  <2>2. \A i \in DOMAIN t : \A a \in DOMAIN t[i].questions : t[i].questions[a] \in 1..(k - 1)
    BY <1>4, <2>1
  <2>3. ASSUME NEW i \in DOMAIN t, NEW j \in DOMAIN t,
               NEW a \in DOMAIN t[i].questions, NEW b \in DOMAIN t[j].questions,
               i < j \/ (i = j /\ a < b)
        PROVE  t[i].questions[a] < t[j].questions[b]
    <3>1. CASE j \in DOMAIN calls
      <4>1. i \in DOMAIN calls
        BY <1>4, <2>3, <3>1
      <4>2. t[i] = calls[i] /\ t[j] = calls[j]
        BY <1>4, <3>1, <4>1
      <4> QED BY <2>1, <2>3, <3>1, <4>1, <4>2
    <3>2. CASE j = Len(calls) + 1 /\ i \in DOMAIN calls
      BY <1>4, <2>1, <3>2
    <3>3. CASE j = Len(calls) + 1 /\ i = j
      BY <1>4, <2>1, <2>3, <3>3
    <3> QED BY <1>4, <2>3, <3>1, <3>2, <3>3
  <2> QED BY <1>1, <2>2, <2>3 DEF Taken, t
<1>6. Covered'
  <2> SUFFICES ASSUME NEW q \in 1..(k - 1)
               PROVE  \E i \in DOMAIN t : q \in Members(t[i])
    BY <1>1 DEF Covered, Members, t
  <2>1. CASE \E i \in DOMAIN calls : q \in Members(calls[i])
    <3>1. PICK i \in DOMAIN calls : q \in Members(calls[i])
      BY <2>1
    <3>2. i \in DOMAIN t /\ t[i] = calls[i]
      BY <1>4
    <3> QED BY <3>1, <3>2
  <2>2. CASE q \in Members(open)
    BY <1>4, <2>2
  <2> QED BY <2>1, <2>2 DEF IInv, Covered
<1>7. TakenByOpen' /\ Counted'
  BY <1>1 DEF TakenByOpen, Counted
<1>8. AllFit'
  <2> SUFFICES ASSUME NEW i \in DOMAIN calls' PROVE FitsCall(calls[i])'
    BY DEF AllFit
  <2>1. CASE i \in DOMAIN calls
    <3>1. calls'[i] = calls[i] /\ FitsCall(calls[i])
      BY <1>4, <2>1 DEF IInv, AllFit, t
    <3> QED BY <1>1, <3>1 DEF FitsCall, Reads, StateTokens, Members
  <2>2. CASE i = Len(calls) + 1
    <3>1. calls'[i] = open
      BY <1>4, <2>2 DEF t
    <3> QED BY <1>1, <1>2, <3>1 DEF FitsCall, Reads, StateTokens, Members
  <2> QED BY <1>4, <2>1, <2>2 DEF t
<1>9. ReadTo'
  BY <1>1, <1>3 DEF ReadTo
<1>10. TypeOK'
  BY <1>1, <1>2, <1>4 DEF IInv, TypeOK, t
<1> QED BY <1>1, <1>3, <1>5, <1>6, <1>7, <1>8, <1>9, <1>10 DEF IInv

\* Ending the plan, with the last piece of the state, keeps the invariant.
LEMMA FinishStep == ASSUME IInv, Finish PROVE IInv'
<1>1. /\ pc = "questions" /\ pc' = "done" /\ k > Len(tails)
      /\ calls' = calls \o LastPiece
      /\ UNCHANGED <<input, pos, k, open, used>>
      /\ P' = P /\ tails' = tails
  BY DEF Finish, P, tails
<1>2. /\ calls \in Seq(CallSet) /\ P \in Nat /\ pos \in input.from..P /\ input.from \in 0..P
      /\ k = Len(tails) + 1 /\ Len(tails) \in Nat
      /\ k = 1 \/ pos = P
      /\ pos = IF calls = <<>> THEN input.from ELSE calls[Len(calls)].state_to
  BY <1>1, Arguments DEF IInv, TypeOK, ReadTo
<1>3. TakenByOpen' /\ Counted' /\ ReadTo'
  BY <1>1 DEF TakenByOpen, Counted, ReadTo
<1>4. CASE tails = <<>> /\ pos < P
  <2> DEFINE c == Call(pos, P, <<>>)
  <2>1. /\ c \in CallSet /\ c.state_from = pos /\ c.state_to = P /\ c.questions = <<>>
    BY <1>2 DEF Call, CallSet
  <2>2. LastPiece = <<c>>
    BY <1>4 DEF LastPiece
  <2> HIDE DEF c
  <2>3. calls' = Append(calls, c)
    BY <1>1, <1>2, <2>1, <2>2, AppendIsConcat
  <2>4. StateInOrder'
    BY <1>1, <1>2, <2>1, <2>3, StateKept
  <2> DEFINE t == calls'
  <2>5. /\ t \in Seq(CallSet)
        /\ Len(calls) \in Nat
        /\ DOMAIN calls = 1..Len(calls)
        /\ DOMAIN t = 1..(Len(calls) + 1)
        /\ \A i \in 1..Len(calls) : t[i] = calls[i]
        /\ t[Len(calls) + 1] = c
    BY <1>2, <2>1, <2>3, Appended
  <2>6. DOMAIN c.questions = {} /\ Len(c.questions) = 0
    BY <2>1
  <2> HIDE DEF t
  <2>7. Taken'
    <3>1. \A i \in DOMAIN t : \A a \in DOMAIN t[i].questions : i \in DOMAIN calls /\ t[i] = calls[i]
      BY <2>5, <2>6
    <3>2. \A i \in DOMAIN t : \A a \in DOMAIN t[i].questions : t[i].questions[a] \in 1..(k - 1)
      BY <3>1 DEF IInv, Taken
    <3>3. ASSUME NEW i \in DOMAIN t, NEW j \in DOMAIN t,
                 NEW a \in DOMAIN t[i].questions, NEW b \in DOMAIN t[j].questions,
                 i < j \/ (i = j /\ a < b)
          PROVE  t[i].questions[a] < t[j].questions[b]
      <4>1. /\ i \in DOMAIN calls /\ t[i] = calls[i]
            /\ j \in DOMAIN calls /\ t[j] = calls[j]
        BY <3>1
      <4> QED BY <3>3, <4>1 DEF IInv, Taken
    <3> QED BY <1>1, <1>2, <3>2, <3>3 DEF Taken, t
  <2>8. Covered'
    BY <1>1, <2>5 DEF IInv, Covered, Members, t
  <2>9. AllFit'
    <3> SUFFICES ASSUME NEW i \in DOMAIN calls' PROVE FitsCall(calls[i])'
      BY DEF AllFit
    <3>1. CASE i \in DOMAIN calls
      <4>1. calls'[i] = calls[i] /\ FitsCall(calls[i])
        BY <2>5, <3>1 DEF IInv, AllFit, t
      <4> QED BY <1>1, <4>1 DEF FitsCall, Reads, StateTokens, Members
    <3>2. CASE i = Len(calls) + 1
      <4>1. calls'[i] = c
        BY <2>5, <3>2 DEF t
      <4> QED BY <2>6, <4>1 DEF FitsCall
    <3> QED BY <2>5, <3>1, <3>2 DEF t
  <2>10. TypeOK'
    BY <1>1, <2>5 DEF IInv, TypeOK, t
  <2> QED BY <1>1, <1>3, <2>4, <2>7, <2>8, <2>9, <2>10 DEF IInv
<1>5. CASE ~(tails = <<>> /\ pos < P)
  <2>1. calls' = calls
    BY <1>1, <1>2, <1>5 DEF LastPiece
  <2>2. pos = P
    <3>1. CASE k = 1
      <4>1. tails = <<>>
        BY <1>2, <3>1, Arguments, EmptySeq DEF IInv
      <4> QED BY <1>2, <1>5, <4>1
    <3>2. CASE k # 1
      BY <1>2, <3>2
    <3> QED BY <3>1, <3>2
  <2>3. StateInOrder'
    BY <1>1, <1>2, <2>1, <2>2 DEF IInv, StateInOrder
  <2>4. Taken' /\ Covered' /\ AllFit'
    BY <1>1, <1>2, <2>1 DEF IInv, Taken, Covered, AllFit, FitsCall, Reads, StateTokens, Members
  <2>5. TypeOK'
    BY <1>1, <2>1 DEF IInv, TypeOK
  <2> QED BY <1>1, <1>3, <2>3, <2>4, <2>5 DEF IInv
<1> QED BY <1>4, <1>5

\* Every step of the plan keeps the invariant.
LEMMA StepInv == IInv /\ [Next]_vars => IInv'
<1> SUFFICES ASSUME IInv, [Next]_vars PROVE IInv'
  OBVIOUS
<1>1. CASE UNCHANGED vars
  <2>1. TypeOK' /\ StateInOrder' /\ ReadTo' /\ (input \in Inputs)'
    BY <1>1 DEF vars, IInv, TypeOK, StateInOrder, ReadTo, P, tails
  <2>2. Taken' /\ Covered' /\ TakenByOpen'
    BY <1>1 DEF vars, IInv, Taken, Covered, TakenByOpen, Members, tails
  <2>3. Counted'
    BY <1>1 DEF vars, IInv, Counted, FitsCall, Reads, StateTokens, Members, P, tails
  <2>4. AllFit'
    BY <1>1 DEF vars, IInv, AllFit, FitsCall, Reads, StateTokens, Members, tails
  <2> QED BY <2>1, <2>2, <2>3, <2>4 DEF IInv
<1> QED
  BY <1>1, ReadPieceStep, EndPiecesStep, OpenCallStep, TakeQuestionStep, CloseCallStep, FinishStep
  DEF Next

\* The invariant of the plan holds of every state.
LEMMA Invariant == SafeSpec => []IInv
<1> QED BY InitInv, StepInv, PTL DEF SafeSpec

-----------------------------------------------------------------------------
(* The properties *)

\* The variables of plan_calls keep their types: pos stays within the state, the
\* question index within the questions.
THEOREM TypeCorrect == SafeSpec => []TypeOK
<1>1. IInv => TypeOK
  BY DEF IInv
<1> QED BY <1>1, Invariant, PTL

\* The calls read the state in order, without gaps, and all of it.
THEOREM StateIsReadInOrder == SafeSpec => []StateInOrder
<1>1. IInv => StateInOrder
  BY DEF IInv
<1> QED BY <1>1, Invariant, PTL

\* The calls of the result and the open one, as one sequence.
LEMMA AllCallsIs ==
  ASSUME IInv
  PROVE  \/ /\ pc # "fill" /\ AllCalls = calls
         \/ /\ pc = "fill"
            /\ Len(calls) \in Nat
            /\ DOMAIN calls = 1..Len(calls)
            /\ DOMAIN AllCalls = 1..(Len(calls) + 1)
            /\ \A i \in DOMAIN calls : AllCalls[i] = calls[i]
            /\ AllCalls[Len(calls) + 1] = open
            /\ Len(AllCalls) = Len(calls) + 1
<1>1. CASE pc # "fill"
  BY <1>1 DEF AllCalls
<1>2. CASE pc = "fill"
  <2>1. AllCalls = Append(calls, open) /\ calls \in Seq(CallSet) /\ open \in CallSet
    BY <1>2 DEF AllCalls, IInv, TypeOK
  <2> QED BY <1>2, <2>1, Appended
<1> QED BY <1>1, <1>2

\* Every question is taken once, in order, and at the end none is left.
THEOREM QuestionsAreTakenOnce == SafeSpec => []QuestionsOnce
<1>1. ASSUME IInv PROVE QuestionsOnce
  <2>1. \A i \in DOMAIN AllCalls : Members(AllCalls[i]) \subseteq 1..(k - 1)
    BY <1>1, AllCallsIs DEF IInv, Taken, TakenByOpen, Members
  <2>2. \A q \in 1..(k - 1) : \E i \in DOMAIN AllCalls : q \in Members(AllCalls[i])
    <3> SUFFICES ASSUME NEW q \in 1..(k - 1)
                 PROVE  \E i \in DOMAIN AllCalls : q \in Members(AllCalls[i])
      OBVIOUS
    <3>1. CASE \E i \in DOMAIN calls : q \in Members(calls[i])
      <4>1. PICK i \in DOMAIN calls : q \in Members(calls[i])
        BY <3>1
      <4>2. i \in DOMAIN AllCalls /\ AllCalls[i] = calls[i]
        BY <1>1, AllCallsIs
      <4> QED BY <4>1, <4>2
    <3>2. CASE pc = "fill" /\ q \in Members(open)
      <4>1. Len(calls) + 1 \in DOMAIN AllCalls /\ AllCalls[Len(calls) + 1] = open
        BY <1>1, <3>2, AllCallsIs
      <4> QED BY <3>2, <4>1
    <3> QED BY <1>1, <3>1, <3>2 DEF IInv, Covered
  <2>3. UNION {Members(AllCalls[i]) : i \in DOMAIN AllCalls} = 1..(k - 1)
    BY <2>1, <2>2
  <2>4. ASSUME NEW i \in DOMAIN AllCalls, NEW j \in DOMAIN AllCalls,
               NEW a \in DOMAIN AllCalls[i].questions, NEW b \in DOMAIN AllCalls[j].questions,
               i < j \/ (i = j /\ a < b)
        PROVE  AllCalls[i].questions[a] < AllCalls[j].questions[b]
    <3>1. CASE pc # "fill"
      BY <1>1, <2>4, <3>1, AllCallsIs DEF IInv, Taken
    <3>2. CASE pc = "fill" /\ j \in DOMAIN calls
      <4>1. i \in DOMAIN calls /\ AllCalls[i] = calls[i] /\ AllCalls[j] = calls[j]
        BY <1>1, <2>4, <3>2, AllCallsIs
      <4> QED BY <1>1, <2>4, <3>2, <4>1 DEF IInv, Taken
    <3>3. CASE pc = "fill" /\ j \notin DOMAIN calls /\ i \in DOMAIN calls
      <4>1. AllCalls[i] = calls[i] /\ AllCalls[j] = open
        BY <1>1, <3>3, AllCallsIs
      <4> QED BY <1>1, <3>3, <4>1 DEF IInv, TakenByOpen
    <3>4. CASE pc = "fill" /\ j \notin DOMAIN calls /\ i \notin DOMAIN calls
      <4>1. i = j /\ AllCalls[i] = open /\ AllCalls[j] = open
        BY <1>1, <3>4, AllCallsIs
      <4>2. a \in DOMAIN open.questions /\ b \in DOMAIN open.questions /\ a < b
        BY <4>1, <2>4, AllCallsIs, <1>1, <3>4
      <4>3. open.questions[a] < open.questions[b]
        BY <1>1, <3>4, <4>2 DEF IInv, TakenByOpen
      <4> QED BY <4>1, <4>3
    <3> QED BY <3>1, <3>2, <3>3, <3>4
  <2>5. pc = "done" => k = Len(tails) + 1
    BY <1>1 DEF IInv, Taken
  <2> QED BY <2>3, <2>4, <2>5 DEF QuestionsOnce
<1> QED BY <1>1, Invariant, PTL

\* A call of several questions fits the call budget, counted in the tokens of its
\* prefix tree.
THEOREM CallsFit == SafeSpec => []CallsFitBudget
<1>1. ASSUME IInv PROVE CallsFitBudget
  <2> SUFFICES ASSUME NEW i \in DOMAIN AllCalls PROVE FitsCall(AllCalls[i])
    BY DEF CallsFitBudget
  <2>1. CASE pc # "fill"
    BY <1>1, <2>1, AllCallsIs DEF IInv, AllFit
  <2>2. CASE pc = "fill" /\ i \in DOMAIN calls
    BY <1>1, <2>2, AllCallsIs DEF IInv, AllFit
  <2>3. CASE pc = "fill" /\ i \notin DOMAIN calls
    <3>1. AllCalls[i] = open
      BY <1>1, <2>3, AllCallsIs
    <3> QED BY <1>1, <2>3, <3>1 DEF IInv, Counted
  <2> QED BY <2>1, <2>2, <2>3
<1> QED BY <1>1, Invariant, PTL

-----------------------------------------------------------------------------
(* No piece and no call that is not needed *)

\* Once the pieces are read, the rest of the state leaves room for a question.
RoomLeft == pc \in {"questions", "fill"} => pos = P \/ ~TooLong(P - pos)

PieceInv == PiecesOnlyWhenNeeded /\ RoomLeft

\* TooLong compares with the cheapest question, RoomBeside asks for any.
LEMMA TooLongIsNoRoom ==
  ASSUME input \in Inputs, NEW n \in Nat
  PROVE  /\ TooLong(n) => ~RoomBeside(n)
         /\ ~TooLong(n) => RoomBeside(n)
<1>1. /\ tails \in Seq(Seq(Int)) /\ input.call_budget \in Nat
      /\ \A q \in DOMAIN tails : Len(tails[q]) \in Nat
      /\ tails = <<>> => DOMAIN tails = {}
  BY Arguments
<1> QED BY <1>1 DEF TooLong, RoomBeside, Questions

\* With the same calls each piece is needed as it was.
LEMMA NeededUnmoved ==
  ASSUME UNCHANGED <<input, calls>>, PiecesOnlyWhenNeeded
  PROVE  PiecesOnlyWhenNeeded'
<1> QED
  BY DEF PiecesOnlyWhenNeeded, NeededPiece, StateTokens, RoomBeside, Questions,
         tails, P

\* The step of a call that joins the result.
LEMMA PieceAppended ==
  ASSUME IInv, UNCHANGED input, NEW c \in CallSet, calls' = Append(calls, c),
         PiecesOnlyWhenNeeded, NeededPiece(c)
  PROVE  PiecesOnlyWhenNeeded'
<1> DEFINE t == calls'
<1>1. /\ Len(calls) \in Nat
      /\ DOMAIN calls = 1..Len(calls)
      /\ DOMAIN t = 1..(Len(calls) + 1)
      /\ \A i \in 1..Len(calls) : t[i] = calls[i]
      /\ t[Len(calls) + 1] = c
  BY Appended DEF IInv, TypeOK
<1> HIDE DEF t
<1>2. ASSUME NEW i \in DOMAIN t PROVE NeededPiece(t[i])
  <2>1. CASE i \in DOMAIN calls
    BY <1>1, <2>1 DEF PiecesOnlyWhenNeeded
  <2>2. CASE i = Len(calls) + 1
    BY <1>1, <2>2
  <2> QED BY <1>1, <1>2, <2>1, <2>2
<1> QED
  BY <1>2 DEF t, PiecesOnlyWhenNeeded, NeededPiece, StateTokens, RoomBeside,
              Questions, tails, P

\* Every step keeps each piece of the state, and each call, one that is needed.
LEMMA PieceStep == IInv /\ PieceInv /\ [Next]_vars => PieceInv'
<1> SUFFICES ASSUME IInv, PieceInv, [Next]_vars PROVE PieceInv'
  OBVIOUS
<1>1. /\ input \in Inputs /\ P \in Nat /\ pos \in Nat /\ pos <= P
      /\ input.piece_budget \in Nat \ {0} /\ input.call_budget \in Nat
  BY Arguments DEF IInv, TypeOK
<1>2. CASE ReadPiece
  <2> DEFINE c == Call(pos, pos + Piece, <<>>)
  <2>1. /\ Piece \in Nat \ {0} /\ Piece <= input.piece_budget
        /\ c \in CallSet /\ calls' = Append(calls, c)
        /\ c.state_from = pos /\ c.questions = <<>> /\ c.state_to = pos + Piece
        /\ pc = "pieces" /\ pc' = "pieces" /\ input' = input /\ TooLong(P - pos)
    BY <1>1, <1>2 DEF ReadPiece, Piece, Call, CallSet
  <2> HIDE DEF c
  <2>2. StateTokens(c) = Piece
    BY <1>1, <2>1 DEF StateTokens
  <2>3. NeededPiece(c)
    BY <1>1, <2>1, <2>2, TooLongIsNoRoom DEF NeededPiece
  <2> QED BY <2>1, <2>3, PieceAppended DEF PieceInv, RoomLeft
<1>3. CASE EndPieces
  <2>1. /\ pc = "pieces" /\ pc' = "questions" /\ UNCHANGED <<input, pos, calls>>
        /\ ~(pos < P /\ TooLong(P - pos))
    BY <1>3 DEF EndPieces, MorePieces
  <2>2. PiecesOnlyWhenNeeded'
    BY <2>1, NeededUnmoved DEF PieceInv
  <2>3. RoomLeft'
    BY <1>1, <2>1 DEF RoomLeft, TooLong, Questions, tails, P
  <2> QED BY <2>2, <2>3 DEF PieceInv
<1>4. CASE OpenCall \/ TakeQuestion
  <2>1. /\ pc \in {"questions", "fill"} /\ pc' = "fill" /\ UNCHANGED <<input, pos, calls>>
    BY <1>4 DEF OpenCall, TakeQuestion
  <2>2. PiecesOnlyWhenNeeded'
    BY <2>1, NeededUnmoved DEF PieceInv
  <2>3. RoomLeft'
    BY <2>1 DEF PieceInv, RoomLeft, TooLong, Questions, tails, P
  <2> QED BY <2>2, <2>3 DEF PieceInv
<1>5. CASE CloseCall
  <2>1. /\ pc = "fill" /\ pc' = "questions" /\ ~Joins
        /\ calls' = Append(calls, open) /\ pos' = P /\ input' = input
        /\ open \in CallSet
        /\ open.state_from = pos /\ open.state_to = P
        /\ open.questions = <<>> => k <= Len(tails)
    BY <1>5 DEF CloseCall, IInv, Counted, TypeOK
  <2>2. open.questions # <<>>
    BY <2>1 DEF Joins, Full
  <2>3. StateTokens(open) = P - pos
    BY <2>1 DEF StateTokens
  <2>4. NeededPiece(open)
    BY <1>1, <2>1, <2>2, <2>3, TooLongIsNoRoom DEF NeededPiece, PieceInv, RoomLeft
  <2>5. RoomLeft'
    BY <2>1 DEF RoomLeft, P
  <2> QED BY <2>1, <2>4, <2>5, PieceAppended DEF PieceInv
<1>6. CASE Finish
  <2>1. /\ pc = "questions" /\ pc' = "done" /\ input' = input
        /\ calls' = calls \o LastPiece /\ calls \in Seq(CallSet)
    BY <1>6 DEF Finish, IInv, TypeOK
  <2>2. RoomLeft'
    BY <2>1 DEF RoomLeft
  <2>3. CASE LastPiece = <<>>
    <3>1. calls' = calls
      BY <2>1, <2>3
    <3> QED BY <2>1, <2>2, <3>1, NeededUnmoved DEF PieceInv
  <2>4. CASE LastPiece # <<>>
    <3> DEFINE c == Call(pos, P, <<>>)
    <3>1. /\ tails = <<>> /\ pos < P /\ LastPiece = <<c>>
      BY <2>4 DEF LastPiece
    <3>2. /\ c \in CallSet /\ c.state_from = pos /\ c.state_to = P /\ c.questions = <<>>
      BY <1>1 DEF Call, CallSet
    <3> HIDE DEF c
    <3>3. calls' = Append(calls, c)
      BY <2>1, <3>1, <3>2, AppendIsConcat
    <3>4. RoomBeside(P - pos)
      BY <1>1, <2>1, <3>1, TooLongIsNoRoom DEF PieceInv, RoomLeft
    <3>5. NeededPiece(c)
      BY <1>1, <3>1, <3>2, <3>4 DEF NeededPiece, StateTokens
    <3>6. PiecesOnlyWhenNeeded'
      BY <2>1, <3>2, <3>3, <3>5, PieceAppended DEF PieceInv
    <3> QED BY <2>2, <3>6 DEF PieceInv
  <2> QED BY <2>3, <2>4
<1>7. CASE UNCHANGED vars
  <2>1. UNCHANGED <<input, pos, calls, pc, k, open>>
    BY <1>7 DEF vars
  <2>2. RoomLeft'
    BY <2>1 DEF PieceInv, RoomLeft, TooLong, Questions, tails, P
  <2>3. PiecesOnlyWhenNeeded'
    BY <2>1, NeededUnmoved DEF PieceInv
  <2> QED BY <2>2, <2>3 DEF PieceInv
<1> QED BY <1>2, <1>3, <1>4, <1>5, <1>6, <1>7 DEF Next

\* A piece of the state goes alone only when no question fits beside what is
\* left of it.
THEOREM PiecesAreNeeded == SafeSpec => []PiecesOnlyWhenNeeded
<1>1. Init => PieceInv
  BY DEF Init, PieceInv, PiecesOnlyWhenNeeded, RoomLeft
<1>2. PieceInv => PiecesOnlyWhenNeeded
  BY DEF PieceInv
<1> QED BY <1>1, <1>2, PieceStep, Invariant, PTL DEF SafeSpec

\* Between neighbours, and between the last call of the result and the question
\* the next one begins with.
Neighbours ==
  \A i \in 1..(Len(calls) - 1) :
    calls[i].questions # <<>> /\ calls[i + 1].questions # <<>> =>
      NoRoomFor(calls[i], calls[i + 1].questions[1])
Coming == IF pc = "fill" /\ open.questions # <<>> THEN open.questions[1] ELSE k
LastHadNoRoom ==
  /\ pc \in {"questions", "fill"}
  /\ calls # <<>>
  /\ calls[Len(calls)].questions # <<>>
  /\ pc = "questions" => k <= Len(tails)
  => NoRoomFor(calls[Len(calls)], Coming)
CallInv == Neighbours /\ LastHadNoRoom
           /\ (pc = "pieces" => \A i \in DOMAIN calls : calls[i].questions = <<>>)

\* An index is the last or one before it.
LEMMA LastOrBefore ==
  ASSUME NEW n \in Nat, NEW i \in 1..n
  PROVE  i \in 1..(n - 1) \/ i = n
  OBVIOUS

\* A call appended for want of room in the last keeps neighbours apart.
LEMMA NeighboursAppended ==
  ASSUME IInv, Neighbours, UNCHANGED input, NEW c \in CallSet, calls' = Append(calls, c),
         /\ calls # <<>> /\ calls[Len(calls)].questions # <<>> /\ c.questions # <<>>
         => NoRoomFor(calls[Len(calls)], c.questions[1])
  PROVE  Neighbours' /\ calls'[Len(calls')] = c /\ calls' # <<>>
<1> DEFINE t == calls'
<1>1. /\ t # <<>>
      /\ Len(calls) \in Nat
      /\ Len(t) = Len(calls) + 1
      /\ DOMAIN calls = 1..Len(calls)
      /\ \A i \in 1..Len(calls) : t[i] = calls[i]
      /\ t[Len(calls) + 1] = c
      /\ calls = <<>> <=> Len(calls) = 0
  BY Appended DEF IInv, TypeOK
<1> HIDE DEF t
<1>5. 1..(Len(t) - 1) = 1..Len(calls)
  <2>1. Len(t) - 1 = Len(calls)
    BY <1>1
  <2> QED BY <2>1
<1>2. ASSUME NEW i \in 1..Len(calls), t[i].questions # <<>>, t[i + 1].questions # <<>>
      PROVE  NoRoomFor(t[i], t[i + 1].questions[1])
  <2>1. CASE i \in 1..(Len(calls) - 1)
    <3>1. i \in 1..Len(calls) /\ i + 1 \in 1..Len(calls)
      BY <1>1, <2>1
    <3>2. t[i] = calls[i] /\ t[i + 1] = calls[i + 1]
      BY <1>1, <3>1
    <3> QED BY <1>2, <2>1, <3>2 DEF Neighbours
  <2>2. CASE i = Len(calls)
    <3>1. t[i] = calls[Len(calls)] /\ t[i + 1] = c /\ calls # <<>>
      BY <1>1, <1>2, <2>2
    <3> QED BY <1>2, <3>1
  <2>3. i \in 1..(Len(calls) - 1) \/ i = Len(calls)
    BY <1>1, LastOrBefore
  <2> QED BY <2>1, <2>2, <2>3
<1>3. \A c1, q : NoRoomFor(c1, q) <=> NoRoomFor(c1, q)'
  BY DEF NoRoomFor, Reads, StateTokens, Members, tails
<1>4. Neighbours'
  BY <1>2, <1>5 DEF Neighbours, t, NoRoomFor, Reads, StateTokens, Members, tails
<1> QED BY <1>1, <1>4 DEF t

\* Every step keeps neighbouring calls apart: the first question of one found no room in the
\* call before.
LEMMA CallStep == IInv /\ CallInv /\ [Next]_vars => CallInv'
<1> SUFFICES ASSUME IInv, CallInv, [Next]_vars PROVE CallInv'
  OBVIOUS
<1>1. Neighbours /\ LastHadNoRoom /\ calls \in Seq(CallSet)
  BY DEF CallInv, IInv, TypeOK
<1>2. CASE ReadPiece
  <2> DEFINE c == Call(pos, pos + Piece, <<>>)
  <2>0. /\ P \in Nat /\ pos \in Nat /\ pos < P /\ input.piece_budget \in Nat \ {0}
    BY <1>2, Arguments DEF ReadPiece, IInv, TypeOK
  <2>9. Piece \in Nat
    BY <2>0 DEF Piece
  <2>1. /\ c \in CallSet /\ c.questions = <<>>
    BY <2>0, <2>9 DEF Call, CallSet
  <2>2. calls' = Append(calls, c) /\ pc = "pieces" /\ pc' = "pieces" /\ input' = input
    BY <1>2 DEF ReadPiece
  <2> HIDE DEF c
  <2>3. Neighbours'
    BY <1>1, <2>1, <2>2, NeighboursAppended
  <2>4. \A i \in DOMAIN calls' : calls'[i].questions = <<>>
    <3> DEFINE t == calls'
    <3>1. /\ DOMAIN calls = 1..Len(calls)
          /\ DOMAIN t = 1..(Len(calls) + 1)
          /\ Len(calls) \in Nat
          /\ \A i \in 1..Len(calls) : t[i] = calls[i]
          /\ t[Len(calls) + 1] = c
      BY <1>1, <2>1, <2>2, Appended
    <3> HIDE DEF t
    <3> QED BY <2>1, <2>2, <3>1 DEF CallInv, t
  <2> QED BY <2>2, <2>3, <2>4 DEF CallInv, LastHadNoRoom
<1>3. CASE EndPieces
  <2>1. /\ pc = "pieces" /\ pc' = "questions" /\ UNCHANGED <<input, calls>>
    BY <1>3 DEF EndPieces
  <2>2. calls # <<>> => calls[Len(calls)].questions = <<>>
    BY <1>1, <2>1, EmptySeq DEF CallInv
  <2>5. Neighbours'
    BY <1>1, <2>1 DEF CallInv, Neighbours, NoRoomFor, Reads, StateTokens, Members, tails
  <2>6. LastHadNoRoom'
    BY <1>1, <2>1, <2>2 DEF CallInv, LastHadNoRoom, NoRoomFor, Reads, StateTokens, Members, tails
  <2> QED BY <2>1, <2>5, <2>6 DEF CallInv
<1>4. CASE OpenCall
  <2>1. /\ pc = "questions" /\ pc' = "fill" /\ k <= Len(tails) /\ UNCHANGED <<input, calls, k>>
        /\ open'.questions = <<>>
    BY <1>4 DEF OpenCall, Call
  <2>2. Coming = k /\ Coming' = k
    BY <2>1 DEF Coming
  <2>5. Neighbours'
    BY <1>1, <2>1 DEF CallInv, Neighbours, NoRoomFor, Reads, StateTokens, Members, tails
  <2>6. LastHadNoRoom'
    BY <1>1, <2>1, <2>2 DEF CallInv, LastHadNoRoom, NoRoomFor, Reads, StateTokens, Members, tails
  <2> QED BY <2>1, <2>5, <2>6 DEF CallInv
<1>5. CASE TakeQuestion
  <2>1. /\ pc = "fill" /\ pc' = "fill" /\ UNCHANGED <<input, calls>>
        /\ open'.questions = Append(open.questions, k)
        /\ open.questions \in Seq(Nat) /\ k \in Nat
    BY <1>5 DEF TakeQuestion, IInv, TypeOK, CallSet
  <2>2. Coming' = Coming
    <3>1. CASE open.questions = <<>>
      BY <2>1, <3>1 DEF Coming
    <3>2. CASE open.questions # <<>>
      <4>1. open'.questions # <<>> /\ open'.questions[1] = open.questions[1]
        BY <2>1, <3>2, AppendProperties, EmptySeq
      <4> QED BY <2>1, <3>2, <4>1 DEF Coming
    <3> QED BY <3>1, <3>2
  <2>5. Neighbours'
    BY <1>1, <2>1 DEF CallInv, Neighbours, NoRoomFor, Reads, StateTokens, Members, tails
  <2>6. LastHadNoRoom'
    BY <1>1, <2>1, <2>2 DEF CallInv, LastHadNoRoom, NoRoomFor, Reads, StateTokens, Members, tails
  <2> QED BY <2>1, <2>5, <2>6 DEF CallInv
<1>6. CASE CloseCall
  <2>1. /\ pc = "fill" /\ pc' = "questions" /\ ~Joins
        /\ calls' = Append(calls, open) /\ UNCHANGED <<input, k, open>>
        /\ open \in CallSet
        /\ open.state_from = pos /\ open.state_to = P
        /\ used = (P - pos) + TreeTokens(tails, Members(open))
    BY <1>6 DEF CloseCall, IInv, Counted, TypeOK
  <2>2. Neighbours' /\ calls'[Len(calls')] = open /\ calls' # <<>>
    BY <1>1, <2>1, NeighboursAppended DEF LastHadNoRoom, Coming
  <2>3. ASSUME k <= Len(tails) PROVE NoRoomFor(open, k)
    <3>1. Full
      BY <2>1, <2>3 DEF Joins
    <3>2. /\ cost \in Nat /\ TreeTokens(tails, Members(open)) \in Nat
          /\ TreeTokens(tails, Members(open) \union {k}) = TreeTokens(tails, Members(open)) + cost
      BY <2>1, <2>3, CostIsGrowth
    <3>3. P \in Nat /\ pos \in Nat /\ input.call_budget \in Nat
      BY Arguments DEF IInv, TypeOK
    <3>4. Reads(open, Members(open) \union {k}) = used + cost
      BY <2>1, <3>2, <3>3 DEF Reads, StateTokens
    <3> QED BY <3>1, <3>4 DEF Full, NoRoomFor
  <2>4. Coming' = k /\ tails' = tails
    BY <2>1 DEF Coming, tails
  <2>5. LastHadNoRoom'
    BY <2>1, <2>2, <2>3, <2>4 DEF LastHadNoRoom, NoRoomFor, Reads, StateTokens, Members
  <2> QED BY <2>1, <2>2, <2>5 DEF CallInv
<1>7. CASE Finish
  <2>1. /\ pc = "questions" /\ pc' = "done" /\ UNCHANGED input /\ calls' = calls \o LastPiece
    BY <1>7 DEF Finish
  <2>2. CASE LastPiece = <<>>
    <3>1. calls' = calls
      BY <1>1, <2>1, <2>2
    <3> QED BY <1>1, <2>1, <3>1 DEF CallInv, LastHadNoRoom, Neighbours, NoRoomFor, Reads,
                                    StateTokens, Members, tails
  <2>3. CASE LastPiece # <<>>
    <3> DEFINE c == Call(pos, P, <<>>)
    <3>1. /\ c \in CallSet /\ c.questions = <<>> /\ LastPiece = <<c>>
      BY <2>3, Arguments DEF LastPiece, Call, CallSet, IInv, TypeOK
    <3> HIDE DEF c
    <3>2. calls' = Append(calls, c)
      BY <1>1, <2>1, <3>1, AppendIsConcat
    <3>3. Neighbours'
      BY <1>1, <2>1, <3>1, <3>2, NeighboursAppended
    <3> QED BY <2>1, <3>3 DEF CallInv, LastHadNoRoom
  <2> QED BY <2>2, <2>3
<1>8. CASE UNCHANGED vars
  BY <1>1, <1>8 DEF vars, CallInv, LastHadNoRoom, Coming, Neighbours, NoRoomFor, Reads, StateTokens,
                    Members, tails
<1> QED BY <1>2, <1>3, <1>4, <1>5, <1>6, <1>7, <1>8 DEF Next

\* No call could have taken the question the call after it begins with.
THEOREM CallsAreNeeded == SafeSpec => []NoNeedlessCall
<1>1. Init => CallInv
  BY DEF Init, CallInv, Neighbours, LastHadNoRoom
<1>2. IInv /\ CallInv => NoNeedlessCall
  <2> SUFFICES ASSUME IInv, CallInv, NEW i \in 1..(Len(AllCalls) - 1),
                      AllCalls[i].questions # <<>>, AllCalls[i + 1].questions # <<>>
               PROVE  NoRoomFor(AllCalls[i], AllCalls[i + 1].questions[1])
    BY DEF NoNeedlessCall
  <2>1. CASE pc # "fill"
    BY <2>1, AllCallsIs DEF CallInv, Neighbours
  <2>2. CASE pc = "fill" /\ i < Len(calls)
    <3>1. i \in 1..(Len(calls) - 1) /\ AllCalls[i] = calls[i] /\ AllCalls[i + 1] = calls[i + 1]
      BY <2>2, AllCallsIs
    <3> QED BY <3>1 DEF CallInv, Neighbours
  <2>3. CASE pc = "fill" /\ ~(i < Len(calls))
    <3>0. Len(calls) \in Nat /\ Len(AllCalls) = Len(calls) + 1
      BY <2>3, AllCallsIs DEF IInv, TypeOK
    <3>2. i = Len(calls) /\ i \in 1..Len(calls)
      BY <2>3, <3>0
    <3>1. i = Len(calls) /\ AllCalls[i] = calls[Len(calls)] /\ AllCalls[i + 1] = open /\ calls # <<>>
      BY <2>3, <3>0, <3>2, AllCallsIs
    <3> QED BY <2>3, <3>1 DEF CallInv, LastHadNoRoom, Coming
  <2> QED BY <2>1, <2>2, <2>3
<1> QED BY <1>1, <1>2, CallStep, Invariant, PTL DEF SafeSpec

-----------------------------------------------------------------------------
\* The state and the questions are read whole, in order and once.
THEOREM AllIsReadInOrder == SafeSpec => []AllReadInOrder
BY StateIsReadInOrder, QuestionsAreTakenOnce, PTL DEF AllReadInOrder

\* No piece and no call but those the budgets require.
THEOREM NothingIsNeedless == SafeSpec => []NothingNeedless
BY PiecesAreNeeded, CallsAreNeeded, PTL DEF NothingNeedless

-----------------------------------------------------------------------------
(* The trees of the calls *)

\* Where two sequences agree, the start of one and the rest of the other make the other.
LEMMA Glue ==
  ASSUME NEW a \in Seq(Int), NEW b \in Seq(Int), NEW m \in Nat, NEW n \in Nat,
         m <= n, m <= Len(a), n <= Len(b), \A i \in 1..m : a[i] = b[i]
  PROVE  SubSeq(a, 1, m) \o SubSeq(b, m + 1, n) = SubSeq(b, 1, n)
<1> DEFINE x == SubSeq(a, 1, m)
           y == SubSeq(b, m + 1, n)
           z == SubSeq(b, 1, n)
<1>1. x \in Seq(Int) /\ Len(x) = m /\ \A i \in 1..m : x[i] = b[i]
  BY SubSeqIsStart
<1>2. z \in Seq(Int) /\ Len(z) = n /\ \A i \in 1..n : z[i] = b[i]
  BY SubSeqIsStart
<1>3. y \in Seq(Int) /\ Len(y) = n - m /\ \A i \in 1..(n - m) : y[i] = b[m + i]
  <2>1. \A i \in (m + 1)..n : b[i] \in Int
    OBVIOUS
  <2>2. m + 1 \in Int /\ n \in Int
    OBVIOUS
  <2>3. /\ y \in Seq(Int) /\ Len(y) = IF m + 1 <= n THEN n - (m + 1) + 1 ELSE 0
        /\ \A i \in 1..(n - (m + 1) + 1) : y[i] = b[(m + 1) + i - 1]
    BY <2>1, <2>2, SubSeqProperties
  <2> HIDE DEF y
  <2>4. n - (m + 1) + 1 = n - m /\ \A i \in Nat : (m + 1) + i - 1 = m + i
    OBVIOUS
  <2> QED BY <2>3, <2>4
<1> HIDE DEF x, y, z
<1>4. /\ x \o y \in Seq(Int) /\ Len(x \o y) = Len(x) + Len(y)
      /\ \A i \in 1..(Len(x) + Len(y)) : (x \o y)[i] = IF i <= Len(x) THEN x[i] ELSE y[i - Len(x)]
  <2>1. x \in Seq(Int) /\ y \in Seq(Int)
    BY <1>1, <1>3
  <2> QED BY ONLY <2>1, ConcatProperties
<1> DEFINE w == x \o y
<1>5. w \in Seq(Int) /\ Len(w) = n /\ \A i \in 1..n : w[i] = IF i <= m THEN x[i] ELSE y[i - m]
  <2>1. m + (n - m) = n
    OBVIOUS
  <2> QED BY <1>1, <1>3, <1>4, <2>1
<1> HIDE DEF w
<1>6. ASSUME NEW i \in 1..n PROVE w[i] = z[i]
  <2>1. CASE i <= m
    <3>1. w[i] = x[i] /\ x[i] = b[i]
      BY <1>1, <1>5, <2>1
    <3> QED BY <1>2, <3>1
  <2>2. CASE ~(i <= m)
    <3>1. w[i] = y[i - m] /\ i - m \in 1..(n - m) /\ m + (i - m) = i
      BY <1>5, <2>2
    <3>2. y[i - m] = b[i]
      BY <1>3, <3>1
    <3> QED BY <1>2, <3>1, <3>2
  <2> QED BY <2>1, <2>2
<1>7. w = z
  BY <1>2, <1>5, <1>6, SeqEqual
<1> QED BY <1>7 DEF w, x, y, z

\* The path to a node spells its question up to the node's end.
LEMMA PathIs ==
  ASSUME QuestionTails(OpenTails), NEW t, TreeInv(OpenTails, t), NEW n \in DOMAIN t.nodes
  PROVE  Path(t, n) = SubSeq(OpenTails[t.nodes[n].prompt], 1, t.nodes[n].to)
<1> DEFINE O == OpenTails
           nodes == t.nodes
           Spelt(m) == IF m = NO_PARENT THEN <<>> ELSE SubSeq(O[nodes[m].prompt], 1, nodes[m].to)
           Under(g, m) == g[nodes[m].parent] \o SubSeq(O[nodes[m].prompt], nodes[m].from + 1, nodes[m].to)
           Unfolds(g) == g = [m \in 0..n |-> IF m = NO_PARENT THEN <<>> ELSE Under(g, m)]
           path == CHOOSE g : Unfolds(g)
<1>1. nodes \in Seq(NodeSet(O)) /\ NodesInv(O, nodes)
  BY DEF TreeInv, TreeSet
<1>2. Len(nodes) \in Nat /\ DOMAIN nodes = 1..Len(nodes) /\ n \in Nat /\ n # 0 /\ n <= Len(nodes)
  BY <1>1
<1>3. \A m \in 1..n : nodes[m] \in NodeSet(O) /\ m \in DOMAIN nodes
  BY <1>1, <1>2
<1>4. ASSUME NEW m \in 1..n
      PROVE  /\ nodes[m].parent \in 0..(m - 1)
             /\ nodes[m].from \in Nat /\ nodes[m].to \in Nat /\ nodes[m].from < nodes[m].to
             /\ nodes[m].to <= Len(O[nodes[m].prompt])
             /\ nodes[m].prompt \in DOMAIN O
             /\ Reaches(O, nodes, nodes[m].parent, nodes[m].prompt, nodes[m].from)
  <2>1. nodes[m].parent \in Nat /\ nodes[m].from \in Nat /\ nodes[m].to \in Nat /\ nodes[m].prompt \in DOMAIN O
    BY <1>3 DEF NodeSet
  <2>2. /\ nodes[m].parent < m
        /\ nodes[m].from < nodes[m].to
        /\ nodes[m].to <= Len(O[nodes[m].prompt])
        /\ Reaches(O, nodes, nodes[m].parent, nodes[m].prompt, nodes[m].from)
    BY <1>1, <1>3 DEF NodesInv
  <2> QED BY <2>1, <2>2
<1> HIDE DEF O, nodes
<1>5. ASSUME NEW m \in 1..n
      PROVE  Spelt(nodes[m].parent) \o SubSeq(O[nodes[m].prompt], nodes[m].from + 1, nodes[m].to)
               = SubSeq(O[nodes[m].prompt], 1, nodes[m].to)
  <2> DEFINE p == nodes[m].parent
             b == O[nodes[m].prompt]
             from == nodes[m].from
             to == nodes[m].to
  <2>1. /\ p \in 0..(m - 1) /\ from \in Nat /\ to \in Nat /\ from < to /\ to <= Len(b)
        /\ Reaches(O, nodes, p, nodes[m].prompt, from)
    BY <1>4
  <2>2. b \in Seq(Int) /\ Len(b) \in Nat
    BY <1>4, QuestionsFinite DEF O
  <2>3. CASE p = 0
    <3>1. from = 0 /\ \A i \in 1..0 : FALSE
      BY <2>1, <2>3 DEF Reaches, NO_PARENT
    <3>2. Spelt(p) = SubSeq(b, 1, 0)
      <4>1. SubSeq(b, 1, 0) = <<>>
        BY SubSeqEmpty
      <4> QED BY <2>3, <4>1 DEF NO_PARENT
    <3> HIDE DEF b, from, to, Spelt, p
    <3>3. SubSeq(b, 1, 0) \o SubSeq(b, 0 + 1, to) = SubSeq(b, 1, to)
      BY <2>1, <2>2, Glue
    <3> QED BY <3>1, <3>2, <3>3 DEF b, from, to, p
  <2>4. CASE p # 0
    <3> DEFINE a == O[nodes[p].prompt]
    <3>1. p \in 1..n
      <4> HIDE DEF p
      <4> QED BY <1>2, <2>1, <2>4
    <3>2. a \in Seq(Int) /\ nodes[p].to <= Len(a)
      BY <1>4, <3>1, QuestionsFinite DEF O
    <3>3. nodes[p].to = from /\ \A i \in 1..from : a[i] = b[i]
      BY <2>1, <2>4 DEF Reaches, NO_PARENT
    <3>4. Spelt(p) = SubSeq(a, 1, from)
      BY <2>4, <3>3 DEF NO_PARENT
    <3> HIDE DEF a, b, from, to, Spelt, p
    <3>5. SubSeq(a, 1, from) \o SubSeq(b, from + 1, to) = SubSeq(b, 1, to)
      BY <2>1, <2>2, <3>2, <3>3, Glue
    <3> QED BY <3>4, <3>5 DEF b, from, to, p
  <2> QED BY <2>3, <2>4
<1>6. \E g : Unfolds(g)
  <2> DEFINE g == [m \in 0..n |-> Spelt(m)]
  <2>1. ASSUME NEW m \in 0..n PROVE g[m] = IF m = NO_PARENT THEN <<>> ELSE Under(g, m)
    <3>1. CASE m = 0
      BY <3>1 DEF NO_PARENT
    <3>2. CASE m # 0
      <4>1. m \in 1..n /\ nodes[m].parent \in 0..n
        BY <1>2, <1>4, <3>2
      <4>2. g[nodes[m].parent] = Spelt(nodes[m].parent) /\ g[m] = Spelt(m)
        BY <4>1
      <4>3. Spelt(m) = SubSeq(O[nodes[m].prompt], 1, nodes[m].to)
        BY <3>2 DEF NO_PARENT
      <4> HIDE DEF g, Spelt
      <4> QED BY <1>5, <3>2, <4>1, <4>2, <4>3 DEF NO_PARENT
    <3> QED BY <3>1, <3>2
  <2>2. g = [m \in 0..n |-> g[m]]
    OBVIOUS
  <2> HIDE DEF g, Under
  <2>3. Unfolds(g)
    BY <2>1, <2>2
  <2> QED BY <2>3
<1>7. Unfolds(path)
  <2> HIDE DEF Unfolds
  <2> QED BY <1>6
<1>8. Path(t, n) = path[n]
  BY DEF Path, O, nodes
<1> HIDE DEF path
<1>9. \A m \in 0..n : path[m] = IF m = NO_PARENT THEN <<>> ELSE Under(path, m)
  <2> HIDE DEF Under
  <2> QED BY <1>7
<1> HIDE DEF Unfolds
<1> DEFINE T == {m \in 0..n : path[m] # Spelt(m)}
<1>10. T = {}
  <2> SUFFICES ASSUME T # {} PROVE FALSE
    OBVIOUS
  <2>1. PICK m \in T : \A l \in T : ~(l < m)
    <3>1. T \in SUBSET Nat
      OBVIOUS
    <3> HIDE DEF T
    <3> QED BY <3>1, Least
  <2>2. m \in 0..n /\ path[m] # Spelt(m)
    BY <2>1
  <2>3. m # 0
    BY <1>9, <2>2 DEF NO_PARENT
  <2>4. m \in 1..n /\ nodes[m].parent \in 0..n /\ nodes[m].parent < m
    BY <1>2, <1>4, <2>2, <2>3
  <2>5. path[nodes[m].parent] = Spelt(nodes[m].parent)
    BY <2>1, <2>4
  <2>6. path[m] = path[nodes[m].parent] \o SubSeq(O[nodes[m].prompt], nodes[m].from + 1, nodes[m].to)
    BY <1>9, <2>2, <2>3 DEF NO_PARENT
  <2>7. Spelt(m) = SubSeq(O[nodes[m].prompt], 1, nodes[m].to)
    BY <2>3 DEF NO_PARENT
  <2> HIDE DEF Spelt
  <2> QED BY <1>5, <2>2, <2>4, <2>5, <2>6, <2>7
<1>11. path[n] = Spelt(n)
  BY <1>2, <1>10
<1> QED BY <1>2, <1>8, <1>11 DEF NO_PARENT, O, nodes

\* The questions of the open call are some of the arguments', each once.
LEMMA OpenTailsAre ==
  ASSUME IInv, pc = "fill"
  PROVE  /\ QuestionTails(OpenTails)
         /\ TreeTokens(OpenTails, DOMAIN OpenTails) = TreeTokens(tails, Members(open))
<1> DEFINE qs == open.questions
           Q == DOMAIN qs
           O == OpenTails
<1>1. open \in CallSet /\ qs \in Seq(Nat) /\ Len(qs) \in Nat /\ Q = 1..Len(qs)
  BY DEF IInv, TypeOK, CallSet
<1>2. tails \in Seq(Seq(Int)) /\ \A q \in DOMAIN tails : tails[q] # <<>>
  BY Arguments DEF IInv
<1>3. DOMAIN tails = 1..Len(tails) /\ Len(tails) \in Nat
  BY <1>2
<1>4. \A i \in Q : qs[i] \in DOMAIN tails
  <2>1. \A i \in Q : qs[i] \in 1..(k - 1)
    BY DEF IInv, TakenByOpen
  <2>2. k \in 1..(Len(tails) + 1)
    BY DEF IInv, TypeOK
  <2> QED BY <1>3, <2>1, <2>2
<1>5. \A i, j \in Q : i < j => qs[i] < qs[j]
  BY DEF IInv, TakenByOpen
<1>6. DOMAIN O = Q /\ \A i \in Q : O[i] = tails[qs[i]]
  BY DEF OpenTails
<1>7. O = [i \in Q |-> O[i]]
  BY DEF OpenTails
<1> DEFINE M == Members(open)
<1>8. M = {qs[i] : i \in Q}
  BY DEF Members
<1> HIDE DEF qs, Q, O, M
<1>9. O \in Seq(Seq(Int))
  <2>1. \A i \in Q : O[i] \in Seq(Int)
    <3>1. \A q \in DOMAIN tails : tails[q] \in Seq(Int)
      BY <1>2
    <3> QED BY <1>4, <1>6, <3>1
  <2>2. O \in [1..Len(qs) -> Seq(Int)]
    BY <1>1, <1>7, <2>1
  <2> QED BY <1>1, <2>2, SeqDef
<1>10. QuestionTails(O)
  BY <1>2, <1>4, <1>6, <1>9 DEF QuestionTails
<1>11. {Starts(O[i]) : i \in Q} = {Starts(tails[m]) : m \in M}
  <2>1. ASSUME NEW i \in Q PROVE \E m \in M : Starts(O[i]) = Starts(tails[m])
    BY <1>6, <1>8
  <2>2. ASSUME NEW m \in M PROVE \E i \in Q : Starts(O[i]) = Starts(tails[m])
    <3>1. PICK i \in Q : m = qs[i]
      BY <1>8
    <3> QED BY <1>6, <3>1
  <2> QED BY <2>1, <2>2
<1>12. Cardinality(Q) = Cardinality(M)
  <2>1. IsFiniteSet(Q)
    BY <1>1, FS_Interval
  <2>2. \A i, j \in Q : qs[i] = qs[j] => i = j
    <3> SUFFICES ASSUME NEW i \in Q, NEW j \in Q, qs[i] = qs[j], i # j PROVE FALSE
      OBVIOUS
    <3>1. i \in Nat /\ j \in Nat /\ qs[i] \in Nat /\ qs[j] \in Nat
      BY <1>1
    <3>2. i < j \/ j < i
      BY <3>1
    <3> QED BY <1>5, <3>1, <3>2
  <2> DEFINE h == [i \in Q |-> qs[i]]
  <2>3. \A i \in Q : h[i] = qs[i]
    OBVIOUS
  <2>4. h \in [Q -> M]
    BY <1>8
  <2>5. \A m \in M : \E i \in Q : h[i] = m
    BY <1>8
  <2> HIDE DEF h
  <2>6. h \in Bijection(Q, M)
    BY <2>2, <2>3, <2>4, <2>5 DEF Bijection, Injection, Surjection, IsInjective
  <2>7. ExistsBijection(Q, M)
    BY <2>6 DEF ExistsBijection
  <2> QED BY <2>1, <2>7, FS_Bijection
<1>13. TreeTokens(O, Q) = TreeTokens(tails, M)
  BY <1>11, <1>12 DEF TreeTokens
<1> QED BY <1>6, <1>10, <1>13 DEF O, M, Q, qs

\* The trees of the planned calls read every question.
LEMMA TreesAre ==
  ASSUME IInv, pc = "fill"
  PROVE  TreesReadQuestions
<1> DEFINE t == OpenTree
           O == OpenTails
           nodes == t.nodes
<1>1. QuestionTails(O) /\ TreeTokens(O, DOMAIN O) = TreeTokens(tails, Members(open))
  BY OpenTailsAre
<1>2. t = prompt_tree(O)
  BY DEF OpenTree
<1> HIDE DEF t, O
<1>3. /\ TreeInv(O, t) /\ t.todo = <<>>
      /\ t.tokens = TreeTokens(O, DOMAIN O)
      /\ \A q \in DOMAIN O : t.leaf[q] # 0
  BY <1>1, <1>2, PromptTreeIsComplete
<1>4. nodes \in Seq(NodeSet(O)) /\ NodesInv(O, nodes) /\ t.leaf \in [DOMAIN O -> Nat]
  BY <1>3 DEF TreeInv, TreeSet
<1>5. \A q \in DOMAIN O : /\ t.leaf[q] \in DOMAIN nodes
                          /\ nodes[t.leaf[q]].prompt = q
                          /\ nodes[t.leaf[q]].to = Len(O[q])
                          /\ nodes[t.leaf[q]].from = Len(O[q]) - 1
  BY <1>3 DEF TreeInv, LeafInv
<1>6. \A n \in DOMAIN nodes : Path(t, n) = SubSeq(O[nodes[n].prompt], 1, nodes[n].to)
  BY <1>1, <1>3, PathIs DEF O
<1>7. ASSUME NEW q \in DOMAIN O
      PROVE  /\ t.leaf[q] # 0
             /\ nodes[t.leaf[q]].to - nodes[t.leaf[q]].from = 1
             /\ Path(t, t.leaf[q]) = O[q]
             /\ \A p \in DOMAIN O \ {q} : t.leaf[p] # t.leaf[q]
  <2>1. O[q] \in Seq(Int) /\ Len(O[q]) \in Nat
    BY <1>1, QuestionsFinite
  <2>2. nodes[t.leaf[q]].to - nodes[t.leaf[q]].from = 1
    BY <1>5, <2>1
  <2>3. Path(t, t.leaf[q]) = SubSeq(O[q], 1, Len(O[q]))
    BY <1>5, <1>6
  <2>4. SubSeq(O[q], 1, Len(O[q])) = O[q]
    <3>1. Len(O[q]) \in 0..Len(O[q])
      BY <2>1
    <3>2. /\ SubSeq(O[q], 1, Len(O[q])) \in Seq(Int)
          /\ Len(SubSeq(O[q], 1, Len(O[q]))) = Len(O[q])
          /\ \A i \in 1..Len(O[q]) : SubSeq(O[q], 1, Len(O[q]))[i] = O[q][i]
      BY <2>1, <3>1, SubSeqIsStart
    <3> QED BY <2>1, <3>2, SeqEqual
  <2>5. \A p \in DOMAIN O \ {q} : t.leaf[p] # t.leaf[q]
    BY <1>5
  <2> QED BY <1>3, <2>2, <2>3, <2>4, <2>5
<1>8. ASSUME NEW n \in DOMAIN nodes
      PROVE  /\ nodes[n].parent < n
             /\ nodes[n].from < nodes[n].to
             /\ nodes[n].from = IF nodes[n].parent = NO_PARENT THEN 0 ELSE nodes[nodes[n].parent].to
  BY <1>4 DEF NodesInv, Reaches
<1>9. TreesSpellQuestions
  BY <1>7, <1>8 DEF TreesSpellQuestions, t, O
<1>10. TreesReadWhatWasCounted
  BY <1>1, <1>3 DEF IInv, Counted, TreesReadWhatWasCounted, StateTokens, t, O
<1> QED BY <1>9, <1>10 DEF TreesReadQuestions

\* run() makes of the questions of any call - equal ones, starts of each other,
\* branching anywhere - a tree in which each has a leaf of its own under a path
\* that spells it, and it reads as many tokens as plan_calls has counted.
THEOREM TreesAreOfTheirQuestions == SafeSpec => []TreesReadQuestions
<1>1. IInv => TreesReadQuestions
  BY TreesAre DEF TreesReadQuestions, TreesSpellQuestions, TreesReadWhatWasCounted
<1> QED BY <1>1, Invariant, PTL
=============================================================================
