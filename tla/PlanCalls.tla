----------------------------- MODULE PlanCalls ------------------------------
(***************************************************************************)
(* How a request becomes model calls: plan_calls (src/src/calls.hpp) with  *)
(* added_tokens (src/src/tree.hpp), one action per turn of its loops.  The *)
(* tokens before the questions never matter here but for their number, so  *)
(* an input holds that number (P) and, for each prompt, what comes after.  *)
(***************************************************************************)
EXTENDS PromptTokens

CONSTANT Inputs   \* arguments: [from, P, tails, piece_budget, call_budget, max_count]

ASSUME InputsAssumption ==
  \A a \in Inputs :
    /\ a.P \in Nat
    /\ a.from \in 0..a.P
    /\ a.tails \in Seq(Seq(Int))
    /\ \A q \in DOMAIN a.tails : a.tails[q] # <<>>
    /\ a.piece_budget \in Nat \ {0}
    /\ a.call_budget \in Nat
    /\ a.max_count \in Nat

VARIABLES input,  \* the arguments of this call of plan_calls
          pos,    \* the state tokens before it are in calls already
          k,      \* the next question
          calls,  \* the result
          open,   \* the call taking questions, while there is one (pc = "fill")
          used,   \* what it reads
          pc      \* which loop the function is in
vars == <<input, pos, k, calls, open, used, pc>>

P == input.P
tails == input.tails
Questions == DOMAIN tails
Members(c) == {c.questions[i] : i \in DOMAIN c.questions}
Call(from, to, qs) == [state_from |-> from, state_to |-> to, questions |-> qs]
CallSet == [state_from : Nat, state_to : Nat, questions : Seq(Nat)]

TypeOK ==
  /\ pos \in input.from..P
  /\ k \in 1..(Len(tails) + 1)
  /\ calls \in Seq(CallSet)
  /\ open \in CallSet
  /\ used \in Nat
  /\ pc \in {"pieces", "questions", "fill", "done"}

Init == /\ input \in Inputs
        /\ pos = input.from
        /\ k = 1
        /\ calls = <<>>
        /\ open = Call(0, 0, <<>>)
        /\ used = 0
        /\ pc = "pieces"

-----------------------------------------------------------------------------
TooLongForSome(rest) == IF tails = <<>> THEN rest > input.call_budget
                        ELSE \E q \in Questions : rest + Len(tails[q]) > input.call_budget
\* The rest of the state and the cheapest question exceed the call budget.
\* (Without questions the cheapest costs nothing.)
TooLong(rest) == IF tails = <<>> THEN rest > input.call_budget
                 ELSE \A q \in Questions : rest + Len(tails[q]) > input.call_budget

\* min(piece_budget, P - pos)
Piece == IF input.piece_budget < P - pos THEN input.piece_budget ELSE P - pos

ReadPiece == /\ pc = "pieces" /\ pos < P /\ TooLong(P - pos)
             /\ calls' = Append(calls, Call(pos, pos + Piece, <<>>))
             /\ pos' = pos + Piece
             /\ UNCHANGED <<input, k, open, used, pc>>

MorePieces == pos < P /\ TooLong(P - pos)
EndPieces == /\ pc = "pieces" /\ ~MorePieces
             /\ pc' = "questions"
             /\ UNCHANGED <<input, pos, k, calls, open, used>>

OpenCall == /\ pc = "questions" /\ k <= Len(tails)
            /\ open' = Call(pos, P, <<>>)
            /\ used' = P - pos
            /\ pc' = "fill"
            /\ UNCHANGED <<input, pos, k, calls>>

cost == added_tokens(tails, Members(open), k)

FullPastBudget == /\ open.questions # <<>>
                  /\ Len(open.questions) >= input.max_count \/ used > input.call_budget
\* The break of the inner loop: the first question always joins.
Full == /\ open.questions # <<>>
        /\ Len(open.questions) >= input.max_count \/ used + cost > input.call_budget

Joins == k <= Len(tails) /\ ~Full

TakeQuestion == /\ pc = "fill" /\ Joins
                /\ open' = [open EXCEPT !.questions = Append(@, k)]
                /\ used' = used + cost
                /\ k' = k + 1
                /\ UNCHANGED <<input, pos, calls, pc>>

CloseKeepsPos == /\ pc = "fill" /\ ~Joins
                 /\ calls' = Append(calls, open)
                 /\ pc' = "questions"
                 /\ UNCHANGED <<input, pos, k, open, used>>
CloseCall == /\ pc = "fill" /\ ~Joins
             /\ calls' = Append(calls, open)
             /\ pos' = P
             /\ pc' = "questions"
             /\ UNCHANGED <<input, k, open, used>>

\* The state's last piece when there is no question to read with it.
LastPiece == IF tails = <<>> /\ pos < P THEN <<Call(pos, P, <<>>)>> ELSE <<>>
Finish == /\ pc = "questions" /\ k > Len(tails)
          /\ calls' = calls \o LastPiece
          /\ pc' = "done"
          /\ UNCHANGED <<input, pos, k, open, used>>

Next == ReadPiece \/ EndPieces \/ OpenCall \/ TakeQuestion \/ CloseCall \/ Finish

SafeSpec == Init /\ [][Next]_vars

-----------------------------------------------------------------------------
(* Properties *)

AllCalls == IF pc = "fill" THEN Append(calls, open) ELSE calls
StateTokens(c) == c.state_to - c.state_from
Reads(c, qs) == StateTokens(c) + TreeTokens(tails, qs)

\* The calls read the state in order and without gaps or overlaps, whatever
\* mixture of pieces and question calls it takes (the loop at calls.hpp:30
\* moves pos by each piece, the one at line 35 once), and leave nothing of it.
StateInOrder ==
  /\ \A i \in DOMAIN calls :
       /\ calls[i].state_from = (IF i = 1 THEN input.from ELSE calls[i - 1].state_to)
       /\ calls[i].state_from <= calls[i].state_to
       /\ calls[i].state_to <= P
  /\ pc = "done" => IF calls = <<>> THEN input.from = P
                    ELSE calls[Len(calls)].state_to = P

\* Every question is in one call and in one place of it, the calls take them
\* in order, and at the end none is left (score_one writes the answers back by
\* these indices).
QuestionsOnce ==
  /\ UNION {Members(AllCalls[i]) : i \in DOMAIN AllCalls} = 1..(k - 1)
  /\ \A i, j \in DOMAIN AllCalls :
       \A a \in DOMAIN AllCalls[i].questions, b \in DOMAIN AllCalls[j].questions :
         i < j \/ (i = j /\ a < b) => AllCalls[i].questions[a] < AllCalls[j].questions[b]
  /\ pc = "done" => k = Len(tails) + 1

\* Nothing is left out and nothing read twice.
AllReadInOrder == StateInOrder /\ QuestionsOnce

FitsCall(c) == Len(c.questions) >= 2 => /\ Reads(c, Members(c)) <= input.call_budget
                                        /\ Len(c.questions) <= input.max_count
\* A call of several questions reads no more than the budget, counted in the
\* tokens its prefix tree holds (the sum of added_tokens, which sees one
\* question at a time, is the size of the tree), and has at most max_count.
CallsFitBudget == \A i \in DOMAIN AllCalls : FitsCall(AllCalls[i])

\* Whether the rest of the state can be read with a question, or as a call of
\* its own where there are no questions.
RoomBeside(rest) == IF tails = <<>> THEN rest <= input.call_budget
                    ELSE \E q \in Questions : rest + Len(tails[q]) <= input.call_budget
\* What a call reads of the state is read with questions that have room beside
\* it, or is a piece within the piece budget, read because nothing had room; in
\* a request without questions the rest that fits a call is read at once, even
\* past the piece budget (calls.hpp:46; the budgets of model.hpp leave no such
\* case, for there a piece is never shorter than a call).
NeededPiece(c) ==
  IF c.questions # <<>> THEN StateTokens(c) = 0 \/ RoomBeside(StateTokens(c))
  ELSE /\ 0 < StateTokens(c)
       /\ IF RoomBeside(P - c.state_from) THEN tails = <<>> /\ c.state_to = P
                                          ELSE StateTokens(c) <= input.piece_budget
\* A piece of the state goes alone exactly when no question fits beside the
\* rest of the state.
PiecesOnlyWhenNeeded == \A i \in DOMAIN calls : NeededPiece(calls[i])

NoRoomFor(c, q) == \/ Len(c.questions) >= input.max_count
                   \/ Reads(c, Members(c) \union {q}) > input.call_budget
\* A call ends only because its next question would not fit: no call could
\* have taken the first question of the call after it.
NoNeedlessCall ==
  \A i \in 1..(Len(AllCalls) - 1) :
    LET c == AllCalls[i]
        d == AllCalls[i + 1] IN
      c.questions # <<>> /\ d.questions # <<>> => NoRoomFor(c, d.questions[1])

\* Nor is there a call the budgets do not require.
NothingNeedless == PiecesOnlyWhenNeeded /\ NoNeedlessCall

=============================================================================
