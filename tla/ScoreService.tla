---------------------------- MODULE ScoreService ----------------------------
(***************************************************************************)
(* What Scheduler::score promises its callers (src/src/scheduler.hpp):     *)
(* requests are answered one at a time, in the order they were accepted,   *)
(* each of them once, with the model's result or with its error, and a     *)
(* call returns only when its own request is answered.  No mutex, no       *)
(* condition variable, no batches, no warm-up, no shutdown.                *)
(***************************************************************************)
EXTENDS Sequences

CONSTANT Callers        \* the threads that call score()

VARIABLES pending,      \* requests accepted and not answered, oldest first;
                        \* a request is named by the caller blocked in it
          answer        \* what the shared future of a caller's request holds

vars == <<pending, answer>>

Outcomes == {"value", "error"}

TypeOK == /\ pending \in Seq(Callers)
          /\ answer \in [Callers -> Outcomes \union {"none"}]

Waiting(c) == \E i \in DOMAIN pending : pending[i] = c

Init == /\ pending = <<>>
        /\ answer = [c \in Callers |-> "none"]

Accept(c) == /\ ~Waiting(c)
             /\ answer[c] = "none"
             /\ pending' = Append(pending, c)
             /\ UNCHANGED answer

Answer == /\ pending # <<>>
          /\ \E o \in Outcomes : answer' = [answer EXCEPT ![Head(pending)] = o]
          /\ pending' = Tail(pending)

Return(c) == /\ answer[c] # "none"
             /\ answer' = [answer EXCEPT ![c] = "none"]
             /\ UNCHANGED pending

Next == \/ Answer
        \/ \E c \in Callers : Accept(c) \/ Return(c)

Fairness == /\ WF_vars(Answer)
            /\ \A c \in Callers : WF_vars(Return(c))

SafeSpec == Init /\ [][Next]_vars
Spec == SafeSpec /\ Fairness
=============================================================================
