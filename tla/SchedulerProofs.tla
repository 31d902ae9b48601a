--------------------------- MODULE SchedulerProofs ---------------------------
(***************************************************************************)
(* Proofs about Scheduler for any set of callers, any sizes of requests    *)
(* and any limits.                                                         *)
(***************************************************************************)
EXTENDS Scheduler, SequenceTheorems, FiniteSetTheorems, TLAPS

\* Moving the head of the queue to the end of the batch leaves the order of
\* the tasks not answered yet as it was.
LEMMA MoveHead ==
  ASSUME NEW S, NEW b \in Seq(S), NEW q \in Seq(S), q # <<>>
  PROVE  Append(b, Head(q)) \o Tail(q) = b \o q
<1>1. Append(b, Head(q)) \in Seq(S) /\ Tail(q) \in Seq(S)
  BY HeadTailProperties, AppendProperties
<1>2. q = <<Head(q)>> \o Tail(q)
  BY HeadTailProperties, HeadTailAppend
<1> QED
  BY <1>1, <1>2

\* The first task of a batch that is not empty is the first of all.
LEMMA HeadOfConcat ==
  ASSUME NEW S, NEW b \in Seq(S), NEW q \in Seq(S), b # <<>>
  PROVE  /\ b \o q # <<>>
         /\ Head(b \o q) = Head(b)
         /\ Tail(b \o q) = Tail(b) \o q
<1> QED OBVIOUS

\* A task pushed at the end of the queue is the last of all.
LEMMA AppendToConcat ==
  ASSUME NEW S, NEW b \in Seq(S), NEW q \in Seq(S), NEW c \in S
  PROVE  b \o Append(q, c) = Append(b \o q, c)
<1> QED OBVIOUS

\* What membership becomes when a task is appended, and when the head goes.
LEMMA InAppend ==
  ASSUME NEW S, NEW s \in Seq(S), NEW c \in S, NEW d
  PROVE  In(d, Append(s, c)) <=> In(d, s) \/ d = c
<1> DEFINE a == Append(s, c)
<1>1. /\ DOMAIN a = 1..(Len(s) + 1)
      /\ DOMAIN s = 1..Len(s)
      /\ a[Len(s) + 1] = c
      /\ \A i \in 1..Len(s) : a[i] = s[i]
      /\ Len(s) \in Nat
  BY AppendProperties
<1>2. ASSUME In(d, a) PROVE In(d, s) \/ d = c
  <2>1. PICK i \in DOMAIN a : a[i] = d
    BY <1>2 DEF In
  <2>2. CASE i = Len(s) + 1
    BY <1>1, <2>1, <2>2
  <2>3. CASE i # Len(s) + 1
    <3>1. i \in DOMAIN s /\ s[i] = d
      BY <1>1, <2>1, <2>3
    <3> QED BY <3>1 DEF In
  <2> QED BY <2>2, <2>3
<1>3. ASSUME In(d, s) PROVE In(d, a)
  <2>1. PICK i \in DOMAIN s : s[i] = d
    BY <1>3 DEF In
  <2>2. i \in DOMAIN a /\ a[i] = d
    BY <1>1, <2>1
  <2> QED BY <2>2 DEF In
<1>4. ASSUME d = c PROVE In(d, a)
  <2>1. Len(s) + 1 \in DOMAIN a /\ a[Len(s) + 1] = d
    BY <1>1, <1>4
  <2> QED BY <2>1 DEF In
<1> QED BY <1>2, <1>3, <1>4

\* What a queue holds is its head and what its tail holds.
LEMMA InTail ==
  ASSUME NEW S, NEW s \in Seq(S), s # <<>>, NEW d
  PROVE  /\ In(d, s) <=> In(d, Tail(s)) \/ d = Head(s)
         /\ In(Head(s), s)
<1> DEFINE t == Tail(s)
<1>1. /\ DOMAIN s = 1..Len(s)
      /\ DOMAIN t = 1..(Len(s) - 1)
      /\ Len(s) \in Nat \ {0}
      /\ Head(s) = s[1]
      /\ \A i \in 1..(Len(s) - 1) : t[i] = s[i + 1]
  BY HeadTailProperties
<1>2. ASSUME In(d, s) PROVE In(d, t) \/ d = Head(s)
  <2>1. PICK i \in DOMAIN s : s[i] = d
    BY <1>2 DEF In
  <2>2. CASE i = 1
    BY <1>1, <2>1, <2>2
  <2>3. CASE i # 1
    <3>1. i - 1 \in DOMAIN t /\ t[i - 1] = d
      BY <1>1, <2>1, <2>3
    <3> QED BY <3>1 DEF In
  <2> QED BY <2>2, <2>3
<1>3. ASSUME In(d, t) PROVE In(d, s)
  <2>1. PICK i \in DOMAIN t : t[i] = d
    BY <1>3 DEF In
  <2>2. i + 1 \in DOMAIN s /\ s[i + 1] = d
    BY <1>1, <2>1
  <2> QED BY <2>2 DEF In
<1>4. In(Head(s), s)
  <2>1. 1 \in DOMAIN s /\ s[1] = Head(s)
    BY <1>1
  <2> QED BY <2>1 DEF In
<1> QED BY <1>2, <1>3, <1>4

\* What is queued is still there with a batch put before it.
LEMMA InConcat ==
  ASSUME NEW S, NEW b \in Seq(S), NEW q \in Seq(S), NEW d
  PROVE  In(d, q) => In(d, b \o q)
<1>1. ASSUME In(d, q) PROVE In(d, b \o q)
  <2>1. PICK i \in DOMAIN q : q[i] = d
    BY <1>1 DEF In
  <2>2. Len(b) + i \in DOMAIN (b \o q) /\ (b \o q)[Len(b) + i] = d
    BY <2>1, ConcatProperties
  <2> QED BY <2>2 DEF In
<1> QED BY <1>1

\* A task that is not queued yet keeps the queue without repeats.
LEMMA DistinctAppend ==
  ASSUME NEW S, NEW s \in Seq(S), NEW c \in S, Distinct(s), ~In(c, s)
  PROVE  Distinct(Append(s, c))
<1> QED BY DEF Distinct, In

\* Once its head is taken, a queue without repeats no longer holds it.
LEMMA DistinctTail ==
  ASSUME NEW S, NEW s \in Seq(S), s # <<>>, Distinct(s)
  PROVE  Distinct(Tail(s)) /\ ~In(Head(s), Tail(s))
<1> QED BY DEF Distinct, In

-----------------------------------------------------------------------------
(***************************************************************************)
(* Type correctness.                                                       *)
(***************************************************************************)

\* The warm-up's counters are numbers.
LEMMA WarmToIsNat == warm_to \in Nat /\ budget \in Nat
BY LimitsAssumption DEF warm_to, budget, Smaller

\* Every variable keeps its type: in particular next_warm never passes
\* warm_to + 1, whichever way the warm-up ends.  The second conjunct makes it
\* inductive: a warm-up call is about the length before next_warm.
TypeInv == TypeOK /\ (worker = "warming" => next_warm > 1)

\* A request's size is a number.
LEMMA SizeIsNat == ASSUME NEW t \in Sizes \union {0} PROVE t \in Nat
BY SizesAssumption

\* Every step keeps the types.
LEMMA TypeStep == TypeInv /\ [Next]_vars => TypeInv'
<1> SUFFICES ASSUME TypeInv, [Next]_vars PROVE TypeInv'
  OBVIOUS
<1> USE WarmToIsNat
    DEF TypeInv, TypeOK, WorkerPlaces, batchVars, warmVars, Lengths
<1>1. ASSUME NEW c \in Callers, NEW t \in Sizes, Push(c, t) PROVE TypeInv'
  <2>1. queue' \in Seq(Callers) BY <1>1, AppendProperties DEF Push
  <2> QED BY <1>1, <2>1 DEF Push
<1>2. ASSUME NEW c \in Callers, Notify(c) PROVE TypeInv'
  BY <1>2 DEF Notify, Woken, Asleep
<1>3. ASSUME NEW c \in Callers, Return(c) PROVE TypeInv'
  BY <1>3 DEF Return
<1>4. CASE Check
  BY <1>4 DEF Check
<1>5. CASE Timeout
  BY <1>5 DEF Timeout
<1>6. CASE Gather
  <2>1. Head(queue) \in Callers /\ queue' \in Seq(Callers)
    BY <1>6, HeadTailProperties DEF Gather, HeadJoins
  <2>2. batch' \in Seq(Callers)
    BY <1>6, <2>1, AppendProperties DEF Gather
  <2>3. used' \in Nat
    <3>1. tokens[Head(queue)] \in Sizes \union {0}
      BY <2>1
    <3>2. tokens[Head(queue)] \in Nat
      BY <3>1, SizeIsNat
    <3> QED BY <1>6, <3>2 DEF Gather
  <2>4. delays' \in [Callers -> Nat]
    BY <1>6, <2>1 DEF Gather
  <2> QED BY <1>6, <2>1, <2>2, <2>3, <2>4 DEF Gather
<1>7. CASE Unlock
  BY <1>7 DEF Unlock
<1>8. CASE StartWarmUp
  BY <1>8 DEF StartWarmUp
<1>9. CASE WarmUpDone
  <2>1. next_warm - 1 \in 1..warm_to
    BY <1>9 DEF WarmUpDone
  <2> QED BY <1>9, <2>1 DEF WarmUpDone, AfterWarmUp
<1>10. CASE WarmUpFailed
  BY <1>10 DEF WarmUpFailed, AfterWarmUp
<1>11. CASE RunBatch
  BY <1>11 DEF RunBatch
<1>12. CASE Reply
  <2>1. Head(batch) \in Callers /\ batch' \in Seq(Callers)
    BY <1>12, HeadTailProperties DEF Reply
  <2> QED BY <1>12, <2>1 DEF Reply
<1>13. CASE FinishBatch
  BY <1>13 DEF FinishBatch
<1>14. CASE SpuriousWakeup \/ TimePasses
  BY <1>14 DEF SpuriousWakeup, TimePasses
<1>15. CASE Stop \/ NotifyAll \/ Join
  BY <1>15 DEF Stop, NotifyAll, Join, Woken, Asleep
<1>16. CASE UNCHANGED vars
  BY <1>16 DEF vars
<1> QED
  BY <1>1, <1>2, <1>3, <1>4, <1>5, <1>6, <1>7, <1>8, <1>9, <1>10, <1>11,
     <1>12, <1>13, <1>14, <1>15, <1>16
  DEF Next, CallerStep, WorkerStep, Destroyed

\* The scheduler's state always has its type.
LEMMA TypeInvariant == SafeSpec => []TypeInv
<1>1. Init => TypeInv
  <2> SUFFICES ASSUME Init PROVE TypeInv
    OBVIOUS
  <2>1. next_warm \in 1..(warm_to + 1)
    BY WarmToIsNat DEF Init
  <2>2. used \in Nat /\ delays \in [Callers -> Nat]
    BY DEF Init
  <2>3. /\ tokens \in [Callers -> Sizes \union {0}]
        /\ result \in [Callers -> {"none", "value", "error"}]
        /\ caller \in [Callers -> {"outside", "notify", "get"}]
    BY DEF Init
  <2>4. queue \in Seq(Callers) /\ batch \in Seq(Callers)
    BY DEF Init
  <2>5. seen \subseteq Lengths
    BY DEF Init
  <2> QED BY <2>1, <2>2, <2>3, <2>4, <2>5 DEF Init, TypeInv, TypeOK, WorkerPlaces
<1> QED BY <1>1, TypeStep, PTL DEF SafeSpec

\* The scheduler's variables keep their types in every behaviour.
THEOREM TypeCorrect == SafeSpec => []TypeOK
<1>1. TypeInv => TypeOK
  BY DEF TypeInv
<1> QED BY <1>1, TypeInvariant, PTL

-----------------------------------------------------------------------------
(***************************************************************************)
(* No request is lost or repeated, and no wakeup is lost.                  *)
(***************************************************************************)

\* What makes NothingLost inductive: an answer is only held for a caller
\* inside score(), and outside a batch's life the batch is empty.
Tracked ==
  /\ NothingLost
  /\ \A c \in Callers : result[c] # "none" => InScore(c)
  /\ worker \notin {"gather", "run", "reply"} => batch = <<>>
  /\ worker = "run" => batch # <<>>

\* The steps that leave every task where it was.
LEMMA TrackedUnmoved ==
  ASSUME Tracked, UNCHANGED <<Pending, result>>,
         \A c \in Callers : InScore(c)' <=> InScore(c),
         (worker \notin {"gather", "run", "reply"} => batch = <<>>)',
         (worker = "run" => batch # <<>>)'
  PROVE  Tracked'
<1>1. \A c : Waiting(c)' <=> Waiting(c)
  BY DEF Waiting, In
<1>2. Distinct(Pending)' <=> Distinct(Pending)
  BY DEF Distinct
<1>3. NothingLost'
  BY <1>1, <1>2 DEF Tracked, NothingLost
<1> QED BY <1>3 DEF Tracked

\* A caller that pushes its task is accounted for.
LEMMA TrackedPush ==
  ASSUME TypeOK, Tracked, NEW c \in Callers, NEW t \in Sizes, Push(c, t)
  PROVE  Tracked'
<1>1. Pending' = Append(Pending, c)
  BY AppendToConcat DEF Push, Pending, TypeOK, batchVars
<1>2. Pending \in Seq(Callers)
  BY ConcatProperties DEF TypeOK, Pending
<1>3. /\ ~Waiting(c) /\ ~InScore(c) /\ result[c] = "none"
  BY DEF Push, Tracked, NothingLost, InScore
<1>4. Distinct(Pending')
  BY <1>1, <1>2, <1>3, DistinctAppend DEF Tracked, NothingLost, Waiting
<1>5. \A d \in Callers : In(d, Pending') <=> In(d, Pending) \/ d = c
  BY <1>1, <1>2, InAppend
<1>6. \A d \in Callers : InScore(d)' <=> InScore(d) \/ d = c
  BY DEF Push, TypeOK, InScore
<1>7. result' = result
  BY DEF Push
<1>8. NothingLost'
  BY <1>3, <1>4, <1>5, <1>6, <1>7 DEF Tracked, NothingLost, Waiting, Distinct
<1>9. /\ (worker \notin {"gather", "run", "reply"} => batch = <<>>)'
      /\ (worker = "run" => batch # <<>>)'
  BY DEF Push, Tracked, batchVars
<1> QED BY <1>6, <1>7, <1>8, <1>9 DEF Tracked

\* An answer is given to a caller that is inside score().
LEMMA TrackedReply ==
  ASSUME TypeOK, Tracked, Reply
  PROVE  Tracked'
<1> DEFINE h == Head(batch)
<1>1. /\ Pending # <<>>
      /\ Head(Pending) = h
      /\ Pending' = Tail(Pending)
  BY HeadOfConcat DEF Reply, Pending, TypeOK
<1>2. Pending \in Seq(Callers) /\ h \in Callers
  BY ConcatProperties, HeadTailProperties DEF TypeOK, Pending, Reply
<1>3. Distinct(Pending') /\ ~In(h, Pending') /\ In(h, Pending)
  BY <1>1, <1>2, DistinctTail, InTail DEF Tracked, NothingLost
<1>4. \A d \in Callers : d # h => (In(d, Pending') <=> In(d, Pending))
  BY <1>1, <1>2, InTail
<1>5. InScore(h)
  BY <1>2, <1>3 DEF Tracked, NothingLost, Waiting
<1>6. /\ result'[h] # "none"
      /\ \A d \in Callers : d # h => result'[d] = result[d]
  BY <1>2 DEF Reply, TypeOK
<1>7. \A d \in Callers : InScore(d)' <=> InScore(d)
  BY DEF Reply, InScore
<1>8. \A d \in Callers :
         In(d, Pending') <=> (InScore(d)' /\ result'[d] = "none")
  <2> SUFFICES ASSUME NEW d \in Callers
               PROVE  In(d, Pending') <=> (InScore(d)' /\ result'[d] = "none")
    OBVIOUS
  <2>1. CASE d = h
    BY <1>3, <1>6, <2>1
  <2>2. CASE d # h
    BY <1>4, <1>6, <1>7, <2>2 DEF Tracked, NothingLost, Waiting
  <2> QED BY <2>1, <2>2
<1>9. NothingLost'
  BY <1>3, <1>8 DEF NothingLost, Waiting, Distinct
<1>10. \A d \in Callers : result'[d] # "none" => InScore(d)'
  BY <1>5, <1>6, <1>7 DEF Tracked
<1>11. worker' = "reply"
  BY DEF Reply
<1> QED BY <1>9, <1>10, <1>11 DEF Tracked

\* A caller that returns takes its answer with it.
LEMMA TrackedReturn ==
  ASSUME TypeOK, Tracked, NEW c \in Callers, Return(c)
  PROVE  Tracked'
<1>1. Pending' = Pending
  BY DEF Return, Pending, batchVars
<1>2. Distinct(Pending') /\ \A d : In(d, Pending') <=> In(d, Pending)
  BY <1>1 DEF Tracked, NothingLost
<1>3. ~In(c, Pending)
  BY DEF Tracked, NothingLost, Waiting, Return
<1>4. /\ ~InScore(c)' /\ result'[c] = "none"
      /\ \A d \in Callers : d # c => /\ InScore(d)' <=> InScore(d)
                                     /\ result'[d] = result[d]
  BY DEF Return, InScore, TypeOK
<1>5. NothingLost'
  BY <1>2, <1>3, <1>4 DEF Tracked, NothingLost, Waiting, Distinct
<1>6. \A d \in Callers : result'[d] # "none" => InScore(d)'
  BY <1>4 DEF Tracked
<1>7. /\ (worker \notin {"gather", "run", "reply"} => batch = <<>>)'
      /\ (worker = "run" => batch # <<>>)'
  BY DEF Return, Tracked, batchVars
<1> QED BY <1>5, <1>6, <1>7 DEF Tracked

\* Every step keeps each caller's task accounted for.
LEMMA TrackedStep == TypeOK /\ Tracked /\ [Next]_vars => Tracked'
<1> SUFFICES ASSUME TypeOK, Tracked, [Next]_vars PROVE Tracked'
  OBVIOUS
<1> USE DEF batchVars, warmVars
<1> DEFINE Places == /\ worker \notin {"gather", "run", "reply"} => batch = <<>>
                     /\ worker = "run" => batch # <<>>
           Same == /\ UNCHANGED <<Pending, result>>
                   /\ \A c \in Callers : InScore(c)' <=> InScore(c)
<1>a. Same /\ Places' => Tracked'
  BY TrackedUnmoved
<1>b. UNCHANGED <<queue, batch, result, caller>> => Same
  BY DEF Pending, InScore
<1>c. Places
  BY DEF Tracked
<1> HIDE DEF Places, Same
<1>1. ASSUME NEW c \in Callers, NEW t \in Sizes, Push(c, t) PROVE Tracked'
  BY <1>1, TrackedPush
<1>2. ASSUME NEW c \in Callers, Notify(c) PROVE Tracked'
  <2>1. Same
    BY <1>2 DEF Notify, Same, Pending, InScore, TypeOK
  <2>2. Places'
    BY <1>2, <1>c DEF Places, Notify, Woken, Asleep
  <2> QED BY <2>1, <2>2, <1>a
<1>3. ASSUME NEW c \in Callers, Return(c) PROVE Tracked'
  BY <1>3, TrackedReturn
<1>4. CASE Check
  <2>1. UNCHANGED batch
    BY <1>4, <1>c DEF Check, Places
  <2>2. Same /\ Places'
    BY <1>4, <2>1, <1>b, <1>c DEF Check, Places
  <2> QED BY <2>2, <1>a
<1>5. CASE Timeout \/ SpuriousWakeup \/ TimePasses
  BY <1>5, <1>a, <1>b, <1>c DEF Timeout, SpuriousWakeup, TimePasses, Places, Asleep
<1>6. CASE Gather
  <2>1. queue # <<>> /\ worker = "gather"
    BY <1>6 DEF Gather, HeadJoins
  <2>2. Same
    BY <1>6, <2>1, MoveHead DEF Gather, Same, Pending, InScore, TypeOK
  <2>3. Places'
    BY <1>6 DEF Gather, Places
  <2> QED BY <2>2, <2>3, <1>a
<1>7. CASE Unlock
  BY <1>7, <1>a, <1>b DEF Unlock, Places
<1>8. CASE StartWarmUp
  BY <1>8, <1>a, <1>b, <1>c DEF StartWarmUp, Places
<1>9. CASE WarmUpDone \/ WarmUpFailed
  BY <1>9, <1>a, <1>b, <1>c DEF WarmUpDone, WarmUpFailed, AfterWarmUp, Places
<1>10. CASE RunBatch
  BY <1>10, <1>a, <1>b, <1>c DEF RunBatch, Places
<1>11. CASE Reply
  BY <1>11, TrackedReply
<1>12. CASE FinishBatch
  BY <1>12, <1>a, <1>b, <1>c DEF FinishBatch, Places
<1>13. CASE Stop \/ NotifyAll \/ Join
  BY <1>13, <1>a, <1>b, <1>c DEF Stop, NotifyAll, Join, Places, Woken, Asleep
<1>14. CASE UNCHANGED vars
  BY <1>14, <1>a, <1>b, <1>c DEF vars, Places
<1> QED
  BY <1>1, <1>2, <1>3, <1>4, <1>5, <1>6, <1>7, <1>8, <1>9, <1>10, <1>11,
     <1>12, <1>13, <1>14
  DEF Next, CallerStep, WorkerStep, Destroyed

\* At the start nobody waits and nothing is queued.
LEMMA TrackedInit == Init => Tracked
<1> SUFFICES ASSUME Init PROVE Tracked
  OBVIOUS
<1>1. Pending = <<>>
  BY DEF Init, Pending
<1>2. Distinct(Pending) /\ \A c : ~In(c, Pending)
  BY <1>1 DEF Distinct, In
<1> QED BY <1>2 DEF Init, Tracked, NothingLost, Waiting, InScore

\* Every request inside score() without an answer is in the scheduler, and
\* once, in every behaviour.
THEOREM NothingIsLost == SafeSpec => []NothingLost
<1>1. Tracked => NothingLost
  BY DEF Tracked
<1> QED
  BY <1>1, TrackedInit, TrackedStep, TypeCorrect, PTL DEF SafeSpec

\* The destructor runs with nobody in score(): the wakeup for stop_ is the
\* owner's, so the callers' notifications need no part in it.
StopInv == stop <=> main # "serving"
WakeInv == StopInv /\ NoLostWakeup

\* The worker never sleeps with a task queued or stop_ set unless a thread is
\* about to notify it.
THEOREM NoWakeupIsLost == SafeSpec => []NoLostWakeup
<1>1. Init => WakeInv
  BY DEF Init, WakeInv, StopInv, NoLostWakeup, Asleep
<1>2. TypeOK /\ WakeInv /\ [Next]_vars => WakeInv'
  <2> SUFFICES ASSUME TypeOK, WakeInv, [Next]_vars PROVE WakeInv'
    OBVIOUS
  <2> USE DEF WakeInv, StopInv, NoLostWakeup, Asleep, TypeOK, batchVars, warmVars
  <2>1. ASSUME NEW c \in Callers, NEW t \in Sizes, Push(c, t) PROVE WakeInv'
    BY <2>1 DEF Push
  <2>2. ASSUME NEW c \in Callers, Notify(c) PROVE WakeInv'
    BY <2>2 DEF Notify, Woken
  <2>3. ASSUME NEW c \in Callers, Return(c) PROVE WakeInv'
    BY <2>3 DEF Return
  <2>4. CASE Check
    BY <2>4 DEF Check, LeavesWait
  <2>5. CASE Timeout \/ SpuriousWakeup \/ TimePasses
    BY <2>5 DEF Timeout, SpuriousWakeup, TimePasses
  <2>6. CASE Gather \/ Unlock
    BY <2>6 DEF Gather, Unlock
  <2>7. CASE StartWarmUp \/ WarmUpDone \/ WarmUpFailed
    BY <2>7 DEF StartWarmUp, WarmUpDone, WarmUpFailed, AfterWarmUp
  <2>8. CASE RunBatch \/ Reply \/ FinishBatch
    BY <2>8 DEF RunBatch, Reply, FinishBatch
  <2>9. CASE Stop \/ NotifyAll \/ Join
    BY <2>9 DEF Stop, NotifyAll, Join, Woken
  <2>10. CASE UNCHANGED vars
    BY <2>10 DEF vars
  <2> QED
    BY <2>1, <2>2, <2>3, <2>4, <2>5, <2>6, <2>7, <2>8, <2>9, <2>10
    DEF Next, CallerStep, WorkerStep, Destroyed
<1>3. WakeInv => NoLostWakeup
  BY DEF WakeInv
<1> QED BY <1>1, <1>2, <1>3, TypeCorrect, PTL DEF SafeSpec

-----------------------------------------------------------------------------
(***************************************************************************)
(* Batches and warm-up.                                                    *)
(***************************************************************************)

\* A task more brings its tokens.
LEMMA SizeOfAppend ==
  ASSUME NEW s \in Seq(Callers), NEW c \in Callers, tokens[c] \in Nat,
         IsFiniteSet(TokensIn(s))
  PROVE  /\ IsFiniteSet(TokensIn(Append(s, c)))
         /\ SizeOf(Append(s, c)) = SizeOf(s) + tokens[c]
<1> DEFINE a == Append(s, c)
           one == {Len(s) + 1} \X (1..tokens[c])
           old == TokensIn(s)
<1>1. /\ DOMAIN a = 1..(Len(s) + 1)
      /\ DOMAIN s = 1..Len(s) /\ Len(s) \in Nat
      /\ a[Len(s) + 1] = c
      /\ \A i \in 1..Len(s) : a[i] = s[i]
  BY AppendProperties
<1>2. TokensIn(a) = old \union one
  <2>1. DOMAIN a = DOMAIN s \union {Len(s) + 1}
    BY <1>1
  <2>2. \A i \in DOMAIN s : a[i] = s[i]
    BY <1>1
  <2> HIDE DEF a
  <2> QED BY <1>1, <2>1, <2>2 DEF TokensIn
<1>3. old \intersect one = {}
  <2>1. Len(s) + 1 \notin DOMAIN s
    BY <1>1
  <2> QED BY <2>1 DEF TokensIn
<1>4. IsFiniteSet(one) /\ Cardinality(one) = tokens[c]
  <2>1. IsFiniteSet(1..tokens[c]) /\ Cardinality(1..tokens[c]) = tokens[c]
    <3>1. \A n \in Nat : /\ 1 \in Int /\ n \in Int
                         /\ (IF 1 > n THEN 0 ELSE n - 1 + 1) = n
      OBVIOUS
    <3> QED BY <3>1, FS_Interval
  <2>2. IsFiniteSet({Len(s) + 1}) /\ Cardinality({Len(s) + 1}) = 1
    BY FS_Singleton
  <2>3. IsFiniteSet(one) /\ Cardinality(one) = 1 * tokens[c]
    BY <2>1, <2>2, FS_Product
  <2>4. \A n \in Nat : 1 * n = n
    OBVIOUS
  <2> QED BY <2>3, <2>4
<1> HIDE DEF one, old
<1>5. /\ IsFiniteSet(old \union one)
      /\ Cardinality(old \union one) =
           Cardinality(old) + Cardinality(one) - Cardinality(old \intersect one)
  BY <1>4, FS_Union DEF old
<1>6. Cardinality(old) \in Nat /\ Cardinality(old \intersect one) = 0
  BY <1>3, FS_CardinalityType, FS_EmptySet DEF old
<1>7. Cardinality(old \union one) = Cardinality(old) + tokens[c]
  BY <1>4, <1>5, <1>6
<1> QED BY <1>2, <1>5, <1>7 DEF old, SizeOf

\* What the batch brings depends on its own tasks only.
LEMMA SizeOfUnmoved ==
  ASSUME TypeOK, UNCHANGED batch,
         \A c \in Callers : In(c, batch) => tokens'[c] = tokens[c]
  PROVE  TokensIn(batch)' = TokensIn(batch)
<1>1. \A i \in DOMAIN batch : batch[i] \in Callers /\ In(batch[i], batch)
  BY DEF TypeOK, In
<1>2. \A i \in DOMAIN batch : tokens'[batch[i]] = tokens[batch[i]]
  BY <1>1
<1> QED BY <1>2 DEF TokensIn

\* The running total is what the batch brings, and it fits the smaller limit.
BudgetInv ==
  worker \in {"gather", "run"} =>
    /\ IsFiniteSet(TokensIn(batch))
    /\ used = SizeOf(batch)
    /\ Len(batch) > 1 => used <= budget

\* Every step keeps the batch within its budget of tokens.
LEMMA BudgetStep ==
  TypeInv /\ Tracked /\ BudgetInv /\ [Next]_vars => BudgetInv'
<1> SUFFICES ASSUME TypeInv, Tracked, BudgetInv, [Next]_vars PROVE BudgetInv'
  OBVIOUS
<1> USE DEF batchVars, warmVars
<1>a. TokensIn(batch)' = TokensIn(batch) /\ UNCHANGED <<batch, used>>
        /\ (worker' \in {"gather", "run"} => worker \in {"gather", "run"})
      => BudgetInv'
  BY DEF BudgetInv, SizeOf
<1>b. UNCHANGED <<batch, used, tokens>>
        /\ (worker' \in {"gather", "run"} => worker \in {"gather", "run"})
      => BudgetInv'
  BY DEF BudgetInv, SizeOf, TokensIn
<1>c. \A c \in Callers : In(c, batch) => InScore(c) /\ result[c] = "none"
  <2>1. \A c : In(c, batch) => In(c, Pending)
    <3> SUFFICES ASSUME NEW c, In(c, batch) PROVE In(c, Pending)
      OBVIOUS
    <3>1. PICK i \in DOMAIN batch : batch[i] = c
      BY DEF In
    <3>2. i \in DOMAIN Pending /\ Pending[i] = c
      BY <3>1, ConcatProperties DEF Pending, TypeInv, TypeOK
    <3> QED BY <3>2 DEF In
  <2> QED BY <2>1 DEF Tracked, NothingLost, Waiting
<1>1. ASSUME NEW c \in Callers, NEW t \in Sizes, Push(c, t) PROVE BudgetInv'
  <2>1. \A d \in Callers : In(d, batch) => tokens'[d] = tokens[d]
    BY <1>1, <1>c DEF Push, InScore, TypeInv, TypeOK
  <2>2. UNCHANGED <<batch, used, worker>>
    BY <1>1 DEF Push
  <2> QED BY <1>a, <2>1, <2>2, SizeOfUnmoved DEF TypeInv
<1>2. ASSUME NEW c \in Callers, Notify(c) PROVE BudgetInv'
  BY <1>2, <1>b DEF Notify, Woken
<1>3. ASSUME NEW c \in Callers, Return(c) PROVE BudgetInv'
  <2>1. \A d \in Callers : In(d, batch) => tokens'[d] = tokens[d]
    BY <1>3, <1>c DEF Return, TypeInv, TypeOK
  <2>2. UNCHANGED <<batch, used, worker>>
    BY <1>3 DEF Return
  <2> QED BY <1>a, <2>1, <2>2, SizeOfUnmoved DEF TypeInv
<1>4. CASE Check
  <2>1. batch' = <<>> /\ used' = 0
    BY <1>4 DEF Check
  <2>2. TokensIn(batch)' = {}
    BY <2>1 DEF TokensIn
  <2> QED BY <2>1, <2>2, FS_EmptySet DEF BudgetInv, SizeOf
<1>5. CASE Gather
  <2> DEFINE h == Head(queue)
  <2>1. h \in Callers /\ queue # <<>>
    BY <1>5, HeadTailProperties DEF Gather, HeadJoins, TypeInv, TypeOK
  <2>2. tokens[h] \in Sizes \union {0}
    BY <2>1 DEF TypeInv, TypeOK
  <2>3. tokens[h] \in Nat /\ used \in Nat /\ batch \in Seq(Callers)
    BY <2>2, SizeIsNat DEF TypeInv, TypeOK
  <2>4. /\ batch' = Append(batch, h) /\ used' = used + tokens[h]
        /\ worker = "gather" /\ UNCHANGED tokens
    BY <1>5 DEF Gather
  <2>5. IsFiniteSet(TokensIn(batch)) /\ used = SizeOf(batch)
    BY <2>4 DEF BudgetInv
  <2>6. /\ IsFiniteSet(TokensIn(Append(batch, h)))
        /\ SizeOf(Append(batch, h)) = used + tokens[h]
    BY <2>1, <2>3, <2>5, SizeOfAppend
  <2>7. IsFiniteSet(TokensIn(batch)') /\ used' = SizeOf(batch)'
    BY <2>4, <2>6 DEF SizeOf, TokensIn
  <2>8. Len(batch') > 1 => used' <= budget
    <3>1. CASE batch = <<>>
      BY <2>1, <2>4, <3>1, AppendProperties
    <3>2. CASE batch # <<>>
      <4>1. ~(used + tokens[h] > budget)
        BY <1>5, <3>2 DEF Gather, HeadJoins, Joins
      <4> QED BY <2>3, <2>4, <4>1, WarmToIsNat
    <3> QED BY <3>1, <3>2
  <2> QED BY <2>7, <2>8 DEF BudgetInv, budget
<1>6. CASE Unlock
  BY <1>6, <1>b DEF Unlock
<1>7. CASE Timeout \/ SpuriousWakeup \/ TimePasses
  BY <1>7, <1>b DEF Timeout, SpuriousWakeup, TimePasses
<1>8. CASE StartWarmUp
  BY <1>8, <1>b DEF StartWarmUp
<1>9. CASE WarmUpDone \/ WarmUpFailed
  BY <1>9, <1>b DEF WarmUpDone, WarmUpFailed, AfterWarmUp
<1>10. CASE RunBatch \/ FinishBatch
  BY <1>10, <1>b DEF RunBatch, FinishBatch
<1>11. CASE Reply
  BY <1>11 DEF Reply, BudgetInv
<1>12. CASE Stop \/ NotifyAll \/ Join
  BY <1>12, <1>b DEF Stop, NotifyAll, Join, Woken
<1>13. CASE UNCHANGED vars
  BY <1>13, <1>b DEF vars
<1> QED
  BY <1>1, <1>2, <1>3, <1>4, <1>5, <1>6, <1>7, <1>8, <1>9, <1>10, <1>11,
     <1>12, <1>13
  DEF Next, CallerStep, WorkerStep, Destroyed

\* Requests read together never pass the batch budget nor a model call.
THEOREM BudgetIsKept == SafeSpec => []BatchFitsBudget
<1>1. Init => BudgetInv
  BY DEF Init, BudgetInv
<1>2. TypeInv /\ BudgetInv => BatchFitsBudget
  <2>1. budget <= BatchTokens /\ budget <= CALL_TOKENS
    BY LimitsAssumption DEF budget, Smaller
  <2> QED
    BY <2>1, WarmToIsNat, LimitsAssumption
    DEF BudgetInv, BatchFitsBudget, TypeInv, TypeOK
<1>3. TypeInv => TypeOK
  BY DEF TypeInv
<1> QED
  BY <1>1, <1>2, <1>3, BudgetStep, TypeInvariant, TrackedInit, TrackedStep, PTL
  DEF SafeSpec

\* A gather that finds nothing: the worker is about to be idle.
Idling == worker = "gather" /\ batch = <<>> /\ queue = <<>>

\* While the worker is idle or warming, no queued task has been delayed yet:
\* it got there with an empty queue.  A task outside the queue has no delay.
DelayInv ==
  /\ \A c \in Callers : delays[c] <= 1
  /\ \A c \in Callers : ~Queued(c) => delays[c] = 0
  /\ worker \in {"idle", "warming"} => \A c \in Callers : delays[c] = 0
  /\ worker \in {"idle", "warming"} => batch = <<>>

\* Every step keeps a task from being delayed twice.
LEMMA DelayStep ==
  TypeOK /\ Tracked /\ DelayInv /\ [Next]_vars => DelayInv'
<1> SUFFICES ASSUME TypeOK, Tracked, DelayInv, [Next]_vars PROVE DelayInv'
  OBVIOUS
<1> USE DEF batchVars, warmVars
<1>a. UNCHANGED <<queue, delays, batch>> /\ worker' \notin {"idle", "warming"} => DelayInv'
  BY DEF DelayInv, Queued
<1>b. UNCHANGED <<queue, delays, batch, worker>> => DelayInv'
  BY DEF DelayInv, Queued
<1>1. ASSUME NEW c \in Callers, NEW t \in Sizes, Push(c, t) PROVE DelayInv'
  <2>1. \A d \in Callers : Queued(d)' <=> Queued(d) \/ d = c
    BY <1>1, InAppend DEF Push, Queued, TypeOK
  <2>2. UNCHANGED <<delays, worker, batch>>
    BY <1>1 DEF Push
  <2> QED BY <2>1, <2>2 DEF DelayInv
<1>2. ASSUME NEW c \in Callers, Notify(c) PROVE DelayInv'
  BY <1>2, <1>a, <1>b DEF Notify, Woken
<1>3. ASSUME NEW c \in Callers, Return(c) PROVE DelayInv'
  BY <1>3, <1>b DEF Return
<1>4. CASE Check
  <2>1. batch = <<>>
    BY <1>4 DEF Check, Tracked
  <2> QED BY <1>4, <1>a, <2>1 DEF Check
<1>5. CASE Timeout \/ SpuriousWakeup \/ FinishBatch
  BY <1>5, <1>a DEF Timeout, SpuriousWakeup, FinishBatch
<1>6. CASE Gather
  <2> DEFINE h == Head(queue)
  <2>1. queue # <<>> /\ h \in Callers
    BY <1>6, HeadTailProperties DEF Gather, HeadJoins, TypeOK
  <2>2. \A d \in Callers : Queued(d) <=> Queued(d)' \/ d = h
    BY <1>6, <2>1, InTail DEF Gather, Queued, TypeOK
  <2>3. /\ delays'[h] = 0
        /\ \A d \in Callers : d # h => delays'[d] = delays[d]
    BY <1>6, <2>1 DEF Gather, TypeOK
  <2>4. worker' = "gather"
    BY <1>6 DEF Gather
  <2>5. \A d \in Callers : delays'[d] <= 1 /\ (~Queued(d)' => delays'[d] = 0)
    BY <2>2, <2>3 DEF DelayInv
  <2> QED BY <2>4, <2>5 DEF DelayInv
<1>7. CASE Unlock
  <2>1. CASE batch = <<>>
    <3>1. queue = <<>>
      BY <1>7, <2>1 DEF Unlock, HeadJoins, Joins
    <3>2. \A c \in Callers : ~Queued(c)
      BY <3>1 DEF Queued, In
    <3>3. UNCHANGED <<queue, delays, batch>>
      BY <1>7 DEF Unlock
    <3>4. \A c \in Callers : delays'[c] = 0
      BY <3>2, <3>3 DEF DelayInv
    <3> QED BY <2>1, <3>3, <3>4 DEF DelayInv
  <2>2. CASE batch # <<>>
    BY <1>7, <1>a, <2>2 DEF Unlock
  <2> QED BY <2>1, <2>2
<1>8. CASE StartWarmUp
  <2>1. worker = "idle" /\ UNCHANGED <<queue, delays, batch>>
    BY <1>8 DEF StartWarmUp
  <2> QED BY <2>1 DEF DelayInv, Queued
<1>9. CASE WarmUpDone \/ WarmUpFailed
  <2>1. /\ worker = "warming" /\ worker' = "lock" /\ UNCHANGED queue
        /\ delays' = [c \in Callers |-> delays[c] + IF Queued(c) THEN 1 ELSE 0]
    BY <1>9 DEF WarmUpDone, WarmUpFailed, AfterWarmUp
  <2>2. \A c \in Callers : Queued(c)' <=> Queued(c)
    BY <2>1 DEF Queued
  <2>3. \A c \in Callers : delays[c] = 0
    BY <2>1 DEF DelayInv
  <2>4. \A c \in Callers : delays'[c] <= 1 /\ (~Queued(c)' => delays'[c] = 0)
    BY <2>1, <2>2, <2>3
  <2> QED BY <2>1, <2>4 DEF DelayInv
<1>10. CASE RunBatch \/ TimePasses
  BY <1>10, <1>a, <1>b DEF RunBatch, TimePasses
<1>11. CASE Reply
  <2>1. worker' = "reply" /\ UNCHANGED <<queue, delays>>
    BY <1>11 DEF Reply
  <2> QED BY <2>1 DEF DelayInv, Queued
<1>12. CASE Stop \/ NotifyAll \/ Join
  BY <1>12, <1>a, <1>b DEF Stop, NotifyAll, Join, Woken
<1>13. CASE UNCHANGED vars
  BY <1>13, <1>b DEF vars
<1> QED
  BY <1>1, <1>2, <1>3, <1>4, <1>5, <1>6, <1>7, <1>8, <1>9, <1>10, <1>11,
     <1>12, <1>13
  DEF Next, CallerStep, WorkerStep, Destroyed

\* A request waits for at most one warm-up call.
THEOREM OneWarmUpAtMost == SafeSpec => []WaitsForOneWarmUp
<1>1. Init => DelayInv
  BY DEF Init, DelayInv
<1>2. DelayInv => WaitsForOneWarmUp
  BY DEF DelayInv, WaitsForOneWarmUp
<1> QED
  BY <1>1, <1>2, DelayStep, TypeCorrect, TrackedInit, TrackedStep, PTL
  DEF SafeSpec

\* The warm-up goes through the lengths without gaps and never after it
\* announced its end; it is only reached with the grace over.
WarmInv ==
  /\ worker = "idle" \/ Idling => grace /\ next_warm <= warm_to
  /\ logged => next_warm > warm_to
  /\ worker = "warming" => ~logged
  /\ NoLengthSkipped

\* Every step keeps the warm-up going through the lengths without gaps.
LEMMA WarmStep == TypeInv /\ WarmInv /\ [Next]_vars => WarmInv'
<1> SUFFICES ASSUME TypeInv, WarmInv, [Next]_vars PROVE WarmInv'
  OBVIOUS
<1> USE WarmToIsNat
    DEF batchVars, warmVars, WarmInv, Idling, TypeInv, TypeOK, NoLengthSkipped
<1>1. ASSUME NEW c \in Callers, NEW t \in Sizes, Push(c, t) PROVE WarmInv'
  <2>1. worker # "gather"
    BY <1>1 DEF Push, MutexFree
  <2> QED BY <1>1, <2>1 DEF Push
<1>2. ASSUME NEW c \in Callers, Notify(c) \/ Return(c) PROVE WarmInv'
  BY <1>2 DEF Notify, Return, Woken, Asleep
<1>3. CASE Check
  BY <1>3 DEF Check, LeavesWait
<1>4. CASE Timeout \/ SpuriousWakeup \/ TimePasses
  BY <1>4 DEF Timeout, SpuriousWakeup, TimePasses, Asleep
<1>5. CASE Gather
  <2>1. batch' # <<>> /\ worker' = "gather"
    BY <1>5, HeadTailProperties, AppendProperties DEF Gather, HeadJoins
  <2> QED BY <1>5, <2>1 DEF Gather
<1>6. CASE Unlock
  <2>1. batch = <<>> => Idling
    BY <1>6 DEF Unlock, HeadJoins, Joins
  <2> QED BY <1>6, <2>1 DEF Unlock
<1>7. CASE StartWarmUp
  <2>1. PICK n \in next_warm..(warm_to + 1) :
          /\ NextCold(n)
          /\ worker' = IF n > warm_to THEN "lock" ELSE "warming"
          /\ next_warm' = IF n > warm_to THEN n ELSE n + 1
    BY <1>7 DEF StartWarmUp
  <2>2. worker = "idle" /\ UNCHANGED <<seen, logged, grace, batch, queue>>
    BY <1>7 DEF StartWarmUp
  <2>3. \A m \in next_warm..(n - 1) : m \in seen
    BY <2>1 DEF NextCold
  <2>4. next_warm <= warm_to \/ ~WarmUpFails =>
          \A m \in Lengths : m < n => m \in seen
    BY <2>2, <2>3 DEF Lengths
  <2>5. NoLengthSkipped'
    BY <2>1, <2>2, <2>4 DEF Lengths
  <2>6. ~logged
    BY <2>2
  <2>7. worker' # "idle" /\ ~Idling'
    BY <2>1
  <2>8. ~logged'
    BY <2>2, <2>6
  <2> QED BY <2>5, <2>7, <2>8 DEF Idling
<1>8. CASE WarmUpDone
  <2>1. /\ seen' = seen \union {next_warm - 1} /\ next_warm' = next_warm
        /\ worker = "warming" /\ worker' = "lock"
        /\ logged' = (logged \/ next_warm > warm_to)
    BY <1>8 DEF WarmUpDone, AfterWarmUp
  <2>2. NoLengthSkipped'
    BY <2>1
  <2> QED BY <2>1, <2>2
<1>9. CASE WarmUpFailed
  BY <1>9 DEF WarmUpFailed, AfterWarmUp
<1>10. CASE RunBatch
  <2>1. PICK ran \in SUBSET Lengths : seen' = seen \union ran
    BY <1>10 DEF RunBatch
  <2>2. /\ worker = "run" /\ worker' = "reply"
        /\ UNCHANGED <<next_warm, logged>>
    BY <1>10 DEF RunBatch
  <2> QED BY <2>1, <2>2
<1>11. CASE Reply \/ FinishBatch
  BY <1>11 DEF Reply, FinishBatch
<1>12. CASE Stop \/ NotifyAll \/ Join
  BY <1>12 DEF Stop, NotifyAll, Join, Woken, Asleep
<1>13. CASE UNCHANGED vars
  BY <1>13 DEF vars
<1> QED
  BY <1>1, <1>2, <1>3, <1>4, <1>5, <1>6, <1>7, <1>8, <1>9, <1>10, <1>11,
     <1>12, <1>13
  DEF Next, CallerStep, WorkerStep, Destroyed

\* The warm-up's invariant holds of every state.
LEMMA WarmInvariant == SafeSpec => []WarmInv
<1>1. Init => WarmInv
  BY WarmToIsNat DEF Init, WarmInv, Idling, NoLengthSkipped, Lengths
<1> QED BY <1>1, WarmStep, TypeInvariant, PTL DEF SafeSpec

\* No length behind next_warm is left cold, but where a failed call ended the
\* warm-up.
THEOREM WarmUpHasNoGaps == SafeSpec => []NoLengthSkipped
<1>1. WarmInv => NoLengthSkipped
  BY DEF WarmInv
<1> QED BY <1>1, WarmInvariant, PTL

\* Where warm-up calls do not fail, the log line is true.
THEOREM LogIsTrue == ~WarmUpFails => (SafeSpec => []LogTellsTruth)
<1> SUFFICES ASSUME ~WarmUpFails PROVE SafeSpec => []LogTellsTruth
  OBVIOUS
<1>1. TypeInv /\ WarmInv => LogTellsTruth
  BY WarmToIsNat
  DEF WarmInv, NoLengthSkipped, LogTellsTruth, Lengths, TypeInv, TypeOK
<1> QED BY <1>1, WarmInvariant, TypeInvariant, PTL

\* No warm-up call begins before the grace since the last batch is over.
THEOREM NoWarmUpInTraffic == SafeSpec => WarmUpOnlyWhenIdle
<1>1. TypeInv /\ WarmInv /\ [Next]_vars
        => [worker # "warming" /\ worker' = "warming" => grace]_vars
  <2> SUFFICES ASSUME WarmInv, [Next]_vars, worker # "warming",
                      worker' = "warming"
               PROVE  grace
    OBVIOUS
  <2>1. StartWarmUp
    BY DEF Next, CallerStep, WorkerStep, Push, Notify, Return, Check, Timeout,
           Gather, Unlock, WarmUpDone, WarmUpFailed, AfterWarmUp, RunBatch,
           Reply, FinishBatch, SpuriousWakeup, TimePasses, Stop, NotifyAll,
           Join, Destroyed, Woken, vars
  <2> QED BY <2>1 DEF StartWarmUp, WarmInv
<1> QED
  BY <1>1, WarmInvariant, TypeInvariant, PTL DEF SafeSpec, WarmUpOnlyWhenIdle

\* Warming up keeps out of the way of requests and is complete all the same.
THEOREM WarmUpsKeepOut == SafeSpec => WarmUpsInTheirPlace
BY OneWarmUpAtMost, WarmUpHasNoGaps, NoWarmUpInTraffic, PTL
   DEF WarmUpsInTheirPlace

-----------------------------------------------------------------------------
(***************************************************************************)
(* The scheduler implements ScoreService (its safety part): Push accepts,  *)
(* Reply answers the oldest request, Return returns, nothing else shows.   *)
(***************************************************************************)

\* A step of the scheduler is a step of the service, or none the callers see.
LEMMA ServiceStep == TypeOK /\ Tracked /\ [Next]_vars => [Service!Next]_(Service!vars)
<1> SUFFICES ASSUME TypeOK, Tracked, [Next]_vars
             PROVE  Service!Next \/ UNCHANGED Service!vars
  BY DEF Service!vars
<1> USE DEF batchVars, warmVars
<1>a. UNCHANGED <<queue, batch, result>> => UNCHANGED Service!vars
  BY DEF Service!vars, Pending
<1>1. ASSUME NEW c \in Callers, NEW t \in Sizes, Push(c, t)
      PROVE  Service!Accept(c)
  <2>1. Pending' = Append(Pending, c)
    BY <1>1, AppendToConcat DEF Push, Pending, TypeOK
  <2>2. ~In(c, Pending) /\ result[c] = "none"
    BY <1>1 DEF Push, Tracked, NothingLost, InScore, Waiting
  <2>3. UNCHANGED result
    BY <1>1 DEF Push
  <2> QED BY <2>1, <2>2, <2>3 DEF Service!Accept, Service!Waiting, In
<1>2. CASE Reply
  <2>1. /\ Pending # <<>>
        /\ Head(Pending) = Head(batch)
        /\ Pending' = Tail(Pending)
    BY <1>2, HeadOfConcat DEF Reply, Pending, TypeOK
  <2>2. result' = [result EXCEPT ![Head(Pending)] = outcome]
    BY <1>2, <2>1 DEF Reply
  <2>3. outcome \in Service!Outcomes
    BY DEF TypeOK, Service!Outcomes
  <2>4. Service!Answer
    BY <2>1, <2>2, <2>3 DEF Service!Answer
  <2> QED BY <2>4 DEF Service!Next
<1>3. ASSUME NEW c \in Callers, Return(c) PROVE Service!Return(c)
  BY <1>3 DEF Return, Service!Return, Pending
<1>4. CASE Gather
  <2>1. Pending' = Pending
    BY <1>4, MoveHead DEF Gather, HeadJoins, Pending, TypeOK
  <2> QED BY <1>4, <2>1 DEF Gather, Service!vars
<1>5. CASE Check
  BY <1>5, <1>a DEF Check, Tracked
<1>6. ASSUME NEW c \in Callers, Notify(c) PROVE UNCHANGED Service!vars
  BY <1>6, <1>a DEF Notify
<1>7. CASE Timeout \/ SpuriousWakeup \/ TimePasses \/ Unlock
  BY <1>7, <1>a DEF Timeout, SpuriousWakeup, TimePasses, Unlock
<1>8. CASE StartWarmUp \/ WarmUpDone \/ WarmUpFailed
  BY <1>8, <1>a DEF StartWarmUp, WarmUpDone, WarmUpFailed, AfterWarmUp
<1>9. CASE RunBatch \/ FinishBatch
  BY <1>9, <1>a DEF RunBatch, FinishBatch
<1>10. CASE Stop \/ NotifyAll \/ Join
  BY <1>10, <1>a DEF Stop, NotifyAll, Join
<1>11. CASE UNCHANGED vars
  BY <1>11, <1>a DEF vars
<1> QED
  BY <1>1, <1>2, <1>3, <1>4, <1>5, <1>6, <1>7, <1>8, <1>9, <1>10, <1>11
  DEF Next, CallerStep, WorkerStep, Destroyed, Service!Next

\* Batches, warm-ups and wakeups are invisible to the callers.
THEOREM ImplementsService == SafeSpec => Service!SafeSpec
<1>1. Init => Service!Init
  BY DEF Init, Service!Init, Pending
<1> QED
  BY <1>1, ServiceStep, TrackedInit, TrackedStep, TypeCorrect, PTL
  DEF SafeSpec, Service!SafeSpec
=============================================================================
