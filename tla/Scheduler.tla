------------------------------ MODULE Scheduler ------------------------------
(***************************************************************************)
(* src/src/scheduler.hpp: one worker thread owns the model; the threads    *)
(* that call score() queue tasks under mu_, notify the condition variable  *)
(* and block on a future; the worker gathers a batch within a token budget *)
(* and runs it, or, after IDLE_GRACE without requests, warms one prompt    *)
(* length; the destructor stops and joins the worker.                      *)
(*                                                                         *)
(* Everything the code does under one hold of mu_ is one action, except    *)
(* the gathering of a batch, a step per task ("gather" holds mu_, so no    *)
(* other thread's critical section is enabled meanwhile).  A wait on the   *)
(* condition variable and the re-acquisition of mu_ after it are separate  *)
(* steps.  The clock is one bit: has IDLE_GRACE passed since `last`.       *)
(***************************************************************************)
EXTENDS Integers, Sequences, FiniteSets

LOCAL INSTANCE SequencesExt

CONSTANTS Callers,      \* threads that call score()
          Sizes,        \* the numbers of tokens a request can have
          WarmUpTo,     \* constructor argument warm_up_to
          WARM_TOKENS,  \* Model::WARM_TOKENS
          BatchTokens,  \* constructor argument batch_tokens
          CALL_TOKENS,  \* Model::CALL_TOKENS
          WarmUpFails   \* whether a warm-up call may throw

ASSUME SizesAssumption == Sizes \subseteq Nat
ASSUME LimitsAssumption == /\ WarmUpTo \in Nat
                           /\ WARM_TOKENS \in Nat
                           /\ BatchTokens \in Nat
                           /\ CALL_TOKENS \in Nat
                           /\ WarmUpFails \in BOOLEAN

Smaller(a, b) == IF a <= b THEN a ELSE b
In(c, s) == \E i \in DOMAIN s : s[i] = c
Distinct(s) == \A i, j \in DOMAIN s : s[i] = s[j] => i = j

warm_to == Smaller(WarmUpTo, WARM_TOKENS)
BudgetUnclamped == BatchTokens
budget == Smaller(BatchTokens, CALL_TOKENS)
Lengths == 1..warm_to

VARIABLES queue,      \* queue_: tasks (named by their caller) not yet gathered
          tokens,     \* the size of each caller's task
          result,     \* what each task's promise holds
          caller,     \* where each caller is in score()
          worker,     \* where the worker is in loop()
          batch,      \* tasks gathered and not answered yet
          used,       \* tokens of the batch gathered (local of loop())
          outcome,    \* whether score_batch returned or threw
          next_warm,  \* local of loop()
          seen,       \* Model::Impl::seen, for the lengths the warm-up is about
          grace,      \* IDLE_GRACE has passed since `last`
          stop,       \* stop_
          main,       \* where the owner is: serving, or in ~Scheduler
          logged,     \* "warmed prompt lengths 1-N" was printed
          delays      \* per caller: warm-up calls that ran while its task was
                      \* queued (history, read by no action)

warmVars == <<next_warm, seen, logged>>
batchVars == <<batch, used, outcome>>
vars == <<queue, tokens, result, caller, worker, batchVars, warmVars, grace,
          stop, main, delays>>

WorkerPlaces == {"lock", "wait", "wait_for", "gather", "idle", "warming",
                 "run", "reply", "returned"}
Asleep == worker \in {"wait", "wait_for"}
MutexFree == worker # "gather"

TypeOK ==
  /\ queue \in Seq(Callers)
  /\ tokens \in [Callers -> Sizes \union {0}]
  /\ result \in [Callers -> {"none", "value", "error"}]
  /\ caller \in [Callers -> {"outside", "notify", "get"}]
  /\ worker \in WorkerPlaces
  /\ batch \in Seq(Callers)
  /\ used \in Nat
  /\ outcome \in {"value", "error"}
  /\ next_warm \in 1..(warm_to + 1)
  /\ seen \subseteq Lengths
  /\ grace \in BOOLEAN
  /\ stop \in BOOLEAN
  /\ main \in {"serving", "notify", "join", "joined"}
  /\ logged \in BOOLEAN
  /\ delays \in [Callers -> Nat]

Init == /\ queue = <<>>
        /\ tokens = [c \in Callers |-> 0]
        /\ result = [c \in Callers |-> "none"]
        /\ caller = [c \in Callers |-> "outside"]
        /\ worker = "lock"
        /\ batch = <<>>
        /\ used = 0
        /\ outcome = "value"
        /\ next_warm = 1
        \* Model::warmup() ran other lengths, or these, before the constructor
        /\ seen \in SUBSET Lengths
        /\ grace = FALSE
        /\ stop = FALSE
        /\ main = "serving"
        /\ logged = FALSE
        /\ delays = [c \in Callers |-> 0]

-----------------------------------------------------------------------------
\* The worker, woken by a notification: it has to take mu_ again.
WokenFromTimedWaitOnly == IF worker = "wait_for" THEN "lock" ELSE worker
Woken == IF Asleep THEN "lock" ELSE worker

\* score() up to the end of its critical section.
Push(c, t) ==
  /\ main = "serving"
  /\ caller[c] = "outside"
  /\ MutexFree
  /\ tokens' = [tokens EXCEPT ![c] = t]
  /\ queue' = Append(queue, c)
  /\ caller' = [caller EXCEPT ![c] = "notify"]
  /\ UNCHANGED <<result, worker, batchVars, warmVars, grace, stop, main,
                 delays>>

\* cv_.notify_one(), outside the mutex; only the worker ever waits.
Notify(c) ==
  /\ caller[c] = "notify"
  /\ caller' = [caller EXCEPT ![c] = "get"]
  /\ worker' = Woken
  /\ UNCHANGED <<queue, tokens, result, batchVars, warmVars, grace, stop,
                 main, delays>>

\* done.get() returns or rethrows.
Return(c) ==
  /\ caller[c] = "get"
  /\ result[c] # "none"
  /\ caller' = [caller EXCEPT ![c] = "outside"]
  /\ result' = [result EXCEPT ![c] = "none"]
  /\ tokens' = [tokens EXCEPT ![c] = 0]
  /\ UNCHANGED <<queue, worker, batchVars, warmVars, grace, stop,
                 main, delays>>

-----------------------------------------------------------------------------
\* The head of loop(), under mu_: return, wait, or leave the waiting loop
\* (with tasks, or with none once the server is idle).
LeavesWaitEarly == queue # <<>> \/ next_warm <= warm_to
LeavesWait == queue # <<>> \/ (next_warm <= warm_to /\ grace)

CheckWithoutReturn ==
  /\ worker = "lock"
  /\ worker' = IF stop \/ LeavesWait THEN "gather"
               ELSE IF next_warm > warm_to THEN "wait" ELSE "wait_for"
  /\ batch' = <<>>
  /\ used' = 0
  /\ UNCHANGED <<queue, tokens, result, caller, outcome, warmVars, grace, stop,
                 main, delays>>
Check ==
  /\ worker = "lock"
  /\ worker' = IF stop THEN "returned"
               ELSE IF LeavesWait THEN "gather"
               ELSE IF next_warm > warm_to THEN "wait" ELSE "wait_for"
  /\ batch' = <<>>
  /\ used' = 0
  /\ UNCHANGED <<queue, tokens, result, caller, outcome, warmVars, grace, stop,
                 main, delays>>

\* wait_for's timeout, and the spurious wakeups both waits may have.
Timeout == /\ worker = "wait_for"
           /\ grace
           /\ worker' = "lock"
           /\ UNCHANGED <<queue, tokens, result, caller, batchVars, warmVars,
                          grace, stop, main, delays>>

SpuriousWakeup == /\ Asleep
                  /\ worker' = "lock"
                  /\ UNCHANGED <<queue, tokens, result, caller, batchVars,
                                 warmVars, grace, stop, main, delays>>

\* One turn of the loop that moves tasks from the queue to the batch.
Joins(t) == batch = <<>> \/ ~(budget = 0 \/ used + t > budget)
HeadJoins == queue # <<>> /\ Joins(tokens[Head(queue)])

GatherNewest ==
  /\ worker = "gather"
  /\ queue # <<>>
  /\ Joins(tokens[Last(queue)])
  /\ batch' = Append(batch, Last(queue))
  /\ queue' = Front(queue)
  /\ used' = used + tokens[Last(queue)]
  /\ delays' = [delays EXCEPT ![Last(queue)] = 0]
  /\ UNCHANGED <<tokens, result, caller, worker, outcome, warmVars, grace,
                 stop, main>>
Gather ==
  /\ worker = "gather"
  /\ HeadJoins
  /\ batch' = Append(batch, Head(queue))
  /\ queue' = Tail(queue)
  /\ used' = used + tokens[Head(queue)]
  /\ delays' = [delays EXCEPT ![Head(queue)] = 0]
  /\ UNCHANGED <<tokens, result, caller, worker, outcome, warmVars, grace,
                 stop, main>>

\* The end of that loop, which releases mu_.
Unlock ==
  /\ worker = "gather"
  /\ ~HeadJoins
  /\ worker' = IF batch = <<>> THEN "idle" ELSE "run"
  /\ UNCHANGED <<queue, tokens, result, caller, batchVars, warmVars, grace,
                 stop, main, delays>>

-----------------------------------------------------------------------------
\* Idle: the next length no call has run yet; back to the waiting loop when
\* there is none.  A length being warmed is next_warm - 1.
NextCold(n) == n \notin seen /\ \A m \in next_warm..(n - 1) : m \in seen

StartWarmUp ==
  /\ worker = "idle"
  /\ \E n \in next_warm..(warm_to + 1) :
       /\ NextCold(n)
       /\ worker' = IF n > warm_to THEN "lock" ELSE "warming"
       /\ next_warm' = IF n > warm_to THEN n ELSE n + 1
  /\ UNCHANGED <<queue, tokens, result, caller, batchVars, seen, logged, grace,
                 stop, main, delays>>

Queued(c) == In(c, queue)

AfterWarmUp(next) ==
  /\ worker' = "lock"
  /\ next_warm' = next
  /\ logged' = (logged \/ next > warm_to)
  /\ delays' = [c \in Callers |-> delays[c] + IF Queued(c) THEN 1 ELSE 0]
  /\ UNCHANGED <<queue, tokens, result, caller, batchVars, grace, stop, main>>

WarmUpDone == /\ worker = "warming"
              /\ seen' = seen \union {next_warm - 1}
              /\ AfterWarmUp(next_warm)

\* warm_length threw: warming stops for good, and the log line is printed all
\* the same.
WarmUpFailed == /\ WarmUpFails
                /\ worker = "warming"
                /\ UNCHANGED seen
                /\ AfterWarmUp(warm_to + 1)

-----------------------------------------------------------------------------
\* model_.score_batch returns or throws; its calls ran some lengths.
RunBatch ==
  /\ worker = "run"
  /\ worker' = "reply"
  /\ outcome' \in {"value", "error"}
  /\ \E ran \in SUBSET Lengths : seen' = seen \union ran
  /\ UNCHANGED <<queue, tokens, result, caller, batch, used, next_warm, logged,
                 grace, stop, main, delays>>

\* One promise of the batch is set: its caller may run before the next one.
ReplyErrorToFirstOnly ==
  /\ worker = "reply"
  /\ batch # <<>>
  /\ result' = [result EXCEPT ![Head(batch)] = outcome]
  /\ batch' = IF outcome = "error" THEN <<>> ELSE Tail(batch)
  /\ UNCHANGED <<queue, tokens, caller, worker, used, outcome, warmVars, grace,
                 stop, main, delays>>
Reply ==
  /\ worker = "reply"
  /\ batch # <<>>
  /\ result' = [result EXCEPT ![Head(batch)] = outcome]
  /\ batch' = Tail(batch)
  /\ UNCHANGED <<queue, tokens, caller, worker, used, outcome, warmVars, grace,
                 stop, main, delays>>

\* last = Clock::now()
FinishBatch ==
  /\ worker = "reply"
  /\ batch = <<>>
  /\ worker' = "lock"
  /\ grace' = FALSE
  /\ UNCHANGED <<queue, tokens, result, caller, batchVars, warmVars, stop, main,
                 delays>>

TimePasses == /\ ~grace
              /\ grace' = TRUE
              /\ UNCHANGED <<queue, tokens, result, caller, worker, batchVars,
                             warmVars, stop, main, delays>>

-----------------------------------------------------------------------------
\* ~Scheduler.  The owner destroys the scheduler after the last call of
\* score() returned: serve() joins the handler threads before it returns, and
\* decide calls score() from the thread that destroys the scheduler.
Stop == /\ main = "serving"
        /\ \A c \in Callers : caller[c] = "outside"
        /\ MutexFree
        /\ stop' = TRUE
        /\ main' = "notify"
        /\ UNCHANGED <<queue, tokens, result, caller, worker, batchVars,
                       warmVars, grace, delays>>

NotifyAll == /\ main = "notify"
             /\ main' = "join"
             /\ worker' = Woken
             /\ UNCHANGED <<queue, tokens, result, caller, batchVars, warmVars,
                            grace, stop, delays>>

Join == /\ main = "join"
        /\ worker = "returned"
        /\ main' = "joined"
        /\ UNCHANGED <<queue, tokens, result, caller, worker, batchVars,
                       warmVars, grace, stop, delays>>

Destroyed == main = "joined" /\ UNCHANGED vars

-----------------------------------------------------------------------------
CallerStep(c) == (\E t \in Sizes : Push(c, t)) \/ Notify(c) \/ Return(c)

WorkerStep == \/ Check \/ Timeout \/ Gather \/ Unlock
              \/ StartWarmUp \/ WarmUpDone \/ WarmUpFailed
              \/ RunBatch \/ Reply \/ FinishBatch

Next == \/ \E c \in Callers : CallerStep(c)
        \/ WorkerStep
        \/ SpuriousWakeup
        \/ TimePasses
        \/ Stop \/ NotifyAll \/ Join
        \/ Destroyed

SafeSpec == Init /\ [][Next]_vars

\* Threads that can run do run, model calls end and time passes.  Nobody is
\* obliged to call score() or to destroy the scheduler, and no wakeup is
\* promised but by a notification or a timeout.
Fairness == /\ WF_vars(WorkerStep)
            /\ WF_vars(TimePasses)
            /\ \A c \in Callers : WF_vars(Notify(c)) /\ WF_vars(Return(c))
            /\ WF_vars(NotifyAll)
            /\ WF_vars(Join)

Spec == SafeSpec /\ Fairness

-----------------------------------------------------------------------------
\* Tasks not answered yet, in the order they will be answered.
Pending == batch \o queue
InScore(c) == caller[c] # "outside"
Waiting(c) == In(c, Pending)

\* A request is in the scheduler exactly while its caller is blocked without
\* an answer, and once: neither a batch that fails nor a caller that comes
\* back while the rest of its batch is being answered loses or repeats one.
NothingLost ==
  /\ \A c \in Callers : Waiting(c) <=> (InScore(c) /\ result[c] = "none")
  /\ Distinct(Pending)

\* The worker never sleeps on work: while it waits with a task queued (or
\* with stop_ set), the thread that changed that is about to notify.  The
\* predicate is read and the wait entered under the one mutex.
NoLostWakeup ==
  Asleep => /\ queue # <<>> => \E c \in Callers : caller[c] = "notify"
            /\ stop => main = "notify"

\* The tokens a sequence of tasks brings: one element per token, counted.
TokensIn(s) == UNION {{i} \X (1..tokens[s[i]]) : i \in DOMAIN s}
SizeOf(s) == Cardinality(TokensIn(s))

\* Requests are read together only while all of them fit the batch budget
\* and a model call (CALL_TOKENS), whatever budget the command line asks for.
BatchFitsBudget ==
  worker \in {"gather", "run"} /\ Len(batch) > 1 =>
    /\ SizeOf(batch) <= BatchTokens
    /\ SizeOf(batch) <= CALL_TOKENS

\* "A request arriving during a warm-up call waits for that one call."
WaitsForOneWarmUp == \A c \in Callers : Queued(c) => delays[c] <= 1

\* The warm-up skips no length: every length behind next_warm has run, unless
\* it is the one being warmed; a call that fails ends the warm-up at once, so
\* while lengths are left none behind them is cold for a failure either.
NoLengthSkipped ==
  next_warm <= warm_to \/ ~WarmUpFails =>
    \A n \in Lengths : n < next_warm =>
       n \in seen \/ (worker = "warming" /\ n = next_warm - 1)

\* What the log line says: prompt lengths 1-N are warmed.
LogTellsTruth == logged => Lengths \subseteq seen

\* "The warm-up starts only after IDLE_GRACE without requests": no warm-up
\* call begins before the grace since the last batch is over.
WarmUpOnlyWhenIdle ==
  [][worker # "warming" /\ worker' = "warming" => grace]_vars

\* Warming up keeps out of the way of requests and is complete all the same.
WarmUpsInTheirPlace == /\ []WaitsForOneWarmUp
                       /\ []NoLengthSkipped
                       /\ WarmUpOnlyWhenIdle

\* Every call of score() returns.
EveryCallReturns == \A c \in Callers : InScore(c) ~> ~InScore(c)

\* The destructor returns: the worker is never left asleep or busy.
DestructorReturns == main = "notify" ~> main = "joined"

\* The scheduler implements ScoreService: batches, warm-ups and wakeups are
\* invisible to the callers, order and outcomes are not changed by them.
Service == INSTANCE ScoreService WITH pending <- Pending, answer <- result
ServiceSpec == Service!Spec
=============================================================================
