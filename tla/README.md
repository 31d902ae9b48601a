# jev: verification project

TLA+ models of [jev](https://github.com/feder-cr/jev), a server that answers typed questions about a
text with a local model, and machine-checked proofs about them. Every module is a translation of
the C++ under `src/`; paths below are relative to the repository (`src/scheduler.hpp` is the file
`src/src/scheduler.hpp` of `PROJECT.json`). `PROJECT.json` gives, for every definition that models code,
the lines it stands for.

Check a module: `tlc -config SchedulerServe.cfg MCScheduler`. Check its proofs: `tlapm SchedulerProofs.tla`.

## 1. The system

`jev serve` reads a request (a state and typed questions about it) on one of httplib's handler threads,
checks it, turns each question into yes/no prompts, tokenizes them, and hands them to one scheduler,
whose worker thread owns the model. The worker reads requests that are waiting together in one model call,
resumes states it has read before from snapshots, splits long states, and warms up prompt lengths when
idle. `jev decide` does the same for one request file without a server. A server starts by loading its
model folder while another thread hashes it, then takes its port.

    handler threads --check_wire, to_native, check_native--> prompts --tokenize_request (a pool)--> ScoreRequest
         |  score(): queue + condition variable + future                                  
         v
    Scheduler worker --score_batch--> Model::Impl --find/wants/add--> SnapshotIndex <--stats-- GET /health
                                          |  plan_calls, prompt_tree, run
         choose / rate  <-- P(yes) per prompt --+

| component | source | state it keeps | operations | what is hard about it |
|---|---|---|---|---|
| Scheduler | `scheduler.hpp` | queue, stop flag, mutex and condition variable; the worker's `next_warm`, `last` | `score`, `loop`, destructor | lost wakeups, a batch within two budgets, failing batches and warm-ups, shutdown at any moment |
| State snapshots | `snapshots.hpp` | entries with a use stamp, the tokens kept, published counters | `find`, `wants`, `add`, `stats` | two limits at once, least-recently-used order over three operations, entries in use while others are added, exceptions half way, a concurrent reader |
| Request splitting | `calls.hpp` | none (a plan is computed) | `plan_calls` | a budget shared by the rest of the state and the questions; progress |
| Prompt tree | `tree.hpp` | none | `prompt_tree`, `added_tokens` | shared runs read once, equal questions, questions that are the start of others; the plan must count what the tree reads |
| Model engine | `model.cpp`, `tokens.hpp` | snapshots, lengths seen, the inference request | `score_batch`, `score_one`, `run`, `extend`, `first` | the attention mask: which cells each row may see; positional pairing of answers |
| Request tokens | `request_tokens.cpp` | locals shared by a pool of threads | `tokenize_request` | an atomic counter moved by a failing thread, thread creation that fails, prompts as short as the state |
| Score answers | `score.hpp` | none | `rate` | pooling of adjacent violators |
| Choice answers | `choice.hpp` | none | `choose` | the layout of its argument, a sum of zero |
| HTTP server and API | `server.cpp` | none between requests, but what the threads keep | `POST /v1/systemone`, `GET /health`, `/v1/models` | the order of checks made in several passes, the layout of prompts |
| Wire checks | `wire.cpp` | `recursion_leak`, per thread | `check_wire`, `to_native`, `check_native` | a counter that outlives the request, the paths of errors |
| JSON and UTF-8 | `pyjson.hpp` | none | `decode_utf8`, `utf8_error`, `append_utf8`, `loads`, `dumps` | byte boundaries, cut escapes, repeated keys, two limits, floats |
| Python's strings | `text.hpp` | none | `py_strip`, `utf8_length`, `surrogate_error` | walking back over bytes |
| jev serve start | `main.cpp`, `server.cpp`, `sha256.hpp` | the model folder, a hashing thread, the port | `main`, `model_files`, `serve` | two threads reading a folder that may change, failures on either, several servers and one port |
| jev decide | `main.cpp` | an answer file | `write_answer` | several processes, killed processes, a full disk |
| Prompt texts and errors | `prompt.hpp`, `errors.hpp` | none | `render_state`, `text_of`, `wire_err` | modelled with the checks, wording left out |
| Vocabulary, compression of SHA-256, options, export | `vocab.cpp`, `sha256.hpp`, `main.cpp`, `export/` | none | wrappers, arithmetic | not modelled, see section 7 |

What makes each correct is the list of properties in section 3; the hazards they answer to are listed
line by line under `hazards` in `PROJECT.json`.

## 2. The modules

| module | models | by itself or with |
|---|---|---|
| `ScoreService` | what `Scheduler::score` promises its callers: requests answered in order, each once | abstract specification |
| `Scheduler` | `scheduler.hpp`, every critical section, wait, notification and reply a step | implements `ScoreService` |
| `LruCache` | what the snapshot index promises: least recently used entries go, and only when needed | abstract specification |
| `Snapshots` | `snapshots.hpp` and its use in a batch, beside the thread of `/health` | implements `LruCache` |
| `PromptTokens` | `added_tokens` | used by `PlanCalls`, `PromptTree` |
| `PlanCalls` | `plan_calls`, a turn of each loop a step | |
| `PromptTree` | `prompt_tree`, as a recursive function | used by `Engine`, `CallTrees` |
| `CallTrees` | the calls of a plan and the trees `run` makes of their questions | `PlanCalls` with `PromptTree` |
| `Engine` | `score_one`, `score_batch`, `run`, `extend`, `first` over an abstract network | extends `PromptTree` |
| `RequestTokens` | `tokenize_request` | |
| `Sums` | the sum of the start of a list | used by `Engine`, `Rate` |
| `Rate`, `Choice` | `rate` and `choose` in exact fractions | `Choice` extends `Rate` |
| `Utf8`, `PyText` | the UTF-8 functions of `pyjson.hpp`; the string functions of `text.hpp` | `PyText` extends `Utf8` |
| `Texts` | a body that is not JSON taken as a text, and what the functions on bytes promise of any bytes | extends `PyText` |
| `Values` | the values of JSON, what they are made of, how deep | used by `Json`, `Wire` |
| `Json` | `loads` and `dumps` | extends `Values`; used by `Bodies` |
| `JsonGrammar` | what JSON as the Python parser takes it is: a grammar without positions, the reference for `Json` | abstract specification |
| `Bodies` | a body from its bytes to a value, to text, and read again | extends `JsonGrammar` (`Json`) and `Texts` |
| `Wire` | `check_wire`, `to_native`, `check_native`, the prompts and the errors | extends `Values`; `dumps` is its constant `Dumps`, which `MCServer` takes from `Json` |
| `Server` | the handler of `POST /v1/systemone` and `Api::systemone` | `Wire`, over `ScoreService` |
| `Serve` | `jev serve` from its first file to its port, several processes | |
| `Decide` | `jev decide --output` under shell loops | |
| `MC...` | the inputs TLC is given | |
| `SchedulerProofs`, `SnapshotsProofs`, `TreeProofs`, `PlanCallsProofs`, `EngineProofs`, `TextsProofs`, `RateProofs`, `CommandsProofs` | theorems | `PlanCallsProofs`, `EngineProofs`, `TextsProofs`, `RateProofs` and `CommandsProofs` extend `TreeProofs`; `TextsProofs` is about `RequestTokens` and `Texts`, `CommandsProofs` about `Serve`, `Decide` and `Server` (with `Wire`) |

Correspondence, where it is not plain from the names:

- **Scheduler.** What the code does under one hold of `mu_` is one action, since no other thread can see
  the middle; gathering is a step per task with the mutex held (`MutexFree`). Waiting and taking the mutex
  again are two steps, so notifications, timeouts and spurious wakeups fall between them. The promises of
  a batch are set one by one (`Reply`), so a caller may return, and queue again, while the rest of its batch
  is still unanswered. Time is one bit: has `IDLE_GRACE` passed since the last batch. `RunBatch` may mark any
  lengths as seen, whatever the engine ran.
- **Snapshots.** An entry is its tokens and two stamps: `used` (the code's) and `added` (its place in the
  vector, which decides between equally good entries in `find`). A batch goes through the phases of
  `score_one`/`score_batch`: find per request, the call, wants per request, add per new state with eviction,
  push and publication as steps of their own, because `/health` reads between them and `push_back` may throw
  (`PushFails`). What `LruCache` calls `wasted` is by how much `kept_` then exceeds the tokens kept.
- **Engine.** The network is abstract: a cell is the history of tokens it was computed from, and is
  `Garbage` if the mask let it see anything that is not one history at its own positions. An answer is the
  history its row saw, so "the answer to this question" is an equation.
- **Json.** A text is a sequence of characters, a value a record of its kind and items. The frames of the
  parser's stack are the recursion of `Scan`; what `hex4` and the number scanner read past the end is the
  character `past`, any character at all. A float is its decimal digits and exponent (`Strtod` is external), so
  the layout of `float_repr` is modelled and rounding is not.
- **Wire, Server.** `too_deep` is written as what is found in a value at each depth from what is found one level down (`Deeper`), a loop that
  passes the errors on as a function of how far it is. `Dumps` is any function that writes exactly the surrogates of its value and brackets around
  a container (`DumpsAssumption`, checked of `Json`'s `Dump` on the run). A request is the value its body was read as. A word the code compares with is one character. The
  checks pass on the errors so far and the recursion counter; each check is an action of the handler. Errors
  keep their type, path, input and what their message quotes, not its wording. An answer is the set of prompts each mean is taken over.
- **Rate, Choice.** Answers are integers over a common denominator, so comparisons and sums are exact; the code
  computes in doubles, and rounding is not modelled.
- **Serve.** A file is a version or missing; reading it is one step, for main as for the hashing thread. `bind()` and
  `listen()` are Linux's, refused according to the options both sockets set; httplib calls both in `bind_to_port`. A process that ends
  loses its memory and socket, and may leave its port in TIME_WAIT.

## 3. The runs

| run | module, cfg | what it shows | bounds |
|---|---|---|---|
| `scheduler_serve` | `MCScheduler`, `SchedulerServe` | nothing lost or answered twice, no lost wakeup, a batch within the budget and a model call; a warm-up call only after the grace, one at most in a request's way, no length skipped while there are some left; all with warm-up calls that may fail and end the warming | three callers, sizes 1 to 3 against a budget of 5 clamped to 4 (batches of three, full ones, a task left behind); three lengths to warm; callers symmetric |
| `scheduler_live` | `MCScheduler`, `SchedulerLive` | every call returns, the destructor returns, `ScoreService` is implemented, with failing warm-ups | two callers, two lengths |
| `snapshots_cache` | `MCSnapshots`, `SnapshotsCache` | the limits hold and no entry in use is freed, `/health` never shows more states than the limit, nor more tokens but for those that failed pushes have left in `kept_` (`Drift`, 0 until one fails), `LruCache` is implemented; all with pushes that may throw after `kept_` has grown | two entries, six tokens: two states that exceed the tokens together, three that only the count keeps apart, one too short, one whose prefix passes its state, one without boundary; batches of two; `MaxTick` 6 uses |
| `plan_calls` | `MCPlanCalls`, `PlanCallsSplit` | the state in order, each question once, calls of several questions within the budget, pieces and calls only when needed, pieces within theirs (but for the rest of a request without questions, section 4); each call's tree spells its questions, a leaf each, and reads as many tokens as the plan counted | up to three questions of five kinds, states of 0 and 4 tokens from three places, budgets 3, 5, 6, pieces 1, 3, 4 (shorter than a call, as long, longer as in `Model`); all lists of three questions of one to three tokens of two kinds in one call, and two lists of four that branch twice |
| `engine_answers` | `MCEngine`, `EngineAnswers` | each answer comes from its own prompt, each snapshot from its own state, no call reads more than `tokens()` says | four requests, alone under every plan and in pairs, from every snapshot they leave |
| `request_tokens` | `MCRequestTokens`, `RequestTokensPool` | the pool gives the tokens one thread gives or fails, no thread outlives the call, state and prefix are the longest that leave each prompt a token | two threads, created or refused, over two or three prompts, any set of texts failing; without a pool every list of up to three of eight prompts against five states |
| `rate` | `MCRate`, `RateFit` | the pooling is the isotonic fit (checked against its min-max definition), the expected level is the sum of the answers, confidence 1 means one level; a choice's probabilities are to each other as the yeses, its confidence 0 if no option stands out and 1 if one got all | answers in thirds to one to four thresholds or options; two phrasings up to two |
| `bodies` | `MCBodies`, `Bodies` | every well-formed text is kept and every error is the standard's, at its place; `py_strip` on bytes is `strip` on characters; `loads` accepts and reads exactly what `JsonGrammar` does, its errors have only good text before them and look at nothing past the end; what `dumps` writes reads back with every option | bytes at both sides of every boundary in strings of up to three and some of five; texts over the structure's characters up to four, over those of numbers up to five, after a quote up to four; thirteen longer ones with every cut and every character left out or replaced; floats at every turn of the layout; nesting limit 2, digit limit 3 (900 and 4300 in the code: only the distance matters) |
| `utf8_first` | `MCBodies`, `BodiesFirst` | finding: F5 to FF are read as first bytes of three | strings of up to three of five bytes |
| `server_checks` | `MCServer`, `ServerChecks` | a request is accepted exactly if `GoodRequest`, which says it as a schema and not as a sequence of checks, and whatever the thread answered before; the first problem of the prompts is the one reported; an error shows the value its path leads to; answers are where they were asked | two threads over one scheduler; a good request with every value in turn replaced by each kind of value, nested to, at and past the limit (4), and some two at once; questions of all kinds, counts at and past each limit; prompts that fit 13 tokens or not; two phrasings where the code has one, so that the layout matters |
| `serve_start` | `MCServe`, `ServeStart` | one server per port, a start refused its port only by a server that listens, `/health`'s hashes are those of the files loaded unless they were written to, every start ends or serves | two processes that want one port, three starts, one write to the folder, killed at any time |
| `decide_loops` | `MCDecide`, `DecideLoops` | answers never written over, exit status tells answers from failures | two loops, four files, any process killed anywhere, the disk filling up at any time |

`CHECK_DEADLOCK FALSE` stands where a computation ends (`PlanCalls`, `RequestTokens`, `Rate`, `Bodies`,
`Decide`) or the bound on starts is reached (`Serve`); the scheduler, the snapshots, the engine and the server run on, and deadlock is checked.
Every property has a mutant: an operator beside the one it mutates (`GatherNewest` beside `Gather`)
which, put in its place, makes the property fail on the same run. Mutants are part of no specification.

**Bounds.** The small sizes stand for large ones where the code only compares: budgets and limits are
reached, passed by one and left by one in each run. `MaxTick` bounds the uses of the index (`tick_` is a
`uint64_t`), `MaxBatch` the requests in a batch, `MaxStarts` and `MaxWrites` what happens around a start. What the runs leave open in
size, the theorems of section 5 prove for the scheduler, the index, the planner, the trees, the engine, the pool, ratings, choices, the server and its checks, the start and decide, and of UTF-8.

**Fairness.** `Scheduler`: threads that can run do (`WF` of the worker's steps, of each caller's notify and
return, of the owner's steps) and time passes; nobody must call or destroy, and spurious wakeups are never
relied upon. These are promises of the operating system and of the standard's condition variable, plus that a
model call ends. `Serve`: both threads of a process run as long as it is not killed; nobody must start, kill or write. `Server` has none: that
every request is answered is `EveryCallReturns` of the scheduler and a handler that goes on.

## 4. What the models found

One disagreement between code and comment is a run of its own: **UTF-8 first bytes** (`utf8_first`). `decode_utf8`
takes every byte from F5 on as the first of three (`pyjson.hpp:86`), where its comment says "false on invalid input".

The others are outcomes the models contain and the properties are stated around; none is a run:

- **Log after a failed warm-up.** `warm_length` throwing sets `next_warm` past the end, and the code below prints "warmed prompt
  lengths 1-N" with lengths still cold (`scheduler.hpp:96-102`; `WarmUpFailed`). The run has such failures: `NoLengthSkipped` then speaks of the lengths behind `next_warm` while
  some are left, since a failed call ends the warming. That none is cold at the end, and that the log line is true, is proved for calls that do not fail (`WarmUpHasNoGaps`, `LogIsTrue`).
- **Drift of `kept_`.** `add` grows `kept_` before the allocations that may throw (`snapshots.hpp:58`; `PushFails`); the scheduler
  survives the exception, and the index evicts states it has room for from then on (`wasted`). The states kept never pass the limits (`LimitsHold`), but
  what `/health` shows may: `kept_` is what is published, and an `add` that has evicted every entry pushes whatever `kept_` says (`snapshots.hpp:53-62`), so after failed pushes
  `tokens` may be above `max_tokens`, by at most the tokens of the pushes that failed (`ReportWithinLimits`, `Drift`).
- **A call over its budget.** The decision to stop reading pieces looks at the cheapest question, the call takes the first one
  (`calls.hpp:29`, `:39`), so a call of one question may exceed the budget where the question alone does not; the plan
  test's header excepts only a question that alone exceeds it. `CallsFitBudget` states what does hold.
- **A piece over its budget.** A request without questions reads the rest of its state in one call as soon as it fits the call budget, whatever the piece
  budget (`calls.hpp:46`, `LastPiece`): four tokens with a piece budget of 1 and a call budget of 5 are one piece of four. The comment has a piece
  "of at most `piece_budget`" (`calls.hpp:19-20`) and the plan test asserts `tokens <= piece` of every call without questions (`plan_calls_test.cpp:85`), but tries no such
  request with pieces shorter than calls. `Model` never plans that way, for its pieces (2048) are longer than its calls (1024, `model.hpp:24-25`): there every piece is within its
  budget, which follows from `NeededPiece`; the run has pieces shorter and longer than calls.
- **Thread creation.** `std::thread` throwing while others of the pool run destroys joinable threads, which ends the server
  (`request_tokens.cpp:26`; `SpawnFails`, "terminated").
- **Checks that never fire.** What `check_wire` and `check_native` accept can always be encoded, so the loop over prompts at
  `server.cpp:68-76` never finds one that cannot (`VerdictIsRequests`).
- **A folder replaced during a start.** The files are read and hashed at different times and nothing compares them: a server whose folder
  was replaced meanwhile may run on one version and tell the hashes of another (`Write`; `HealthTellsLoaded` is about files nobody wrote to).
- **Unchecked writes.** `write_answer` ignores `fwrite` and `fclose` (`main.cpp:96-97`): with the disk full it leaves a truncated
  answer and status 0 (`full` in `StatusTellsAnswers`).
- **Killed processes.** One killed between `fopen` and `fclose` leaves a file that later loops skip (`Killed`).

## 5. What is proved

TLAPS checks these for every value of the constants that satisfies the modules' assumptions (which
TLC evaluates on the runs' values).

**`SchedulerProofs`** (any set of callers, sizes, limits). `TypeInv` adds to the types that a warm-up call is about the length before `next_warm`.
`Tracked` strengthens `NothingLost` by where the batch may be non-empty: `Pending`, the batch followed by the queue, changes only by `Push` at the
end and `Reply` at the head, so all other steps leave it unmoved (`TrackedUnmoved`). From it:
`NothingIsLost`; `NoWakeupIsLost` (with `StopInv`: `stop` is set exactly when the owner is in the destructor);
`BudgetIsKept` (with `BudgetInv`: `used` is the size of the batch, counted as a set of tokens so that appending a task is a disjoint
union); `OneWarmUpAtMost` (with `DelayInv`: while a warm-up can begin, no queued task has been delayed); `WarmUpHasNoGaps`, `LogIsTrue`,
`NoWarmUpInTraffic` (with `WarmInv`: whatever leads to a warm-up has the grace), the three of them as `WarmUpsKeepOut`; `ImplementsService`, the safety part of the
refinement, from `Tracked` and the types, each step mapped to a step of `ScoreService` or a stutter.

**`SnapshotsProofs`** (any requests and limits). The index and the model thread's phase are tied together: entries found stay while they may be read, fresh states are
distinct and not kept, and `kept_` is the size of a set of cells, so an eviction subtracts what it removes. Results: `TypeCorrect`
(`kept_` never goes below zero, where the code's `size_t` would wrap), `NoStateTwice`, `KeptCountsCells`, `LimitsHold` (even when a push throws), `NoEntryFreedInUse`,
`EvictionsAreNeeded`, `HealthWithinLimits` (with `DriftGrows`: only a failed push moves `kept_` away from the entries' tokens, and only up, so what was published under the
limit and the drift of its time stays under today's), `HealthCountsEntries`.
`ImplementsLruCache` is the refinement of `LruCache`: the kept states in the order of their stamps are its list (`ByUse` is a sequence
of them, unique since stamps differ), a `find` that refreshes an entry moves it to the end, an eviction takes the head, and each step
maps to one of its steps or to a stutter.

**`TreeProofs`** (any questions; and, for the modules that extend it, lists laid end to end, `FlattenIs`). Induction and recursion over the naturals are derived from the well-founded order of `Nat`, by the least number that
would not have a property (`Least`, `Induct`, `Recursion`), so that nothing depends on the library's theorems with operator parameters. `AddedIsGrowth`: what
`added_tokens` counts is what a set of prefixes grows by. For `prompt_tree`, `TreeInv` is the invariant of its worklist: every node reads on where its
parents stop, the nodes above a leaf spell its question, the tokens so far and those the work left will add are `TreeTokens` of the questions. `GrowRunStep` and `GrowLeafStep`
keep it, and a number of tokens still to be counted bounds the steps. Result: `PromptTreeIsComplete`.

**`PlanCallsProofs`** (any questions and budgets). The invariant says that the calls so far and the open one have taken the questions up to `k` in order (`Taken`,
`TakenByOpen`), cover the state up to `pos` (`Covered`, `ReadTo`), and that `used` counts the rest of the state and the tree of the open call's questions (`Counted`): `AddedIsGrowth` shows that
`added_tokens` is by how much the prefix tree, a set of prefixes, grows. Results: `TypeCorrect`, `StateIsReadInOrder`, `QuestionsAreTakenOnce`,
`CallsFit`, `PiecesAreNeeded`, `CallsAreNeeded`; and, with `TreeProofs`, `TreesAreOfTheirQuestions`: the tree of every call spells its questions, one leaf each,
and has as many tokens as the plan counted.

**`EngineProofs`** (any requests, snapshots, plans of calls, sizes of batches). Each row of a call has a history: the tokens of its block up to it, then those of its question's
path in the prompt tree. `BlockSees` shows of the mask that the columns a row sees hold exactly the starts of its history, each once: the block's cached
cells, the shared tokens before it, the nodes above it, itself (`AboveIs` for the path, `RowsArePlaced` for where `run` puts the rows). So in a call whose cached cells hold
their own histories every row computes its own (`CallReads`, by the least row that would not), answers are read at the rows of the whole prompts (`RunIs`), and what the call leaves as cells
holds its histories (`ExtendIs`, `FirstIsCells`). The inductive invariant `IInv` says that of every snapshot and of the cells inside `score_one`, which may be longer than what
the request shares with the snapshot they come from: the plan starts where the two differ (`SoundFound`). TLC has checked it on the run's requests. For `score_batch`, the blocks of several requests are laid end to end and the
answers cut at the same places (`LaidIs`, `AnswersCut`), and the sums of parts add up (`NestedSums`). Results: `AnswersAlwaysTheirOwn`, `SnapshotsAlwaysFaithful`, `AlwaysReadsWithinSize`.

**`TextsProofs`**, of `RequestTokens` (any texts, failures and number of threads). Every text below the shared counter has its tokens, or a thread
holds it, or a failure was caught (`Covered`); a thread ends only with the counter past the texts (`EndedPast`). Once all have been joined nobody
holds a text, so without a failure all are done: `SameTokensAsAlone`, `PoolIsJoined`. What is returned: `CutInv`: after `seen` prompts the state is the longest start of its own tokens that they all have
(`Longest`). `ShareInv`: the prompts seen agree on `common` tokens and go on after them, and no longer length would do for all of
them (`NoFurther`). `SharedIs` says what the number of shared lengths is: the longest of them. Result: `PartsFitPrompts`.
Of `Texts` (any bytes). `Chars` is the one place where characters are numbers: of bytes the standard's table admits, the length, the second byte's range, the
code point, its encoding and its six-bit parts agree. No such character is the start of another (`Follows`), so a text can be cut into characters in one way
(`Cuts`), and `decode_utf8`, `append_utf8` (`DecodedOfCuts`, `WrittenOfCuts`), the length and `py_strip`'s loops (`LengthOfCuts`, `StripOfCuts`) follow the cuts; `utf8_error`
follows them to the first place no character leads on from, and what it covers there is all that begins one (`ErrorIsFault`, `NoneAfter`). A function defined by
its own values ahead or behind is shown to exist and to be the one (`LooksAhead`, `LooksBack`). Results: `TextAlwaysKept`, `ErrorAlwaysExact`,
`BytesAlwaysCharacters`, of `TextSpec`: `Bodies` takes that step in `NotJson`, and its other actions leave the variables of `Texts` alone. `FalseOnInvalid`, which the
comment of `decode_utf8` says, is a finding (section 4).

**`RateProofs`** (any number of levels or options, of phrasings, and any answers). `PoolsInv` is about the pools on the stack: each spans the thresholds between two ends and
has their sum and their number; no start of a pool has a larger mean than the pool, which is why merging never lowers what came before; and means do not
rise from one pool to the next, but into the last while it is being merged. Once nothing is out of order, `PooledIs` says what is left: it does not rise, its
sums to any threshold are at least those of the answers, and equal at both ends of every block on which it is constant. It is the least concave majorant of the answers' sums, and the min-max formula follows. Results: `PooledIsIsotonicFit`;
`RatingAlwaysTellsAnswers` (the probabilities telescope, the score is their Abel sum, and the spread is a sum of terms none below 0, so 0 only if all are);
`ChoiceAlwaysTellsAnswers` (counting an option's answers where they stand in the list, block by block, and counting them phrasing by phrasing agree; the shares are the counts over their sum).

**`CommandsProofs`**, of `Serve` (any processes, ports, starts and writes). `SockInv` ties a process's socket to where it is and lets at most one socket of a port
listen; `LoadInv` says of each file not written to that what main or the thread has read of it is what is in the folder, up to the
file each reads next. Results: `TypeCorrect`, `PortsAreServedOnce`, `PortIsFreeOrServed`, `HealthIsOfTheLoaded`.
Of `Decide` (any loops over any folder). `FileInv`: a file has one writer; a loop owns the file of the request it is at from `fopen` to its
exit, and none of a request it has not come to. Results: `StatusTellsTheLoop`, `AnswersAreCreateOnly`.
Of `Server` (any handlers, loads, limits, phrasings, and any bodies JSON can denote, `IsJson`), under the assumptions of `Server` and `Wire`: the values sent are JSON's, `Dumps` as above,
a prompt has at least a token and no fewer than the state it holds, the limits are in order. In five steps:

- *What check_wire lets through* (`WireIs`). A check is judged (`JudgedAs`) by what it does to the errors so far and to the counter: with the counter at 0 it adds an error exactly if
  what it checks is wrong, and leaves the counter at 0 if it is right. `too_deep` finds something, with the counter at 0, exactly if the value reaches the limit, and raises it only where it found something;
  nested values are taken by their depth (`TooDeepIs`, by induction over the levels that are left), loops by their turns (`Chain`). The errors added are faults of the body: the value
  shown is one the path leads to.
- *What both checks let through* (`RequestAgrees`). `GoodRequest`, the schema, is compared part by part with the errors of `check_wire` and `check_native`, question by question.
- *What can be encoded* (`AllEncodable`). No text of a good request's prompts holds a surrogate: what is stripped, joined, written by `dumps` or laid out by the templates keeps that (`CleanTexts`, `CleanPrompt`).
- *Where prompts are* (`PromptsAre`, `AnswersAre`). The prompts of a question are one block of the request's (`FlattenIs`), laid out by quotient and remainder; the means
  `choose` and `rate` take undo exactly that.
- *The handlers.* `ServerInv`: at each stage the request has passed the checks before it, and the last response is one the request may be answered with (`Answering`). `LengthsDecide`: since no prompt has
  fewer tokens than the state, a state that is too long is a first prompt that is.

Results: `ServerInvHolds`, `FirstProblemFirstHolds`, `AnswersWhereAskedHolds`, `VerdictIsRequestsHolds`, `RefusalsPointAtFaultsHolds`.

## 6. What is only model-checked

Liveness (`EveryCallReturns`, `DestructorReturns`, `StartEnds`) and the fair part of `ServiceSpec`: fairness and
`ENABLED` are beyond the prover. Induction over data is done where it could be put as a least number (section 5). The
RECURSIVE operators of `Json`, a parser, and of its grammar take the SMT backend away from every module that reaches them, which leaves to TLC `LoadsIsJson`,
`WrittenReadsBack` and `ErrorsPointAtTheFault` of `Bodies`. That `Dump` is a `Dumps` is checked on the values of `server_checks`.

## 7. What is not modelled

- `repr` and `str_repr`, which write a value into an error's message; the wording of messages and templates; case folding of header names (`ascii.hpp`).
- `vocab.cpp` wraps a tokenizer, here any function that may throw. The compression of `sha256.hpp` is fixed-width arithmetic with known
  vectors. `export/` and `scripts/` run offline.
- The network's numbers, rounding in `rate` and `choose` and in the conversion of floats, the effect of quantization on how a call is composed; the
  model's constructor and its checks of the graph.
- httplib: accepting, closing and timing out connections. Options of `main`; with `--name` main does not read `model.json`. `std::async` refusing a
  thread ends `main` as a missing file does, before the thread is started.
- A state's length in tokens is taken not to exceed its prompts', as the code's comment at `server.cpp:77` has it.

## 8. Plan

1. Done: every component that keeps state or control, with its runs; proofs of the scheduler, the index, the planner, the trees, the engine, the pool, ratings, choices, the server and its checks, the start and decide, and of UTF-8.
2. Next compositions: `Engine` with `Snapshots` and `PlanCalls` in place of its nondeterministic plan and eviction; `Server` over `Scheduler` itself.
3. Next proof: `Json` against `JsonGrammar`, with its parser defined without RECURSIVE operators.
