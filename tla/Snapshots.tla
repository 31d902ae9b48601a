------------------------------ MODULE Snapshots ------------------------------
(***************************************************************************)
(* The snapshot index (src/src/snapshots.hpp) and the way the model thread *)
(* uses it in a batch of requests (score_one and score_batch of            *)
(* src/src/model.cpp): find for each request, the model call, wants for    *)
(* each request, add for each new state; beside it the thread that answers *)
(* /health reads the published counters.                                   *)
(*                                                                         *)
(* entries_ is a set here, which it is by its tokens; the order of the     *)
(* vector, the order of insertion, is kept in `added`, because find takes  *)
(* the first of equally good entries.  What an entry holds (its cells) is  *)
(* the subject of Engine.                                                  *)
(***************************************************************************)
EXTENDS Integers, Sequences, FiniteSets

CONSTANTS Requests,        \* [prefix, state]: the tokens the prompts share,
                           \* and how many of them are the state
          SnapshotCount,   \* constructor argument max_count
          SnapshotTokens,  \* constructor argument max_tokens
          MIN_TOKENS,
          MaxBatch,        \* bound: requests in one batch
          MaxTick,         \* bound: tick_ (a uint64_t in the code)
          PushMayFail      \* whether push_back may throw bad_alloc

max_count == SnapshotCount
max_tokens == IF SnapshotCount > 0 THEN SnapshotTokens ELSE 0

Prefix(r) == r.prefix
State(r) == SubSeq(r.prefix, 1, r.state)
\* A request with no state boundary known never meets the index.
Boundary(r) == r.prefix # <<>>

States == {State(r) : r \in {q \in Requests : Boundary(q)}}

ASSUME RequestsAssumption ==
  \A r \in Requests : /\ r.prefix \in Seq(Int)
                      /\ r.state \in 0..Len(r.prefix)
ASSUME LimitsAssumption == /\ SnapshotCount \in Nat
                           /\ SnapshotTokens \in Nat
                           /\ MIN_TOKENS \in Nat \ {0}
                           /\ MaxBatch \in Nat \ {0}
                           /\ MaxTick \in Nat
                           /\ PushMayFail \in BOOLEAN

VARIABLES entries,      \* entries_: [tokens, used, added]
          kept,         \* kept_
          tick,         \* tick_
          count,        \* count_, published
          kept_tokens,  \* kept_tokens_, published
          phase,        \* where the model thread is in its batch
          batch,        \* the requests of the batch
          next,         \* the next one, in the loop of the phase
          found,        \* per request: the entry found (<<tokens>> or <<>>)
          fresh,        \* new states to add after the loop
          reader,       \* where the /health thread is in stats()
          report        \* what it has read

indexVars == <<entries, kept, tick, count, kept_tokens>>
readerVars == <<reader, report>>
vars == <<indexVars, phase, batch, next, found, fresh, readerVars>>

Phases == {"idle", "find", "run", "collect", "add", "evict", "publish"}

KeptStates == {e.tokens : e \in entries}

TypeOK ==
  /\ entries \subseteq [tokens : States, used : 1..tick, added : 1..tick]
  /\ kept \in Nat
  /\ tick \in Nat
  /\ count \in Nat
  /\ kept_tokens \in Nat
  /\ phase \in Phases
  /\ batch \in Seq(Requests)
  /\ next \in 1..(Len(batch) + 1)
  /\ found \in Seq({<<>>} \union {<<s>> : s \in States})
  /\ fresh \in Seq(States)
  /\ reader \in {"count", "tokens"}
  /\ report \in [count : Nat, tokens : Nat]

Init == /\ entries = {}
        /\ kept = 0
        /\ tick = 0
        /\ count = 0
        /\ kept_tokens = 0
        /\ phase = "idle"
        /\ batch = <<>>
        /\ next = 1
        /\ found = <<>>
        /\ fresh = <<>>
        /\ reader = "count"
        /\ report = [count |-> 0, tokens |-> 0]

-----------------------------------------------------------------------------
\* The tokens two sequences have in common from the start.
Common(a, b) ==
  Cardinality({n \in DOMAIN a \intersect DOMAIN b : \A i \in 1..n : a[i] = b[i]})

\* find's choice: the entry with the longest prefix in common, the first such.
Best(e, p) ==
  /\ Common(e.tokens, p) >= MIN_TOKENS
  /\ \A f \in entries :
       \/ Common(f.tokens, p) < Common(e.tokens, p)
       \/ Common(f.tokens, p) = Common(e.tokens, p) /\ f.added >= e.added

RefreshForgetsUse(e) == /\ entries' = entries
                        /\ tick' = tick + 1
\* e->used = ++tick_
Refresh(e) == /\ entries' = (entries \ {e}) \union {[e EXCEPT !.used = tick + 1]}
              /\ tick' = tick + 1

FitsOneMore(n) == Cardinality(entries) <= max_count /\ kept + n <= max_tokens
Fits(n) == Cardinality(entries) < max_count /\ kept + n <= max_tokens

\* wants' early return, and its search of the state among the entries.
WorthKeeping(s) == max_count > 0 /\ Len(s) \in MIN_TOKENS..max_tokens

-----------------------------------------------------------------------------
\* A batch handed over by the scheduler.  Each request moves tick_ at most
\* twice (found, then refreshed or added).
StartBatch ==
  /\ phase = "idle"
  /\ \E n \in 1..MaxBatch :
       /\ tick + 2 * n <= MaxTick
       /\ batch' \in [1..n -> Requests]
  /\ phase' = "find"
  /\ next' = 1
  /\ found' = <<>>
  /\ fresh' = <<>>
  /\ UNCHANGED <<indexVars, readerVars>>

Hit(p) == \E e \in entries : /\ Best(e, p)
                             /\ Refresh(e)
                             /\ found' = Append(found, <<e.tokens>>)

Miss(p) == /\ \A e \in entries : Common(e.tokens, p) < MIN_TOKENS
           /\ found' = Append(found, <<>>)
           /\ UNCHANGED <<entries, tick>>

Find ==
  /\ phase = "find"
  /\ next <= Len(batch)
  /\ IF Boundary(batch[next])
       THEN Hit(batch[next].prefix) \/ Miss(batch[next].prefix)
       ELSE found' = Append(found, <<>>) /\ UNCHANGED <<entries, tick>>
  /\ next' = next + 1
  /\ UNCHANGED <<kept, count, kept_tokens, phase, batch, fresh, readerVars>>

BeginRun == /\ phase = "find"
            /\ next > Len(batch)
            /\ phase' = "run"
            /\ UNCHANGED <<indexVars, batch, next, found, fresh, readerVars>>

\* The model call; an exception of it leaves the index as it is.
RunDone == /\ phase = "run"
           /\ phase' = "collect"
           /\ next' = 1
           /\ UNCHANGED <<indexVars, batch, found, fresh, readerVars>>

RunFails == /\ phase = "run"
            /\ phase' = "idle"
            /\ UNCHANGED <<indexVars, batch, next, found, fresh, readerVars>>

-----------------------------------------------------------------------------
\* score_one does not ask for a request that started from the whole of its
\* prefix (it read no piece of the state); score_batch always asks, unless an
\* earlier request of the batch brings the same state.
FullyCovered(i) ==
  found[i] # <<>> /\ Common(found[i][1], batch[i].prefix) = Len(batch[i].prefix)

QueuedTwice(s) == \E k \in DOMAIN fresh : fresh[k] = s

Asks(i) == /\ Boundary(batch[i])
           /\ IF Len(batch) = 1 THEN ~FullyCovered(i)
                                ELSE ~QueuedTwice(State(batch[i]))

\* snaps.wants(state) for the next request: keep it, refresh it, or neither.
Collect ==
  /\ phase = "collect"
  /\ next <= Len(batch)
  /\ LET s == State(batch[next])
         wanted == Asks(next) /\ WorthKeeping(s)
     IN \/ /\ wanted
           /\ s \notin KeptStates
           /\ fresh' = Append(fresh, s)
           /\ UNCHANGED <<entries, tick>>
        \/ /\ wanted
           /\ \E e \in entries : e.tokens = s /\ Refresh(e)
           /\ UNCHANGED fresh
        \/ /\ ~wanted
           /\ UNCHANGED <<entries, tick, fresh>>
  /\ next' = next + 1
  /\ UNCHANGED <<kept, count, kept_tokens, phase, batch, found, readerVars>>

\* The entries of the batch are in use until its last request is collected.
CollectEndsEarly == next > Len(batch) \/ fresh # <<>>
CollectEnds == next > Len(batch)

BeginAdds == /\ phase = "collect"
             /\ CollectEnds
             /\ phase' = "add"
             /\ UNCHANGED <<indexVars, batch, next, found, fresh, readerVars>>

-----------------------------------------------------------------------------
\* snaps.add for the next fresh state, or the batch is done.
AddPublishesFirst ==
  /\ phase = "add"
  /\ phase' = IF fresh = <<>> THEN "idle" ELSE "evict"
  /\ kept_tokens' = IF fresh = <<>> THEN kept_tokens ELSE kept + Len(Head(fresh))
  /\ UNCHANGED <<entries, kept, tick, count, batch, next, found, fresh,
                 readerVars>>
Add == /\ phase = "add"
       /\ phase' = IF fresh = <<>> THEN "idle" ELSE "evict"
       /\ UNCHANGED <<indexVars, batch, next, found, fresh, readerVars>>

LeastRecent(e) == \A f \in entries : e.used <= f.used

Evict ==
  /\ phase = "evict"
  /\ ~Fits(Len(Head(fresh)))
  /\ \E e \in entries : /\ LeastRecent(e)
                        /\ kept' = kept - Len(e.tokens)
                        /\ entries' = entries \ {e}
  /\ UNCHANGED <<tick, count, kept_tokens, phase, batch, next, found, fresh,
                 readerVars>>

PushReached == phase = "evict" /\ (entries = {} \/ Fits(Len(Head(fresh))))

\* kept_ grows, the entry is pushed, count_ is published ...
Push ==
  /\ PushReached
  /\ kept' = kept + Len(Head(fresh))
  /\ tick' = tick + 1
  /\ entries' = entries \union
       {[tokens |-> Head(fresh), used |-> tick + 1, added |-> tick + 1]}
  /\ count' = Cardinality(entries')
  /\ phase' = "publish"
  /\ UNCHANGED <<kept_tokens, batch, next, found, fresh, readerVars>>

\* ... and then kept_tokens_.
Publish == /\ phase = "publish"
           /\ kept_tokens' = kept
           /\ fresh' = Tail(fresh)
           /\ phase' = "add"
           /\ UNCHANGED <<entries, kept, tick, count, batch, next, found,
                          readerVars>>

\* make_unique or push_back throws: kept_ has grown already, the batch ends
\* with the exception, which the scheduler catches.
PushFails ==
  /\ PushMayFail
  /\ PushReached
  /\ kept' = kept + Len(Head(fresh))
  /\ tick' = tick + 1
  /\ phase' = "idle"
  /\ UNCHANGED <<entries, count, kept_tokens, batch, next, found, fresh,
                 readerVars>>

-----------------------------------------------------------------------------
\* stats(), on another thread: one atomic load after the other.
ReadCount == /\ reader = "count"
             /\ report' = [report EXCEPT !.count = count]
             /\ reader' = "tokens"
             /\ UNCHANGED <<indexVars, phase, batch, next, found, fresh>>

ReadTokens == /\ reader = "tokens"
              /\ report' = [report EXCEPT !.tokens = kept_tokens]
              /\ reader' = "count"
              /\ UNCHANGED <<indexVars, phase, batch, next, found, fresh>>

-----------------------------------------------------------------------------
ModelStep == \/ StartBatch \/ Find \/ BeginRun \/ RunDone \/ RunFails
             \/ Collect \/ BeginAdds \/ Add \/ Evict \/ Push \/ Publish
             \/ PushFails

Next == ModelStep \/ ReadCount \/ ReadTokens

Spec == Init /\ [][Next]_vars

-----------------------------------------------------------------------------
\* The cells the entries hold, one per token: their number is the total of
\* state tokens.
Cells(E) == UNION {{e.tokens} \X DOMAIN e.tokens : e \in E}
TotalTokens == Cardinality(Cells(entries))

\* No two entries hold the same state.
NoDuplicates == \A e, f \in entries : e.tokens = f.tokens => e = f

\* The limits hold after every step, failed ones included.
WithinLimits == /\ Cardinality(entries) <= max_count
                /\ TotalTokens <= max_tokens

\* kept_ is the total of the entries' tokens whenever no push has failed.
KeptIsTotal == ~PushMayFail => kept = TotalTokens

\* Entries in use: those the requests of the batch resume from, until the
\* cells of each request have been taken.
InUse == {found[i][1] : i \in {j \in DOMAIN found :
                                 /\ found[j] # <<>>
                                 /\ \/ phase \in {"find", "run"}
                                    \/ phase # "idle" /\ j >= next}}

\* "Entries keep their address while they live: the model holds pointers to
\* them during calls": none of them is evicted under the model.
InUseAreKept == InUse \subseteq KeptStates

\* What kept_ counts beyond the entries' tokens: those of the pushes that failed.
Drift == kept - TotalTokens

\* /health never shows more than the limits, whenever it reads, but for the
\* tokens failed pushes have left in kept_: it is kept_ that is published, and
\* an add that has evicted everything pushes whatever kept_ says.
ReportWithinLimits == /\ report.count <= max_count
                      /\ report.tokens <= max_tokens + Drift

\* Between batches the counters are those of the entries.
PublishedWhenIdle == phase = "idle" /\ ~PushMayFail =>
                       count = Cardinality(entries) /\ kept_tokens = TotalTokens

\* "Least recently used entries go when the count or the total of state
\* tokens would exceed its limits" - and only then.
EvictsOnlyWhenNeeded ==
  [][Cardinality(entries') < Cardinality(entries) =>
       \/ Cardinality(entries) >= max_count
       \/ TotalTokens + Len(Head(fresh)) > max_tokens]_vars

\* The index implements LruCache, in the order of `used`: whatever find hands
\* out has become the last to go, and the entries that go are the least recent,
\* no more of them than the limits require; what kept_ counts beyond the
\* entries' tokens is what failed pushes left in it, nothing else.
Ordered(q, E) == /\ q \in [1..Cardinality(E) -> E]
                 /\ \A e \in E : \E i \in DOMAIN q : q[i] = e
                 /\ \A i, j \in DOMAIN q : i < j => q[i].used < q[j].used
ByUse == CHOOSE q \in [1..Cardinality(entries) -> entries] : Ordered(q, entries)
Lru == INSTANCE LruCache
         WITH kept <- [i \in DOMAIN ByUse |-> ByUse[i].tokens],
              incoming <- IF phase = "evict" THEN <<Head(fresh)>> ELSE <<>>,
              wasted <- Drift,
              hit <- IF phase = "find" /\ found # <<>> THEN found[Len(found)] ELSE <<>>,
              MaxCount <- max_count, MaxTokens <- max_tokens,
              MinTokens <- MIN_TOKENS
LruSpec == Lru!Spec
=============================================================================
