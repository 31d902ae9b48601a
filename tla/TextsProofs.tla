---------------------------- MODULE TextsProofs ----------------------------
(***************************************************************************)
(* Theorems about what becomes of texts: their tokens (RequestTokens), for *)
(* any texts and any pool of threads, and their bytes (Texts), for any     *)
(* bytes.                                                                  *)
(*                                                                         *)
(* The pool: the invariant IInv accounts for every text below the counter: *)
(* it has its tokens, or a thread holds it, or a failure was caught; a     *)
(* thread ends only when the counter is past the texts.                    *)
(*                                                                         *)
(* What is returned (PartsInv, which rests on IInv): the state's part and  *)
(* the prefix are starts of every prompt, and as long as they can be.  The *)
(* loop over the prompts keeps the longest start of the state's own tokens *)
(* that the prompts behind it have; the second loop a length they share    *)
(* that cannot be one more.                                                *)
(*                                                                         *)
(* Bytes: decode_utf8 and utf8_error are shown to be what the standard's   *)
(* table says of one character (Chars, CharIsAt), then, since no character *)
(* is the start of another (Follows), of a text cut into its characters    *)
(* (Cuts): what is decoded, written, stripped and counted follows the      *)
(* cuts.                                                                   *)
(***************************************************************************)
EXTENDS RequestTokens, Texts, TreeProofs

Items == 1..size
Done(i) == tokens[i] = Text(i) /\ i \notin input.fails
Held(i) == \E w \in Threads : worker[w] \in {"work", "catch"} /\ item[w] = i
AllDone == \A i \in Items : Done(i)

Places == {"spawn", "join", "alone", "cut", "share", "returned", "thrown", "terminated"}
WorkerPlaces == {"none", "claim", "work", "catch", "ended"}

TypeInv ==
  /\ input \in Inputs
  /\ pc \in Places
  /\ worker \in [Threads -> WorkerPlaces]
  /\ item \in [Threads -> Int]
  /\ next \in Nat \ {0}
  /\ failed \in BOOLEAN
  /\ tokens \in [Items -> Seq(Int)]

Covered == \A i \in Items : i < next => failed \/ Done(i) \/ Held(i)
HeldInRange == \A w \in Threads : worker[w] \in {"work", "catch"} => item[w] \in Items
EndedPast == \A w \in Threads : worker[w] = "ended" => next > size
AloneHasNoPool == pc = "alone" => ~failed /\ \A w \in Threads : worker[w] = "none"
PastTokens == pc \in {"cut", "share", "returned"} => AllDone

IInv == /\ TypeInv
        /\ Covered /\ HeldInRange /\ EndedPast /\ AloneHasNoPool
        /\ PastTokens /\ NoneOutlives

\* An input's sizes are numbers and its texts are given.
LEMMA Sizes == TypeInv => size \in Nat /\ Items \subseteq Nat /\ input.texts \in [Items -> Seq(Int)]
BY InputsAssumption DEF TypeInv, Items, size

\* The pool begins with nothing claimed.
LEMMA InitHolds == Init => IInv
<1> SUFFICES ASSUME Init PROVE IInv
  OBVIOUS
<1>1. TypeInv
  <2>1. <<>> \in Seq(Int)
    OBVIOUS
  <2>2. tokens \in [Items -> Seq(Int)]
    BY <2>1 DEF Init, Items
  <2>3. pc \in Places /\ worker \in [Threads -> WorkerPlaces] /\ item \in [Threads -> Int]
    BY DEF Init, Places, WorkerPlaces
  <2>4. failed \in BOOLEAN /\ input \in Inputs
    BY DEF Init
  <2>5. next \in Nat \ {0}
    <3>1. next = 1
      BY DEF Init
    <3> QED BY <3>1
  <2> QED BY <2>2, <2>3, <2>4, <2>5 DEF TypeInv
<1>2. \A w \in Threads : worker[w] = "none"
  BY DEF Init
<1>3. Covered
  BY Sizes, <1>1 DEF Init, Covered, Items
<1>4. HeldInRange /\ EndedPast
  BY <1>2 DEF HeldInRange, EndedPast
<1>5. AloneHasNoPool /\ PastTokens /\ NoneOutlives
  BY <1>2 DEF Init, AloneHasNoPool, PastTokens, NoneOutlives
<1> QED BY <1>1, <1>3, <1>4, <1>5 DEF IInv

-----------------------------------------------------------------------------
\* A step that leaves the pool and its texts alone, and the tokenization behind.
LEMMA RequestMoves ==
  ASSUME IInv, UNCHANGED <<input, poolVars>>, pc' \in Places, pc' = "alone" => pc = "alone",
         pc' \in {"cut", "share", "returned"} => AllDone,
         pc' \in {"cut", "share", "returned", "thrown"} =>
           \A w \in Threads : worker[w] \in {"none", "ended"}
  PROVE  IInv'
<1>1. /\ input' = input /\ worker' = worker /\ item' = item /\ next' = next
      /\ failed' = failed /\ tokens' = tokens
  BY DEF poolVars
<1>2. /\ TypeInv /\ Covered /\ HeldInRange /\ EndedPast /\ AloneHasNoPool
  BY DEF IInv
<1>3. Items' = Items /\ size' = size /\ \A i \in Items : (Done(i)' <=> Done(i)) /\ (Held(i)' <=> Held(i))
  BY <1>1 DEF Items, size, Done, Held, Text
<1>4. TypeInv'
  BY <1>1, <1>2, <1>3 DEF TypeInv
<1>5. Covered'
  BY <1>1, <1>2, <1>3 DEF Covered
<1>6. HeldInRange' /\ EndedPast'
  BY <1>1, <1>2, <1>3 DEF HeldInRange, EndedPast
<1>7. AloneHasNoPool'
  BY <1>1, <1>2 DEF AloneHasNoPool
<1>8. PastTokens'
  BY <1>3 DEF PastTokens, AllDone
<1>9. NoneOutlives'
  BY <1>1 DEF NoneOutlives
<1> QED BY <1>4, <1>5, <1>6, <1>7, <1>8, <1>9 DEF IInv

\* The request's thread, waiting for the workers, keeps the invariant.
LEMMA JoinKeeps == IInv /\ Join => IInv'
<1> SUFFICES ASSUME IInv, Join PROVE IInv'
  OBVIOUS
<1>1. \A w \in Threads : worker[w] = "ended"
  BY DEF Join
<1>2. PICK w \in Threads : worker[w] = "ended"
  BY <1>1, ThreadsAssumption
<1>3. next > size
  BY <1>2 DEF IInv, EndedPast
<1>4. ~failed => AllDone
  <2> SUFFICES ASSUME ~failed, NEW i \in Items PROVE Done(i)
    BY DEF AllDone
  <2>1. i < next
    BY <1>3, Sizes DEF IInv, TypeInv, Items
  <2>2. ~Held(i)
    BY <1>1 DEF Held
  <2> QED BY <2>1, <2>2 DEF IInv, Covered
<1> QED BY <1>1, <1>4, RequestMoves DEF Join, Start, Places

\* The steps of the request's thread outside the pool keep the invariant.
LEMMA RequestKeeps == IInv /\ (Spawned \/ AloneDone \/ Cut \/ KeepState \/ Share \/ Finish) => IInv'
<1> SUFFICES ASSUME IInv, Spawned \/ AloneDone \/ Cut \/ KeepState \/ Share \/ Finish PROVE IInv'
  OBVIOUS
<1>1. CASE Spawned
  BY <1>1, RequestMoves DEF Spawned, poolVars, Places
<1>2. CASE AloneDone
  <2>1. AllDone
    <3> SUFFICES ASSUME NEW i \in Items PROVE Done(i)
      BY DEF AllDone
    <3>1. i < next
      BY <1>2, Sizes DEF AloneDone, IInv, TypeInv, Items
    <3>2. ~Held(i) /\ ~failed
      BY <1>2 DEF AloneDone, IInv, AloneHasNoPool, Held
    <3> QED BY <3>1, <3>2 DEF IInv, Covered
  <2>2. \A w \in Threads : worker[w] = "none"
    BY <1>2 DEF AloneDone, IInv, AloneHasNoPool
  <2> QED BY <1>2, <2>1, <2>2, RequestMoves DEF AloneDone, Start, Places
<1>3. CASE Cut \/ KeepState \/ Share \/ Finish
  <2>1. pc \in {"cut", "share"} /\ pc' \in {"cut", "share", "returned"} /\ UNCHANGED <<input, poolVars>>
    BY <1>3 DEF Cut, KeepState, Share, Finish
  <2>2. AllDone /\ \A w \in Threads : worker[w] \in {"none", "ended"}
    BY <2>1 DEF IInv, PastTokens, NoneOutlives
  <2> QED BY <2>1, <2>2, RequestMoves DEF Places
<1> QED BY <1>1, <1>2, <1>3

-----------------------------------------------------------------------------
\* Tokenizing without workers keeps the invariant.
LEMMA AloneKeeps == IInv /\ Alone => IInv'
<1> SUFFICES ASSUME IInv, Alone PROVE IInv'
  OBVIOUS
<1>1. /\ input' = input /\ worker' = worker /\ item' = item /\ failed' = failed
      /\ pc = "alone" /\ next <= size /\ \A w \in Threads : worker[w] = "none"
  BY DEF Alone, IInv, AloneHasNoPool, poolVars
<1>2. /\ TypeInv /\ Covered /\ HeldInRange /\ EndedPast /\ AloneHasNoPool
  BY DEF IInv
<1>3. size' = size /\ Items' = Items
  BY <1>1 DEF size, Items
<1>4. CASE next \in input.fails
  BY <1>1, <1>4, RequestMoves DEF Alone, Places
<1>5. CASE next \notin input.fails
  <2>1. pc' = "alone" /\ next' = next + 1 /\ tokens' = [tokens EXCEPT ![next] = Text(next)]
    BY <1>1, <1>5 DEF Alone, Tokenized, Text
  <2>2. input.texts \in [Items -> Seq(Int)] /\ tokens \in [Items -> Seq(Int)] /\ next \in Nat \ {0}
        /\ size \in Nat
    BY <1>2, Sizes DEF TypeInv
  <2>3. next \in Items
    BY <1>1, <2>2 DEF Items
  <2>4. TypeInv'
    <3>1. tokens' \in [Items -> Seq(Int)]
      BY <2>1, <2>2, <2>3 DEF Text
    <3>2. next' \in Nat \ {0}
      BY <2>1, <2>2
    <3> QED BY <1>1, <1>2, <1>3, <2>1, <3>1, <3>2 DEF TypeInv
  <2>5. Covered'
    <3> SUFFICES ASSUME NEW i \in Items, i < next + 1 PROVE Done(i)'
      BY <1>3, <2>1 DEF Covered
    <3>1. CASE i = next
      BY <1>1, <1>5, <2>1, <2>2, <2>3, <3>1 DEF Done, Text
    <3>2. CASE i # next
      <4>1. i < next
        BY <2>2, <3>2, <1>2, Sizes
      <4>2. Done(i)
        BY <1>1, <1>2, <4>1 DEF Covered, Held, AloneHasNoPool
      <4> QED BY <1>1, <2>1, <2>2, <2>3, <3>2, <4>2 DEF Done, Text
    <3> QED BY <3>1, <3>2
  <2>6. HeldInRange' /\ EndedPast' /\ AloneHasNoPool' /\ PastTokens' /\ NoneOutlives'
    BY <1>1, <1>2, <2>1 DEF HeldInRange, EndedPast, AloneHasNoPool, PastTokens, NoneOutlives
  <2> QED BY <2>4, <2>5, <2>6 DEF IInv
<1> QED BY <1>4, <1>5

\* A thread of the pool moves to `place`; none of the texts below the counter is
\* left without tokens or a holder.
LEMMA PoolMoves ==
  ASSUME IInv, NEW w \in Threads, NEW place \in WorkerPlaces \ {"none"},
         worker' = [worker EXCEPT ![w] = place], worker[w] = "none" => pc = "spawn",
         worker[w] # "ended",
         UNCHANGED <<input, pc>>, item' \in [Threads -> Int], next' \in Nat \ {0}, failed' \in BOOLEAN,
         tokens' \in [Items -> Seq(Int)],
         Covered', HeldInRange',
         next > size => next' > size, place = "ended" => next' > size
  PROVE  IInv'
<1>1. /\ TypeInv /\ EndedPast /\ AloneHasNoPool /\ PastTokens /\ NoneOutlives
  BY DEF IInv
<1>2. size' = size /\ Items' = Items
  BY DEF size, Items
<1>3. worker'[w] = place /\ \A v \in Threads \ {w} : worker'[v] = worker[v]
  BY <1>1 DEF TypeInv
<1>4. TypeInv'
  BY <1>1, <1>2 DEF TypeInv
<1>5. pc \notin {"alone", "cut", "share", "returned", "thrown"}
  BY <1>1 DEF TypeInv, WorkerPlaces, AloneHasNoPool, NoneOutlives
<1>6. EndedPast'
  BY <1>1, <1>2, <1>3 DEF EndedPast
<1>7. AloneHasNoPool' /\ PastTokens' /\ NoneOutlives'
  BY <1>5 DEF AloneHasNoPool, PastTokens, NoneOutlives
<1> QED BY <1>4, <1>6, <1>7 DEF IInv

\* A worker that starts keeps the invariant.
LEMMA SpawnKeeps == \A w \in Threads : IInv /\ Spawn(w) => IInv'
<1> SUFFICES ASSUME NEW w \in Threads, IInv, Spawn(w) PROVE IInv'
  OBVIOUS
<1>1. TypeInv /\ Covered /\ HeldInRange
  BY DEF IInv
<1>2. /\ worker' = [worker EXCEPT ![w] = "claim"] /\ worker[w] = "none" /\ pc = "spawn"
      /\ UNCHANGED <<input, pc, item, next, failed, tokens>>
  BY DEF Spawn
<1>3. \A v \in Threads : worker'[v] \in {"work", "catch"} <=> worker[v] \in {"work", "catch"}
  BY <1>1, <1>2 DEF TypeInv
<1>4. size' = size /\ Items' = Items
  BY <1>2 DEF size, Items
<1>5. Covered'
  <2>1. \A i \in Items : (Done(i)' <=> Done(i)) /\ (Held(i)' <=> Held(i))
    BY <1>2, <1>3 DEF Done, Held, Text
  <2> QED BY <1>1, <1>2, <1>4, <2>1 DEF Covered
<1>6. HeldInRange'
  BY <1>1, <1>2, <1>3, <1>4 DEF HeldInRange
<1> QED BY <1>1, <1>2, <1>5, <1>6, PoolMoves DEF TypeInv, WorkerPlaces

\* A worker that claims the next text, or finds none, keeps the invariant.
LEMMA ClaimKeeps == \A w \in Threads : IInv /\ Claim(w) => IInv'
<1> SUFFICES ASSUME NEW w \in Threads, IInv, Claim(w) PROVE IInv'
  OBVIOUS
<1>1. TypeInv /\ Covered /\ HeldInRange
  BY DEF IInv
<1>2. /\ worker[w] = "claim" /\ next' = next + 1 /\ UNCHANGED <<input, pc, failed, tokens>>
      /\ item' = [item EXCEPT ![w] = IF next <= size THEN next ELSE item[w]]
      /\ worker' = [worker EXCEPT ![w] = IF next <= size THEN "work" ELSE "ended"]
  BY <1>1 DEF Claim, TypeInv
<1>3. next \in Nat \ {0} /\ next' \in Nat \ {0} /\ size \in Nat /\ Items \subseteq Nat
  BY <1>1, <1>2, Sizes DEF TypeInv
<1>4. size' = size /\ Items' = Items
  BY <1>2 DEF size, Items
<1>5. item' \in [Threads -> Int] /\ \A v \in Threads \ {w} : item'[v] = item[v] /\ worker'[v] = worker[v]
  BY <1>1, <1>2, <1>3 DEF TypeInv
<1>6. Covered'
  <2> SUFFICES ASSUME NEW i \in Items, i < next + 1, ~failed, ~Done(i) PROVE Held(i)'
    BY <1>2, <1>4 DEF Covered, Done, Text
  <2>1. CASE i = next
    <3>1. next <= size
      BY <1>3, <2>1 DEF Items
    <3>2. worker'[w] = "work" /\ item'[w] = i
      BY <1>1, <1>2, <2>1, <3>1 DEF TypeInv
    <3> QED BY <3>2 DEF Held
  <2>2. CASE i # next
    <3>1. i < next
      BY <1>3, <2>2
    <3>2. PICK v \in Threads : worker[v] \in {"work", "catch"} /\ item[v] = i
      BY <1>1, <3>1 DEF Covered, Held
    <3>3. v # w
      BY <1>2, <3>2
    <3> QED BY <1>5, <3>2, <3>3 DEF Held
  <2> QED BY <2>1, <2>2
<1>7. HeldInRange'
  <2> SUFFICES ASSUME NEW v \in Threads, worker'[v] \in {"work", "catch"} PROVE item'[v] \in Items
    BY <1>4 DEF HeldInRange
  <2>1. CASE v = w
    <3>1. next <= size /\ item'[w] = next
      BY <1>1, <1>2, <2>1 DEF TypeInv
    <3> QED BY <1>3, <2>1, <3>1 DEF Items
  <2>2. CASE v # w
    BY <1>1, <1>5, <2>2 DEF HeldInRange
  <2> QED BY <2>1, <2>2
<1>8. (next > size => next' > size) /\ (~(next <= size) => next' > size)
  BY <1>2, <1>3
<1>9. CASE next <= size
  BY <1>1, <1>2, <1>3, <1>5, <1>6, <1>7, <1>8, <1>9, PoolMoves DEF TypeInv, WorkerPlaces
<1>10. CASE ~(next <= size)
  BY <1>1, <1>2, <1>3, <1>5, <1>6, <1>7, <1>8, <1>10, PoolMoves DEF TypeInv, WorkerPlaces
<1> QED BY <1>9, <1>10

\* A worker that tokenizes its text, or throws, keeps the invariant.
LEMMA WorkKeeps == \A w \in Threads : IInv /\ Work(w) => IInv'
<1> SUFFICES ASSUME NEW w \in Threads, IInv, Work(w) PROVE IInv'
  OBVIOUS
<1>1. TypeInv /\ Covered /\ HeldInRange
  BY DEF IInv
<1>2. worker[w] = "work" /\ UNCHANGED <<input, pc, item, next, failed>>
  BY DEF Work
<1>3. size' = size /\ Items' = Items
  BY <1>2 DEF size, Items
<1>4. item[w] \in Items /\ input.texts \in [Items -> Seq(Int)] /\ tokens \in [Items -> Seq(Int)]
  BY <1>1, <1>2, Sizes DEF HeldInRange, TypeInv
<1>5. CASE item[w] \in input.fails
  <2>1. worker' = [worker EXCEPT ![w] = "catch"] /\ tokens' = tokens
    BY <1>5 DEF Work
  <2>2. \A v \in Threads : worker'[v] \in {"work", "catch"} <=> worker[v] \in {"work", "catch"}
    BY <1>1, <1>2, <2>1 DEF TypeInv
  <2>3. Covered'
    <3>1. \A i \in Items : (Done(i)' <=> Done(i)) /\ (Held(i)' <=> Held(i))
      BY <1>2, <2>1, <2>2 DEF Done, Held, Text
    <3> QED BY <1>1, <1>2, <1>3, <3>1 DEF Covered
  <2>4. HeldInRange'
    BY <1>1, <1>2, <1>3, <2>2 DEF HeldInRange
  <2> QED BY <1>1, <1>2, <2>1, <2>3, <2>4, PoolMoves DEF TypeInv, WorkerPlaces
<1>6. CASE item[w] \notin input.fails
  <2>1. worker' = [worker EXCEPT ![w] = "claim"] /\ tokens' = [tokens EXCEPT ![item[w]] = Text(item[w])]
    BY <1>6 DEF Work, Tokenized, Text
  <2>2. /\ tokens' \in [Items -> Seq(Int)] /\ tokens'[item[w]] = Text(item[w])
        /\ \A i \in Items \ {item[w]} : tokens'[i] = tokens[i]
    BY <1>4, <2>1 DEF Text
  <2>3. worker'[w] = "claim" /\ \A v \in Threads \ {w} : worker'[v] = worker[v]
    BY <1>1, <2>1 DEF TypeInv
  <2>4. Covered'
    <3> SUFFICES ASSUME NEW i \in Items, i < next, ~failed PROVE Done(i)' \/ Held(i)'
      BY <1>2, <1>3 DEF Covered
    <3>1. CASE i = item[w]
      BY <1>2, <1>6, <2>2, <3>1 DEF Done, Text
    <3>2. CASE i # item[w]
      <4>1. Done(i) => Done(i)'
        BY <1>2, <2>2, <3>2 DEF Done, Text
      <4>2. Held(i) => Held(i)'
        <5> SUFFICES ASSUME NEW v \in Threads, worker[v] \in {"work", "catch"}, item[v] = i PROVE Held(i)'
          BY DEF Held
        <5>1. v # w
          BY <3>2
        <5> QED BY <1>2, <2>3, <5>1 DEF Held
      <4> QED BY <1>1, <4>1, <4>2 DEF Covered
    <3> QED BY <3>1, <3>2
  <2>5. HeldInRange'
    BY <1>1, <1>2, <1>3, <2>3 DEF HeldInRange
  <2> QED BY <1>1, <1>2, <2>1, <2>2, <2>4, <2>5, PoolMoves DEF TypeInv, WorkerPlaces
<1> QED BY <1>5, <1>6

\* A worker that catches what was thrown keeps the invariant.
LEMMA CatchKeeps == \A w \in Threads : IInv /\ Catch(w) => IInv'
<1> SUFFICES ASSUME NEW w \in Threads, IInv, Catch(w) PROVE IInv'
  OBVIOUS
<1>1. TypeInv /\ HeldInRange
  BY DEF IInv
<1>2. /\ worker[w] = "catch" /\ worker' = [worker EXCEPT ![w] = "ended"]
      /\ failed' = TRUE /\ next' = size + 1 /\ UNCHANGED <<input, pc, item, tokens>>
  BY DEF Catch
<1>3. size' = size /\ Items' = Items /\ size \in Nat
  BY <1>1, <1>2, Sizes DEF size, Items
<1>4. Covered'
  BY <1>2 DEF Covered
<1>5. HeldInRange'
  <2>1. worker'[w] = "ended" /\ \A v \in Threads \ {w} : worker'[v] = worker[v]
    BY <1>1, <1>2 DEF TypeInv
  <2> QED BY <1>1, <1>2, <1>3, <2>1 DEF HeldInRange
<1>6. next' \in Nat \ {0} /\ next' > size
  BY <1>2, <1>3
<1> QED BY <1>1, <1>2, <1>4, <1>5, <1>6, PoolMoves DEF TypeInv, WorkerPlaces

\* The invariant of the pool holds of every state: a text that was claimed is tokenized, or
\* held by a thread, unless tokenizing failed; and the parts are cut of all the texts'
\* tokens.
THEOREM Invariance == SafeSpec => []IInv
<1>1. IInv /\ [Next]_vars => IInv'
  <2> SUFFICES ASSUME IInv, [Next]_vars PROVE IInv'
    OBVIOUS
  <2>1. CASE RequestStep
    BY <2>1, RequestKeeps, JoinKeeps, AloneKeeps DEF RequestStep
  <2>2. CASE SpawnFails
    <3>1. pc' = "thrown" => \A w \in Threads : worker[w] = "none"
      BY <2>2 DEF SpawnFails
    <3> QED BY <2>2, <3>1, RequestMoves DEF SpawnFails, poolVars, Places
  <2>3. ASSUME NEW w \in Threads, Spawn(w) \/ PoolStep(w) PROVE IInv'
    BY <2>3, SpawnKeeps, ClaimKeeps, WorkKeeps, CatchKeeps DEF PoolStep
  <2>4. CASE UNCHANGED vars
    <3>1. UNCHANGED <<input, poolVars>> /\ pc' = pc
      BY <2>4 DEF vars
    <3> QED BY <3>1, RequestMoves DEF IInv, TypeInv, PastTokens, NoneOutlives
  <2> QED BY <2>1, <2>2, <2>3, <2>4 DEF Next
<1> QED BY InitHolds, <1>1, PTL DEF SafeSpec

-----------------------------------------------------------------------------
\* "which gives the same tokens": past the pool every text has its own tokens,
\* whichever thread made them (request_tokens.cpp, 20-39).
THEOREM SameTokensAsAlone == SafeSpec => []SameTokens
BY Invariance, PTL DEF IInv, PastTokens, AllDone, Done, Items, SameTokens

\* No thread of the pool is left running when the function returns or throws
\* (request_tokens.cpp, 35-36): they use its locals.
THEOREM PoolIsJoined == SafeSpec => []NoneOutlives
BY Invariance, PTL DEF IInv

-----------------------------------------------------------------------------
(* The parts of what is returned *)

\* The state's own tokens but the last.
own == WithoutLast(Text(size))

\* The first l of the state's own tokens are a start of the prompts up to j.
Begins(l, i) == l <= Len(Text(i)) /\ \A x \in 1..l : Text(i)[x] = own[x]
BeginAll(l, j) == \A i \in 1..j : Begins(l, i)
Longest(k, j) == /\ k \in 0..Len(own)
                 /\ BeginAll(k, j)
                 /\ \A l \in 0..Len(own) : BeginAll(l, j) => l <= k
LongestOfAll(k) == Longest(k, n)
Kept(k) == state = IF \A i \in Prompts : Len(Text(i)) > k THEN SubSeq(own, 1, k) ELSE <<>>

\* What is asked of the state's part.
StateStarts ==
  /\ state \in Seq(Int)
  /\ IsStart(state, Text(size))
  /\ \A i \in Prompts : IsStart(state, Text(i)) /\ (state # <<>> => Len(state) < Len(Text(i)))
Fitting == {l \in 1..Len(own) : \A i \in Prompts : IsStart(SubSeq(own, 1, l), Text(i))}
StateLongest ==
  LET fits == Cardinality(Fitting)
  IN state = IF \A i \in Prompts : Len(Text(i)) > fits THEN SubSeq(own, 1, fits) ELSE <<>>
StatePart == StateStarts /\ StateLongest

\* The loop over the prompts is over, and left what they all have.
HasState == \E k \in 0..Len(own) : LongestOfAll(k) /\ Kept(k)

\* The prompt i has the first l tokens of the first prompt, and more.
Agrees(l, i) == l < Len(Text(i)) /\ \A x \in 1..l : Text(i)[x] = Text(1)[x]
NoFurther(l) == \E i \in Prompts : Len(Text(i)) = l + 1 \/ Text(i)[l + 1] # Text(1)[l + 1]

CutInv == pc = "cut" =>
  \E seen \in 0..n : \E k \in 0..Len(own) :
    turn = seen + 1 /\ Longest(k, seen) /\ state = SubSeq(own, 1, k)
ShareInv == pc = "share" =>
  /\ n > 1 /\ state # <<>>
  /\ HasState
  /\ \E seen \in 0..n : \E c \in Nat :
       /\ turn = seen + 1 /\ common = c
       /\ Len(state) <= c
       /\ Agrees(c, 1) /\ \A i \in 1..seen : Agrees(c, i)
       /\ NoFurther(c)
\* The prefix is the state's part, or what the prompts share past it.
Prefixed == \/ prefix = state /\ ~(n > 1 /\ state # <<>>)
            \/ \E c \in Nat : /\ n > 1 /\ Len(state) <= c
                              /\ prefix = SubSeq(Text(1), 1, c)
                              /\ \A i \in 1..n : Agrees(c, i)
                              /\ NoFurther(c)
PartsInv == CutInv /\ ShareInv /\ PartsFit

-----------------------------------------------------------------------------
(* Sequences *)

\* A set of lengths with every shorter one in it is 1..its size.
LEMMA Lengths ==
  ASSUME NEW m \in Nat, NEW S \in SUBSET (1..m), \A l \in S : 1..l \subseteq S
  PROVE  Cardinality(S) \in 0..m /\ S = 1..Cardinality(S)
<1> DEFINE c == Cardinality(S)
<1>1. IsFiniteSet(1..m) /\ Cardinality(1..m) = m
  BY FS_Interval
<1>2. IsFiniteSet(S) /\ c <= m /\ c \in Nat
  <2>1. IsFiniteSet(S) /\ Cardinality(S) <= Cardinality(1..m)
    BY ONLY <1>1, S \in SUBSET (1..m), FS_Subset
  <2>2. Cardinality(S) \in Nat
    BY ONLY <2>1, FS_CardinalityType
  <2> QED BY <1>1, <2>1, <2>2
<1>3. IsFiniteSet(1..c) /\ Cardinality(1..c) = c
  BY <1>2, FS_Interval
<1>4. S \subseteq 1..c
  <2> SUFFICES ASSUME NEW l \in S PROVE l <= c
    BY <1>2
  <2>1. Cardinality(1..l) = l
    BY FS_Interval
  <2> QED BY <1>2, <2>1, FS_Subset
<1>5. S = 1..c
  BY <1>3, <1>4, FS_Subset
<1> QED BY <1>2, <1>5

IsLongestShared(k, a, b, m) ==
  /\ k \in 0..m
  /\ k <= Len(a) /\ k <= Len(b) /\ \A x \in 1..k : a[x] = b[x]
  /\ \A l \in 0..m : l <= Len(a) /\ l <= Len(b) /\ (\A x \in 1..l : a[x] = b[x]) => l <= k

\* What Shared returns: the longest start of at most m tokens.
LEMMA SharedIs ==
  ASSUME NEW a \in Seq(Int), NEW b \in Seq(Int), NEW m \in Nat
  PROVE  IsLongestShared(Shared(a, b, m), a, b, m)
<1> DEFINE S == {l \in 1..m : l <= Len(a) /\ l <= Len(b) /\ \A x \in 1..l : a[x] = b[x]}
           k == Cardinality(S)
<1>1. k = Shared(a, b, m)
  BY DEF Shared
<1>2. S \in SUBSET (1..m) /\ \A l \in S : 1..l \subseteq S
  <2>1. ASSUME NEW l \in S, NEW x \in 1..l PROVE x \in S
    <3>1. l \in 1..m /\ l <= Len(a) /\ l <= Len(b) /\ \A y \in 1..l : a[y] = b[y]
      OBVIOUS
    <3>2. x \in 1..m /\ x <= l /\ \A y \in 1..x : y \in 1..l
      BY <3>1
    <3>3. Len(a) \in Nat /\ Len(b) \in Nat
      OBVIOUS
    <3>4. x <= Len(a) /\ x <= Len(b)
      BY <3>1, <3>2, <3>3
    <3>5. \A y \in 1..x : a[y] = b[y]
      BY <3>1, <3>2
    <3> QED BY <3>2, <3>4, <3>5
  <2> QED BY <2>1
<1>3. k \in 0..m /\ S = 1..k
  <2> HIDE DEF S
  <2> QED BY <1>2, Lengths
<1> HIDE DEF k
<1>4. k <= Len(a) /\ k <= Len(b) /\ \A x \in 1..k : a[x] = b[x]
  <2>1. CASE k = 0
    <3>1. Len(a) \in Nat /\ Len(b) \in Nat
      OBVIOUS
    <3> QED BY <2>1, <3>1
  <2>2. CASE k # 0
    <3>1. k \in S
      <4>1. k \in 1..k
        BY <1>3, <2>2
      <4> QED BY <1>3, <4>1
    <3> QED BY <3>1
  <2> QED BY <2>1, <2>2
<1>5. ASSUME NEW l \in 0..m, l <= Len(a), l <= Len(b), \A x \in 1..l : a[x] = b[x]
      PROVE  l <= k
  <2>1. CASE l = 0
    BY <1>3, <2>1
  <2>2. CASE l # 0
    <3>1. l \in S
      <4>1. l \in 1..m
        BY <2>2
      <4> QED BY <1>5, <4>1
    <3>2. l \in 1..k
      BY <1>3, <3>1
    <3> QED BY <1>3, <3>2
  <2> QED BY <2>1, <2>2
<1> QED BY <1>1, <1>3, <1>4, <1>5 DEF IsLongestShared

\* The first k tokens of a text, and the starts of that start.
LEMMA StartOf ==
  ASSUME NEW s \in Seq(Int), NEW k \in 0..Len(s)
  PROVE  /\ SubSeq(s, 1, k) \in Seq(Int)
         /\ Len(SubSeq(s, 1, k)) = k
         /\ \A x \in 1..k : SubSeq(s, 1, k)[x] = s[x]
         /\ \A l \in 0..k : SubSeq(SubSeq(s, 1, k), 1, l) = SubSeq(s, 1, l)
<1>1. \A j \in 0..Len(s) : /\ SubSeq(s, 1, j) \in Seq(Int)
                           /\ Len(SubSeq(s, 1, j)) = j
                           /\ \A x \in 1..j : SubSeq(s, 1, j)[x] = s[x]
  OBVIOUS
<1>2. ASSUME NEW l \in 0..k PROVE SubSeq(SubSeq(s, 1, k), 1, l) = SubSeq(s, 1, l)
  <2> DEFINE u == SubSeq(s, 1, k)
  <2>1. u \in Seq(Int) /\ Len(u) = k /\ \A x \in 1..k : u[x] = s[x]
    BY <1>1
  <2> HIDE DEF u
  <2>2. /\ SubSeq(u, 1, l) \in Seq(Int) /\ Len(SubSeq(u, 1, l)) = l
        /\ \A x \in 1..l : SubSeq(u, 1, l)[x] = u[x]
    BY <2>1
  <2>3. /\ SubSeq(s, 1, l) \in Seq(Int) /\ Len(SubSeq(s, 1, l)) = l
        /\ \A x \in 1..l : SubSeq(s, 1, l)[x] = s[x]
    BY <1>1
  <2>4. SubSeq(u, 1, l) = SubSeq(s, 1, l)
    BY <2>1, <2>2, <2>3, SeqEqual
  <2> QED BY <2>4 DEF u
<1> QED BY <1>1, <1>2

-----------------------------------------------------------------------------
(* The texts *)

\* What a typed state says of the state's own tokens and of the prompts.
LEMMA Given ==
  ASSUME TypeInv
  PROVE  /\ size \in Nat \ {0} /\ n \in Nat /\ n = size - 1
         /\ \A i \in 1..size : Text(i) \in Seq(Int)
         /\ own \in Seq(Int)
         /\ \A x \in 1..Len(own) : own[x] = Text(size)[x]
         /\ Len(own) <= Len(Text(size))
<1>1. input.texts \in Seq(Seq(Int)) /\ input.texts # <<>>
  BY InputsAssumption DEF TypeInv
<1>2. size \in Nat \ {0} /\ n \in Nat /\ n = size - 1
  BY <1>1 DEF size, n
<1>3. \A i \in 1..size : Text(i) \in Seq(Int)
  BY <1>1 DEF size, Text
<1>4. Text(size) \in Seq(Int)
  BY <1>2, <1>3
<1>5. CASE Text(size) = <<>>
  <2>1. own = <<>>
    BY <1>5 DEF own, WithoutLast
  <2> QED BY <1>2, <1>3, <1>4, <2>1
<1>6. CASE Text(size) # <<>>
  <2>1. Len(Text(size)) - 1 \in 0..Len(Text(size))
    BY <1>4, <1>6
  <2>2. own = SubSeq(Text(size), 1, Len(Text(size)) - 1)
    BY <1>6 DEF own, WithoutLast
  <2>3. own \in Seq(Int) /\ Len(own) = Len(Text(size)) - 1 /\ \A x \in 1..Len(own) : own[x] = Text(size)[x]
    BY <1>4, <2>1, <2>2, StartOf
  <2> QED BY <1>2, <1>3, <1>4, <2>3
<1> QED BY <1>5, <1>6

\* What is said of the input alone is unchanged while the input is.
LEMMA InputStays ==
  ASSUME input' = input
  PROVE  /\ own' = own /\ n' = n /\ size' = size /\ Prompts' = Prompts
         /\ \A i : Text(i)' = Text(i)
         /\ \A k, j : Longest(k, j)' <=> Longest(k, j)
         /\ \A l, i : Agrees(l, i)' <=> Agrees(l, i)
         /\ \A l : NoFurther(l)' <=> NoFurther(l)
         /\ \A k : LongestOfAll(k)' <=> LongestOfAll(k)
<1>1. /\ n' = n /\ size' = size /\ Prompts' = Prompts /\ \A i : Text(i)' = Text(i)
  BY DEF n, size, Prompts, Text
<1>2. own' = own
  BY DEF own, WithoutLast, Text, size
<1>3. \A l, i : Begins(l, i)' <=> Begins(l, i)
  BY <1>1, <1>2 DEF Begins
<1>4. \A l, j : BeginAll(l, j)' <=> BeginAll(l, j)
  BY <1>3 DEF BeginAll
<1>5. \A k, j : Longest(k, j)' <=> Longest(k, j)
  BY <1>2, <1>4 DEF Longest
<1>6. \A l, i : Agrees(l, i)' <=> Agrees(l, i)
  BY <1>1 DEF Agrees
<1>7. \A l : NoFurther(l)' <=> NoFurther(l)
  BY <1>1 DEF NoFurther
<1>8. \A k : LongestOfAll(k)' <=> LongestOfAll(k)
  BY <1>1, <1>2, <1>4 DEF LongestOfAll, Longest, BeginAll
<1> QED BY <1>1, <1>2, <1>5, <1>6, <1>7, <1>8

\* PartsAreLongest, with its parts named.
LongestParts == StateLongest /\ (n > 1 /\ state # <<>> => NoFurther(Len(prefix)))
\* The property of the parts that are returned, by its name in the proofs.
LEMMA LongestIs == PartsAreLongest <=> (pc = "returned" => LongestParts)
<1>1. (n > 1 /\ state # <<>> => NoFurther(Len(prefix))) <=>
        (n > 1 /\ state # <<>> =>
          \E i \in Prompts : Len(Text(i)) = Len(prefix) + 1 \/ Text(i)[Len(prefix) + 1] # Text(1)[Len(prefix) + 1])
  BY DEF NoFurther
<1> QED BY <1>1 DEF LongestParts, StateLongest, Fitting, PartsAreLongest, own

\* What is said of the state's part is unchanged while it is.
LEMMA StateStays ==
  ASSUME input' = input, state' = state
  PROVE  /\ HasState' <=> HasState
         /\ StatePart' <=> StatePart
         /\ StateLongest' <=> StateLongest
<1>1. \A k : Kept(k)' <=> Kept(k)
  BY InputStays DEF Kept
<1>2. HasState' <=> HasState
  BY <1>1, InputStays DEF HasState
<1>3. StateStarts' <=> StateStarts
  BY InputStays DEF StateStarts, IsStart
<1>4. StateLongest' <=> StateLongest
  <2>1. Fitting' = Fitting
    BY InputStays DEF Fitting, IsStart
  <2> QED BY <2>1, InputStays DEF StateLongest
<1> QED BY <1>2, <1>3, <1>4 DEF StatePart

-----------------------------------------------------------------------------
(* The steps *)

\* The loop over the prompts begins with the own tokens of the state but the last.
LEMMA StartKeeps ==
  ASSUME IInv, IInv', input' = input, tokens' = tokens, Start PROVE PartsInv'
<1>1. pc' = "cut" /\ turn' = 1 /\ state' = WithoutLast(tokens[size])
  BY DEF Start
<1>2. size \in Nat \ {0} /\ n \in Nat /\ n = size - 1 /\ own \in Seq(Int)
  BY Given DEF IInv
<1>3. tokens[size] = Text(size)
  <2>1. AllDone'
    BY <1>1 DEF IInv, PastTokens
  <2>2. \A i \in 1..size : tokens[i] = Text(i)
    BY <2>1 DEF AllDone, Items, Done, Text, size
  <2> QED BY <1>2, <2>2
<1>4. state' = own
  BY <1>1, <1>3 DEF own
<1>5. Longest(Len(own), 0) /\ own = SubSeq(own, 1, Len(own)) /\ Len(own) \in 0..Len(own)
  BY <1>2 DEF Longest, BeginAll
<1>6. CutInv'
  <2>1. PICK k \in 0..Len(own), seen \in 0..n : k = Len(own) /\ seen = 0
    BY <1>2
  <2>2. Longest(k, seen) /\ state' = SubSeq(own', 1, k) /\ turn' = seen + 1
    BY <1>1, <1>4, <1>5, <2>1, InputStays
  <2>3. k \in 0..Len(own') /\ seen \in 0..n' /\ Longest(k, seen)'
    BY <2>2, InputStays
  <2> QED BY <2>2, <2>3 DEF CutInv
<1> QED BY <1>1, <1>6 DEF PartsInv, ShareInv, PartsFit, EveryPromptGoesOn, PartsAreLongest

\* A turn of the loop cuts the state to what the next prompt begins with.
LEMMA CutKeeps ==
  ASSUME IInv, CutInv, Cut PROVE PartsInv'
<1>1. /\ pc = "cut" /\ pc' = "cut" /\ turn' = turn + 1 /\ turn <= n /\ input' = input
      /\ state' = SubSeq(state, 1, Shared(state, tokens[turn], Len(state)))
  BY DEF Cut, t
<1>2. n \in Nat /\ size = n + 1 /\ own \in Seq(Int) /\ \A i \in 1..size : Text(i) \in Seq(Int)
  BY Given DEF IInv
<1>3. PICK seen \in 0..n, k \in 0..Len(own) :
        turn = seen + 1 /\ Longest(k, seen) /\ state = SubSeq(own, 1, k)
  BY <1>1 DEF CutInv
<1>4. turn \in 1..n
  BY <1>1, <1>2, <1>3
<1>5. tokens[turn] = Text(turn) /\ Text(turn) \in Seq(Int)
  BY <1>1, <1>2, <1>4 DEF IInv, PastTokens, AllDone, Items, Done
<1>6. /\ state \in Seq(Int) /\ Len(state) = k /\ \A x \in 1..k : state[x] = own[x]
      /\ \A l \in 0..k : SubSeq(state, 1, l) = SubSeq(own, 1, l)
  BY <1>2, <1>3, StartOf
<1> DEFINE m == Shared(state, Text(turn), Len(state))
<1>7. /\ m \in 0..k /\ m <= Len(Text(turn)) /\ \A x \in 1..m : state[x] = Text(turn)[x]
      /\ \A l \in 0..k : l <= Len(Text(turn)) /\ (\A x \in 1..l : state[x] = Text(turn)[x]) => l <= m
  <2>1. IsLongestShared(m, state, Text(turn), Len(state))
    BY <1>5, <1>6, SharedIs
  <2> HIDE DEF m
  <2>2. IsLongestShared(m, state, Text(turn), k)
    BY <1>6, <2>1
  <2>3. m \in 0..k /\ m <= Len(Text(turn)) /\ \A x \in 1..m : state[x] = Text(turn)[x]
    BY <2>2 DEF IsLongestShared
  <2>4. ASSUME NEW l \in 0..k, l <= Len(Text(turn)), \A x \in 1..l : state[x] = Text(turn)[x]
        PROVE  l <= m
    <3>1. l <= Len(state)
      BY <1>6
    <3> QED BY <2>2, <2>4, <3>1 DEF IsLongestShared
  <2> QED BY <2>3, <2>4
<1>8. state' = SubSeq(own, 1, m)
  BY <1>1, <1>5, <1>6, <1>7
<1> HIDE DEF m
<1>9. Longest(m, turn)
  <2>1. m \in 0..Len(own)
    BY <1>7
  <2>2. Begins(m, turn)
    BY <1>6, <1>7 DEF Begins
  <2>3. \A i \in 1..seen : Begins(m, i)
    <3> SUFFICES ASSUME NEW i \in 1..seen PROVE Begins(m, i)
      OBVIOUS
    <3>1. Begins(k, i)
      BY <1>3 DEF Longest, BeginAll
    <3>2. Text(i) \in Seq(Int)
      BY <1>2, <1>3
    <3> QED BY <1>7, <3>1, <3>2 DEF Begins
  <2>4. BeginAll(m, turn)
    BY <1>3, <2>2, <2>3 DEF BeginAll
  <2>5. ASSUME NEW l \in 0..Len(own), BeginAll(l, turn) PROVE l <= m
    <3>1. BeginAll(l, seen) /\ Begins(l, turn)
      BY <1>3, <1>4, <2>5 DEF BeginAll
    <3>2. l \in 0..k
      BY <1>3, <3>1 DEF Longest
    <3>3. l <= Len(Text(turn)) /\ \A x \in 1..l : Text(turn)[x] = own[x]
      BY <3>1 DEF Begins
    <3>4. \A x \in 1..l : x \in 1..k
      BY <1>3, <3>2
    <3>5. \A x \in 1..l : state[x] = Text(turn)[x]
      BY <1>6, <3>3, <3>4
    <3> QED BY <1>7, <3>2, <3>3, <3>5
  <2> QED BY <2>1, <2>4, <2>5 DEF Longest
<1>10. CutInv'
  <2>1. PICK l \in 0..Len(own), now \in 0..n : l = m /\ now = turn
    BY <1>2, <1>4, <1>7
  <2>2. Longest(l, now) /\ turn' = now + 1 /\ state' = SubSeq(own', 1, l)
    BY <1>1, <1>8, <1>9, <2>1, InputStays
  <2>3. now \in 0..n' /\ l \in 0..Len(own') /\ Longest(l, now)'
    BY <1>1, <2>2, InputStays
  <2> QED BY <2>2, <2>3 DEF CutInv
<1> QED BY <1>1, <1>10 DEF PartsInv, ShareInv, PartsFit, EveryPromptGoesOn, PartsAreLongest

-----------------------------------------------------------------------------
(* What is returned *)

\* The state's part, once the loop is over.
LEMMA KeptState ==
  TypeInv /\ HasState => StatePart
<1> SUFFICES ASSUME TypeInv, NEW k \in 0..Len(own), LongestOfAll(k), Kept(k)
             PROVE  StatePart
  BY DEF HasState
<1>1. /\ size \in Nat \ {0} /\ n \in Nat /\ n = size - 1 /\ own \in Seq(Int)
      /\ \A i \in 1..size : Text(i) \in Seq(Int)
      /\ \A x \in 1..Len(own) : own[x] = Text(size)[x]
      /\ Len(own) <= Len(Text(size))
  BY Given
<1>2. \A l \in 0..Len(own) : /\ SubSeq(own, 1, l) \in Seq(Int) /\ Len(SubSeq(own, 1, l)) = l
                             /\ \A x \in 1..l : SubSeq(own, 1, l)[x] = own[x]
  BY <1>1, StartOf
<1>3. ASSUME NEW l \in 0..Len(own), NEW i \in Prompts
      PROVE  IsStart(SubSeq(own, 1, l), Text(i)) <=> Begins(l, i)
  <2> DEFINE s == SubSeq(own, 1, l)
  <2>1. s \in Seq(Int) /\ Len(s) = l /\ DOMAIN s = 1..l /\ \A x \in 1..l : s[x] = own[x]
    BY <1>2
  <2> HIDE DEF s
  <2>2. IsStart(s, Text(i)) <=> Begins(l, i)
    BY <2>1 DEF IsStart, Begins
  <2> QED BY <2>2 DEF s
<1>4. ASSUME NEW l \in 1..Len(own)
      PROVE  (\A i \in Prompts : IsStart(SubSeq(own, 1, l), Text(i))) <=> l <= k
  <2>1. (\A i \in Prompts : IsStart(SubSeq(own, 1, l), Text(i))) <=> BeginAll(l, n)
    BY <1>3 DEF BeginAll, Prompts
  <2>2. BeginAll(l, n) => l <= k
    BY DEF LongestOfAll, Longest
  <2>3. l <= k => BeginAll(l, n)
    <3> SUFFICES ASSUME l <= k, NEW i \in 1..n PROVE Begins(l, i)
      BY DEF BeginAll
    <3>1. Begins(k, i) /\ Text(i) \in Seq(Int)
      BY <1>1 DEF LongestOfAll, Longest, BeginAll
    <3> QED BY <3>1 DEF Begins
  <2> QED BY <2>1, <2>2, <2>3
<1> DEFINE fits == Cardinality({l \in 1..Len(own) : \A i \in Prompts : IsStart(SubSeq(own, 1, l), Text(i))})
<1>5. fits = k
  <2>1. {l \in 1..Len(own) : \A i \in Prompts : IsStart(SubSeq(own, 1, l), Text(i))} = 1..k
    BY <1>4
  <2>2. Cardinality(1..k) = k
    BY FS_Interval
  <2> QED BY <2>1, <2>2
<1>6. state = IF \A i \in Prompts : Len(Text(i)) > fits THEN SubSeq(own, 1, fits) ELSE <<>>
  BY <1>5 DEF Kept
<1>7. ASSUME \A i \in Prompts : Len(Text(i)) > k
      PROVE  /\ state \in Seq(Int)
             /\ IsStart(state, Text(size))
             /\ \A i \in Prompts : IsStart(state, Text(i)) /\ (state # <<>> => Len(state) < Len(Text(i)))
  <2>1. state = SubSeq(own, 1, k)
    BY <1>7 DEF Kept
  <2>2. state \in Seq(Int) /\ Len(state) = k /\ DOMAIN state = 1..k /\ \A x \in 1..k : state[x] = own[x]
    BY <1>2, <2>1
  <2>3. IsStart(state, Text(size))
    <3>1. Text(size) \in Seq(Int) /\ k <= Len(own)
      BY <1>1
    <3>2. k <= Len(Text(size))
      BY <1>1, <3>1
    <3>3. \A x \in 1..k : state[x] = Text(size)[x]
      <4>1. \A x \in 1..k : x \in 1..Len(own)
        BY <1>1, <3>1
      <4> QED BY <1>1, <2>2, <4>1
    <3> QED BY <2>2, <3>2, <3>3 DEF IsStart
  <2>4. \A i \in Prompts : IsStart(state, Text(i))
    BY <1>3, <2>1 DEF LongestOfAll, Longest, BeginAll, Prompts
  <2>5. \A i \in Prompts : Len(state) < Len(Text(i))
    BY <1>7, <2>2
  <2> QED BY <2>2, <2>3, <2>4, <2>5
<1>8. ASSUME ~ \A i \in Prompts : Len(Text(i)) > k
      PROVE  /\ state \in Seq(Int)
             /\ IsStart(state, Text(size))
             /\ \A i \in Prompts : IsStart(state, Text(i)) /\ (state # <<>> => Len(state) < Len(Text(i)))
  <2>1. state = <<>>
    BY <1>8 DEF Kept
  <2>2. \A i \in 1..size : IsStart(state, Text(i))
    BY <1>1, <2>1 DEF IsStart
  <2>3. state \in Seq(Int)
    BY <2>1
  <2> QED BY <1>1, <2>1, <2>2, <2>3 DEF Prompts
<1> QED BY <1>6, <1>7, <1>8 DEF StatePart, StateStarts, StateLongest, Fitting

\* A state and a prefix that begin the prompts are parts that fit.
LEMMA ReturnFits == TypeInv /\ StatePart /\ Prefixed => PartsFit
<1> SUFFICES ASSUME TypeInv, StatePart, Prefixed PROVE PartsFit
  OBVIOUS
<1>1. /\ size \in Nat \ {0} /\ n \in Nat /\ n = size - 1
      /\ \A i \in 1..size : Text(i) \in Seq(Int)
  BY Given
<1>2. /\ state \in Seq(Int) /\ IsStart(state, Text(size))
      /\ \A i \in Prompts : IsStart(state, Text(i)) /\ (state # <<>> => Len(state) < Len(Text(i)))
  BY DEF StatePart, StateStarts
<1>3. (n > 1 /\ state # <<>> => NoFurther(Len(prefix))) => PartsAreLongest
  BY LongestIs DEF LongestParts, StatePart
<1>4. CASE prefix = state /\ ~(n > 1 /\ state # <<>>)
  <2>1. IsStart(state, prefix)
    BY <1>2, <1>4 DEF IsStart
  <2>2. EveryPromptGoesOn
    BY <1>2, <1>4, <2>1 DEF EveryPromptGoesOn
  <2> QED BY <1>3, <1>4, <2>2 DEF PartsFit
<1>5. ASSUME NEW c \in Nat, n > 1, Len(state) <= c, prefix = SubSeq(Text(1), 1, c),
             \A i \in 1..n : Agrees(c, i), NoFurther(c)
      PROVE  PartsFit
  <2>1. \A i \in 1..n : c < Len(Text(i)) /\ \A x \in 1..c : Text(i)[x] = Text(1)[x]
    BY <1>5 DEF Agrees
  <2>2. 1 \in 1..n /\ Text(1) \in Seq(Int) /\ c < Len(Text(1)) /\ IsStart(state, Text(1))
    BY <1>1, <1>2, <1>5, <2>1 DEF Prompts
  <2>3. Len(prefix) = c /\ DOMAIN prefix = 1..c /\ \A x \in 1..c : prefix[x] = Text(1)[x]
    <3>1. c \in 0..Len(Text(1))
      BY <2>2
    <3>2. prefix \in Seq(Int) /\ Len(prefix) = c /\ \A x \in 1..c : prefix[x] = Text(1)[x]
      BY <1>5, <2>2, <3>1, StartOf
    <3> QED BY <3>2
  <2>4. IsStart(state, prefix)
    <3>1. Len(state) \in Nat /\ DOMAIN state = 1..Len(state)
      BY <1>2
    <3>2. \A x \in 1..Len(state) : x \in 1..c /\ state[x] = Text(1)[x]
      <4>1. \A x \in 1..Len(state) : x \in 1..c
        BY <1>5, <3>1
      <4>2. \A x \in DOMAIN state : state[x] = Text(1)[x]
        BY <2>2 DEF IsStart
      <4> QED BY <3>1, <4>1, <4>2
    <3> QED BY <1>5, <2>3, <3>1, <3>2 DEF IsStart
  <2>5. \A i \in Prompts : IsStart(prefix, Text(i)) /\ Len(prefix) < Len(Text(i))
    <3> SUFFICES ASSUME NEW i \in 1..n PROVE IsStart(prefix, Text(i)) /\ c < Len(Text(i))
      BY <2>3 DEF Prompts
    <3>1. Text(i) \in Seq(Int)
      BY <1>1
    <3>2. c < Len(Text(i)) /\ \A x \in 1..c : prefix[x] = Text(i)[x]
      BY <2>1, <2>3
    <3> QED BY <2>3, <3>1, <3>2 DEF IsStart
  <2>6. EveryPromptGoesOn
    BY <1>2, <2>4, <2>5 DEF EveryPromptGoesOn
  <2>7. PartsAreLongest
    BY <1>3, <1>5, <2>3
  <2> QED BY <2>6, <2>7 DEF PartsFit
<1> QED BY <1>4, <1>5 DEF Prefixed

\* After the last prompt the state is the longest start of it that all prompts begin with.
LEMMA LoopEnds ==
  ASSUME TypeInv, CutInv, pc = "cut", turn > n
  PROVE  \E k \in 0..Len(own) : LongestOfAll(k) /\ state = SubSeq(own, 1, k) /\ Len(state) = k
<1>1. n \in Nat /\ own \in Seq(Int)
  BY Given
<1>2. PICK seen \in 0..n, k \in 0..Len(own) :
        turn = seen + 1 /\ Longest(k, seen) /\ state = SubSeq(own, 1, k)
  BY DEF CutInv
<1>3. seen = n
  BY <1>1, <1>2
<1>4. Len(state) = k
  BY <1>1, <1>2, StartOf
<1> QED BY <1>2, <1>3, <1>4 DEF LongestOfAll

\* Keeping the state, or dropping it if a prompt is no longer, keeps the invariant of the
\* parts.
LEMMA KeepStateKeeps ==
  ASSUME IInv, IInv', CutInv, KeepState PROVE PartsInv'
<1>1. /\ pc = "cut" /\ turn > n /\ input' = input /\ turn' = 1 /\ prefix' = state'
      /\ state' = IF Extended THEN state ELSE <<>>
      /\ IF n > 1 /\ state' # <<>> THEN pc' = "share" /\ common' = Len(tokens[1]) - 1 ELSE pc' = "returned"
  BY DEF KeepState, t
<1>2. /\ size \in Nat \ {0} /\ n \in Nat /\ n = size - 1
      /\ own \in Seq(Int) /\ \A i \in 1..size : Text(i) \in Seq(Int)
  BY Given DEF IInv
<1>3. \A i \in 1..size : tokens[i] = Text(i)
  BY <1>1 DEF IInv, PastTokens, AllDone, Items, Done
<1>4. PICK k \in 0..Len(own) : LongestOfAll(k) /\ state = SubSeq(own, 1, k) /\ Len(state) = k
  BY <1>1, LoopEnds DEF IInv
<1>5. Kept(k)' /\ LongestOfAll(k)' /\ k \in 0..Len(own)'
  <2>1. Extended <=> \A i \in Prompts : Len(Text(i)) > k
    <3>1. \A i \in Prompts : i \in 1..size
      BY <1>2 DEF Prompts
    <3>2. \A i \in Prompts : t(i) = Text(i)
      BY <1>3, <3>1 DEF t
    <3> QED BY <1>4, <3>2 DEF Extended
  <2>2. state' = IF \A i \in Prompts' : Len(Text(i)') > k THEN SubSeq(own', 1, k) ELSE <<>>
    BY <1>1, <1>4, <2>1, InputStays
  <2> QED BY <1>1, <1>4, <2>2, InputStays DEF Kept
<1>6. StatePart'
  <2>1. TypeInv'
    BY DEF IInv
  <2>2. HasState'
    BY <1>5 DEF HasState
  <2> QED BY <2>1, <2>2, KeptState, PTL
<1>7. CASE n > 1 /\ state' # <<>>
  <2>1. pc' = "share" /\ common' = Len(Text(1)) - 1
    BY <1>1, <1>2, <1>3, <1>7
  <2>2. 1 \in Prompts /\ 1 \in Prompts' /\ Text(1) \in Seq(Int) /\ Text(1)' = Text(1)
    BY <1>1, <1>2, <1>7, InputStays DEF Prompts
  <2>3. Len(state') < Len(Text(1)) /\ Len(state') \in Nat
    <3>1. StateStarts'
      BY <1>6 DEF StatePart
    <3>2. Len(state') < Len(Text(1)) /\ state' \in Seq(Int)
      BY <1>7, <2>2, <3>1 DEF StateStarts
    <3> QED BY <3>2
  <2>4. PICK c \in Nat : c = Len(Text(1)) - 1
    BY <2>2, <2>3
  <2>5. /\ Agrees(c, 1) /\ NoFurther(c) /\ Len(state') <= c /\ common' = c
    BY <2>1, <2>2, <2>3, <2>4 DEF Agrees, NoFurther
  <2>6. PICK seen \in 0..n : seen = 0
    BY <1>2
  <2>7. /\ seen \in 0..n' /\ turn' = seen + 1 /\ Agrees(c, 1)' /\ NoFurther(c)'
        /\ \A i \in 1..seen : Agrees(c, i)'
        /\ n' > 1
    BY <1>1, <1>7, <2>5, <2>6, InputStays
  <2>8. ShareInv'
    <3>1. HasState'
      BY <1>5 DEF HasState
    <3> QED BY <1>7, <2>5, <2>7, <3>1 DEF ShareInv
  <2> QED BY <2>1, <2>8 DEF PartsInv, CutInv, PartsFit, EveryPromptGoesOn, PartsAreLongest
<1>8. CASE ~(n > 1 /\ state' # <<>>)
  <2>1. pc' = "returned"
    BY <1>1, <1>8
  <2>2. Prefixed'
    BY <1>1, <1>8, InputStays DEF Prefixed
  <2>3. PartsFit'
    BY <1>6, <2>2, ReturnFits, PTL DEF IInv
  <2> QED BY <2>1, <2>3 DEF PartsInv, CutInv, ShareInv
<1> QED BY <1>7, <1>8

\* A turn of the second loop cuts the prefix to what the next prompt begins with.
LEMMA ShareKeeps ==
  ASSUME IInv, IInv', ShareInv, Share PROVE PartsInv'
<1>1. /\ pc = "share" /\ pc' = "share" /\ turn' = turn + 1 /\ turn <= n /\ input' = input /\ state' = state
      /\ common' = Shared(tokens[turn], tokens[1], ShorterOf(common, Len(tokens[turn]) - 1))
  BY DEF Share, t
<1>2. n \in Nat /\ size = n + 1 /\ \A i \in 1..size : Text(i) \in Seq(Int)
  BY Given DEF IInv
<1>3. PICK seen \in 0..n, c \in Nat :
        /\ turn = seen + 1 /\ common = c
        /\ Len(state) <= c
        /\ Agrees(c, 1) /\ \A i \in 1..seen : Agrees(c, i)
        /\ NoFurther(c)
  BY <1>1 DEF ShareInv
<1>4. turn \in 1..n /\ 1 \in 1..n /\ n > 1 /\ state # <<>>
  BY <1>1, <1>2, <1>3 DEF ShareInv
<1>5. /\ tokens[turn] = Text(turn) /\ Text(turn) \in Seq(Int)
      /\ tokens[1] = Text(1) /\ Text(1) \in Seq(Int)
  BY <1>1, <1>2, <1>4 DEF IInv, PastTokens, AllDone, Items, Done
<1>6. StatePart
  BY <1>1, KeptState DEF IInv, ShareInv
<1>7. /\ state \in Seq(Int) /\ Len(state) < Len(Text(turn))
      /\ \A x \in 1..Len(state) : state[x] = Text(turn)[x] /\ state[x] = Text(1)[x]
  <2>1. state \in Seq(Int) /\ DOMAIN state = 1..Len(state)
    BY <1>6 DEF StatePart, StateStarts
  <2> QED BY <1>4, <1>6, <2>1 DEF StatePart, StateStarts, Prompts, IsStart
<1> DEFINE most == ShorterOf(c, Len(Text(turn)) - 1)
           d == Shared(Text(turn), Text(1), most)
<1>8. most \in Nat /\ most <= c /\ most < Len(Text(turn)) /\ (most = c \/ most = Len(Text(turn)) - 1)
      /\ Len(state) <= most
  <2>1. Len(Text(turn)) \in Nat /\ Len(state) \in Nat
    BY <1>5, <1>7
  <2> QED BY <1>3, <1>7, <2>1 DEF ShorterOf
<1>9. common' = d
  BY <1>1, <1>3, <1>5
<1> HIDE DEF most
<1>10. IsLongestShared(d, Text(turn), Text(1), most)
  BY <1>5, <1>8, SharedIs
<1> HIDE DEF d
<1>11. d \in 0..most /\ d \in Nat /\ d <= c
  BY <1>8, <1>10 DEF IsLongestShared
<1>12. Len(state) <= d
  <2>1. Len(state) \in Nat /\ Len(state) \in 0..most
    BY <1>7, <1>8
  <2>2. Len(state) <= Len(Text(1))
    BY <1>3, <1>5, <1>7, <2>1 DEF Agrees
  <2>3. \A x \in 1..Len(state) : Text(turn)[x] = Text(1)[x]
    BY <1>7
  <2>4. Len(state) <= Len(Text(turn))
    BY <1>5, <1>7, <2>1
  <2> QED BY <1>10, <2>1, <2>2, <2>3, <2>4 DEF IsLongestShared
<1>13. Agrees(d, turn)
  BY <1>5, <1>8, <1>10, <1>11 DEF IsLongestShared, Agrees
<1>14. Agrees(d, 1) /\ \A i \in 1..seen : Agrees(d, i)
  <2>1. ASSUME NEW i \in 1..n, Agrees(c, i) PROVE Agrees(d, i)
    <3>1. Text(i) \in Seq(Int)
      BY <1>2
    <3> QED BY <1>11, <2>1, <3>1 DEF Agrees
  <2>2. \A i \in 1..seen : i \in 1..n
    BY <1>2, <1>3
  <2> QED BY <1>3, <1>4, <2>1, <2>2
<1>15. \A i \in 1..turn : Agrees(d, i)
  BY <1>3, <1>13, <1>14
<1>16. NoFurther(d)
  <2>1. CASE d = c
    BY <1>3, <2>1
  <2>2. CASE d = Len(Text(turn)) - 1
    <3>1. Len(Text(turn)) = d + 1
      BY <1>5, <2>2
    <3> QED BY <1>4, <3>1 DEF NoFurther, Prompts
  <2>3. CASE d # c /\ d # Len(Text(turn)) - 1
    <3>1. d < most /\ d + 1 \in 0..most
      BY <1>8, <1>11, <2>3
    <3>2. d + 1 <= Len(Text(turn)) /\ d + 1 <= Len(Text(1))
      <4>1. c < Len(Text(1)) /\ Len(Text(1)) \in Nat /\ Len(Text(turn)) \in Nat
        BY <1>3, <1>5 DEF Agrees
      <4> QED BY <1>8, <3>1, <4>1
    <3>3. ~ \A x \in 1..(d + 1) : Text(turn)[x] = Text(1)[x]
      BY <1>10, <1>11, <3>1, <3>2 DEF IsLongestShared
    <3>4. \A x \in 1..d : Text(turn)[x] = Text(1)[x]
      BY <1>10 DEF IsLongestShared
    <3>5. Text(turn)[d + 1] # Text(1)[d + 1]
      BY <1>11, <3>3, <3>4
    <3> QED BY <1>4, <3>5 DEF NoFurther, Prompts
  <2> QED BY <2>1, <2>2, <2>3
<1>17. ShareInv'
  <2>1. PICK now \in 0..n, e \in Nat : now = turn /\ e = d
    BY <1>4, <1>11
  <2>2. /\ now \in 0..n' /\ turn' = now + 1 /\ common' = e /\ Len(state') <= e
        /\ Agrees(e, 1)' /\ (\A i \in 1..now : Agrees(e, i)') /\ NoFurther(e)'
    BY <1>1, <1>9, <1>12, <1>14, <1>15, <1>16, <2>1, InputStays
  <2>3. n' > 1 /\ state' # <<>>
    BY <1>1, <1>4, InputStays
  <2>4. HasState'
    BY <1>1, StateStays DEF ShareInv
  <2> QED BY <2>2, <2>3, <2>4 DEF ShareInv
<1> QED BY <1>1, <1>17 DEF PartsInv, CutInv, PartsFit, EveryPromptGoesOn, PartsAreLongest

\* Returning the prefix keeps the invariant of the parts.
LEMMA FinishKeeps ==
  ASSUME IInv, IInv', ShareInv, Finish PROVE PartsInv'
<1>1. /\ pc = "share" /\ turn > n /\ pc' = "returned" /\ input' = input /\ state' = state
      /\ prefix' = SubSeq(tokens[1], 1, common)
  BY DEF Finish, t
<1>2. n \in Nat /\ size = n + 1
  BY Given DEF IInv
<1>3. PICK seen \in 0..n, c \in Nat :
        /\ turn = seen + 1 /\ common = c
        /\ Len(state) <= c
        /\ Agrees(c, 1) /\ \A i \in 1..seen : Agrees(c, i)
        /\ NoFurther(c)
  BY <1>1 DEF ShareInv
<1>4. seen = n /\ n > 1
  BY <1>1, <1>2, <1>3 DEF ShareInv
<1>5. tokens[1] = Text(1)
  BY <1>1, <1>2 DEF IInv, PastTokens, AllDone, Items, Done
<1>6. StatePart'
  <2>1. StatePart
    BY <1>1, KeptState DEF IInv, ShareInv
  <2> QED BY <1>1, <2>1, StateStays
<1>7. Prefixed'
  <2>1. /\ n' > 1 /\ Len(state') <= c /\ prefix' = SubSeq(Text(1)', 1, c)
        /\ (\A i \in 1..n' : Agrees(c, i)') /\ NoFurther(c)'
    BY <1>1, <1>3, <1>4, <1>5, InputStays
  <2> QED BY <2>1 DEF Prefixed
<1>8. PartsFit'
  BY <1>6, <1>7, ReturnFits, PTL DEF IInv
<1> QED BY <1>1, <1>8 DEF PartsInv, CutInv, ShareInv

-----------------------------------------------------------------------------
\* The other steps leave the parts alone.
LEMMA OtherSteps ==
  ASSUME PartsInv, input' = input, UNCHANGED partVars,
         pc' = pc \/ pc' \notin {"cut", "share", "returned"}
  PROVE  PartsInv'
<1>1. state' = state /\ prefix' = prefix /\ common' = common /\ turn' = turn
  BY DEF partVars
<1>2. CASE pc' \notin {"cut", "share", "returned"}
  BY <1>2 DEF PartsInv, CutInv, ShareInv, PartsFit, EveryPromptGoesOn, PartsAreLongest
<1>3. CASE pc' = pc
  <2>1. CutInv'
    <3> SUFFICES ASSUME pc = "cut" PROVE CutInv'
      BY <1>3 DEF CutInv
    <3>1. PICK seen \in 0..n, k \in 0..Len(own) :
            turn = seen + 1 /\ Longest(k, seen) /\ state = SubSeq(own, 1, k)
      BY DEF PartsInv, CutInv
    <3>2. /\ seen \in 0..n' /\ k \in 0..Len(own')
          /\ turn' = seen + 1 /\ Longest(k, seen)' /\ state' = SubSeq(own', 1, k)
      BY <1>1, <3>1, InputStays
    <3> QED BY <3>2 DEF CutInv
  <2>2. ShareInv'
    <3> SUFFICES ASSUME pc = "share" PROVE ShareInv'
      BY <1>3 DEF ShareInv
    <3>1. n' > 1 /\ state' # <<>> /\ HasState'
      BY <1>1, InputStays, StateStays DEF PartsInv, ShareInv
    <3>2. PICK seen \in 0..n, c \in Nat :
            /\ turn = seen + 1 /\ common = c
            /\ Len(state) <= c
            /\ Agrees(c, 1) /\ \A i \in 1..seen : Agrees(c, i)
            /\ NoFurther(c)
      BY DEF PartsInv, ShareInv
    <3>3. /\ seen \in 0..n' /\ turn' = seen + 1 /\ common' = c /\ Len(state') <= c
          /\ Agrees(c, 1)' /\ (\A i \in 1..seen : Agrees(c, i)') /\ NoFurther(c)'
      BY <1>1, <3>2, InputStays
    <3> QED BY <3>1, <3>3 DEF ShareInv
  <2>3. EveryPromptGoesOn' <=> EveryPromptGoesOn
    BY <1>1, <1>3, InputStays DEF EveryPromptGoesOn, IsStart
  <2>4. PartsAreLongest' <=> PartsAreLongest
    <3>1. LongestParts' <=> LongestParts
      BY <1>1, InputStays, StateStays DEF LongestParts
    <3>2. (pc = "returned")' <=> pc = "returned"
      BY <1>3
    <3> QED BY <3>1, <3>2, LongestIs, PTL
  <2> QED BY <2>1, <2>2, <2>3, <2>4 DEF PartsInv, PartsFit
<1> QED BY <1>2, <1>3

\* Whatever the texts, the state's part and the prefix are starts of every
\* prompt that goes on after them, and as long as they can be
\* (request_tokens.cpp, 40-63).
THEOREM PartsFitPrompts == SafeSpec => []PartsFit
<1>1. Init => PartsInv
  BY DEF Init, PartsInv, CutInv, ShareInv, PartsFit, EveryPromptGoesOn, PartsAreLongest
<1>2. IInv /\ IInv' /\ PartsInv /\ [Next]_vars => PartsInv'
  <2> SUFFICES ASSUME IInv, IInv', PartsInv, [Next]_vars PROVE PartsInv'
    OBVIOUS
  <2> USE DEF PartsInv
  <2>1. CASE Cut
    BY <2>1, CutKeeps
  <2>2. CASE KeepState
    BY <2>2, KeepStateKeeps
  <2>3. CASE Share
    BY <2>3, ShareKeeps
  <2>4. CASE Finish
    BY <2>4, FinishKeeps
  <2>5. CASE Join \/ AloneDone
    <3>1. CASE Start
      BY <2>5, <3>1, StartKeeps DEF Join, AloneDone, poolVars
    <3>2. CASE ~Start
      BY <2>5, <3>2, OtherSteps DEF Join, AloneDone
    <3> QED BY <3>1, <3>2
  <2>6. CASE Spawned \/ Alone \/ SpawnFails
    BY <2>6, OtherSteps DEF Spawned, Alone, SpawnFails
  <2>7. ASSUME NEW w \in Threads, Spawn(w) \/ PoolStep(w) PROVE PartsInv'
    BY <2>7, OtherSteps DEF Spawn, PoolStep, Claim, Work, Catch
  <2>8. CASE UNCHANGED vars
    BY <2>8, OtherSteps DEF vars
  <2> QED BY <2>1, <2>2, <2>3, <2>4, <2>5, <2>6, <2>7, <2>8 DEF Next, RequestStep
<1> QED BY Invariance, <1>1, <1>2, PTL DEF SafeSpec, PartsInv

-----------------------------------------------------------------------------
(* Functions whose value at i depends on those at 0..(i - 1). *)

Before(f, i) == [x \in 1..i |-> f[x - 1]]
Course(f, N, G) == \A i \in 0..N : f[i] = G[i][Before(f, i)]

\* There is one, whatever G does.
LEMMA Courses ==
  ASSUME NEW N \in Nat, NEW U, NEW G \in [Nat -> [Seq(U) -> U]]
  PROVE  \E f \in [0..N -> U] : Course(f, N, G)
<1> DEFINE F == [i \in Nat |-> [h \in Seq(U) |-> Append(h, G[i][h])]]
<1>1. F \in [Nat -> [Seq(U) -> Seq(U)]] /\ <<>> \in Seq(U)
  <2>1. \A i \in Nat : \A h \in Seq(U) : G[i][h] \in U
    OBVIOUS
  <2>2. \A i \in Nat : \A h \in Seq(U) : Append(h, G[i][h]) \in Seq(U)
    BY <2>1
  <2> QED BY <2>2
<1>2. PICK H \in [Nat -> Seq(U)] : \A i \in Nat : Makes(H, i, <<>>, F)
  <2> HIDE DEF F
  <2> QED BY <1>1, Recursion
<1>3. H[0] = <<>> /\ \A i \in Nat : H[i + 1] = Append(H[i], G[i][H[i]])
  <2>1. \A i \in Nat : H[i + 1] = F[i][H[i]]
    <3>1. \A i \in Nat : i + 1 \in Nat /\ i < i + 1
      OBVIOUS
    <3> HIDE DEF F
    <3> QED BY <1>2, <3>1 DEF Makes
  <2>2. H[0] = <<>>
    BY <1>2 DEF Makes
  <2>3. \A i \in Nat : H[i] \in Seq(U)
    OBVIOUS
  <2> QED BY <2>1, <2>2, <2>3
<1> HIDE DEF F
<1> DEFINE f == [i \in 0..N |-> G[i][H[i]]]
           T == {i \in Nat : i <= N + 1 => H[i] = Before(f, i)}
<1>4. 0 \in T
  BY <1>3 DEF Before
<1>5. ASSUME NEW i \in Nat, i \in T PROVE i + 1 \in T
  <2> SUFFICES ASSUME i + 1 <= N + 1 PROVE H[i + 1] = Before(f, i + 1)
    OBVIOUS
  <2>1. H[i] = Before(f, i) /\ H[i] \in Seq(U) /\ H[i + 1] = Append(H[i], G[i][H[i]])
    BY <1>3, <1>5
  <2>2. i \in 0..N /\ f[i] = G[i][H[i]]
    OBVIOUS
  <2> DEFINE v == G[i][H[i]]
  <2> HIDE DEF f, v
  <2>3. Append(H[i], v) = [x \in 1..(i + 1) |-> IF x = i + 1 THEN v ELSE H[i][x]]
    <3>1. Len(H[i]) = i
      <4>1. DOMAIN H[i] = 1..i
        BY <2>1 DEF Before
      <4> QED BY <2>1, <4>1
    <3> DEFINE A == Append(H[i], v)
    <3>2. v \in U
      BY <2>1 DEF v
    <3>3. /\ A \in Seq(U) /\ Len(A) = i + 1
          /\ \A x \in 1..i : A[x] = H[i][x]
          /\ A[i + 1] = v
      <4>1. H[i] \in Seq(U) /\ v \in U
        BY <2>1, <3>2
      <4>2. /\ A \in Seq(U) /\ Len(A) = Len(H[i]) + 1
            /\ \A x \in 1..Len(H[i]) : A[x] = H[i][x]
            /\ A[Len(H[i]) + 1] = v
        BY ONLY <4>1, AppendProperties DEF A
      <4> HIDE DEF A
      <4> QED BY <3>1, <4>2
    <3> HIDE DEF A
    <3>4. A = [x \in 1..(i + 1) |-> A[x]]
      BY <3>3
    <3>5. \A x \in 1..(i + 1) : A[x] = IF x = i + 1 THEN v ELSE H[i][x]
      <4>1. \A x \in 1..(i + 1) : x = i + 1 \/ x \in 1..i
        OBVIOUS
      <4> QED BY <3>3, <4>1
    <3> QED BY <3>4, <3>5 DEF A
  <2>4. \A x \in 1..(i + 1) : (IF x = i + 1 THEN v ELSE H[i][x]) = f[x - 1]
    <3>1. \A x \in 1..(i + 1) : x # i + 1 => x \in 1..i
      OBVIOUS
    <3>2. \A x \in 1..i : H[i][x] = f[x - 1]
      BY <2>1 DEF Before
    <3>3. f[(i + 1) - 1] = v
      BY <2>2 DEF v
    <3> QED BY <3>1, <3>2, <3>3
  <2>5. H[i + 1] = Append(H[i], v)
    BY <2>1 DEF v
  <2> QED BY <2>3, <2>4, <2>5 DEF Before
<1>6. \A i \in Nat : i \in T
  <2> HIDE DEF T
  <2> QED BY <1>4, <1>5, Induct
<1>7. f \in [0..N -> U]
  <2>1. \A i \in 0..N : H[i] \in Seq(U) /\ G[i] \in [Seq(U) -> U]
    OBVIOUS
  <2>2. \A i \in 0..N : G[i][H[i]] \in U
    BY <2>1
  <2> QED BY <2>2
<1>8. Course(f, N, G)
  <2> SUFFICES ASSUME NEW i \in 0..N PROVE f[i] = G[i][Before(f, i)]
    BY DEF Course
  <2>1. H[i] = Before(f, i)
    BY <1>6
  <2>2. f[i] = G[i][H[i]]
    OBVIOUS
  <2> HIDE DEF f
  <2> QED BY <2>1, <2>2
<1> QED BY <1>7, <1>8

\* And one only.
LEMMA CoursesOnce ==
  ASSUME NEW N \in Nat, NEW m \in Nat, m <= N, NEW G, NEW f, NEW g, Course(f, N, G), Course(g, m, G)
  PROVE  \A i \in 0..m : g[i] = f[i]
<1> DEFINE T == {i \in Nat : \A j \in 0..i : j <= m => g[j] = f[j]}
<1>1. ASSUME NEW i \in 0..m, \A j \in 0..(i - 1) : g[j] = f[j] PROVE g[i] = f[i]
  <2>1. Before(f, i) = Before(g, i)
    <3>1. \A x \in 1..i : g[x - 1] = f[x - 1]
      <4>1. \A x \in 1..i : x - 1 \in 0..(i - 1)
        OBVIOUS
      <4> QED BY <1>1, <4>1
    <3> QED BY <3>1 DEF Before
  <2>2. f[i] = G[i][Before(f, i)] /\ g[i] = G[i][Before(g, i)]
    <3>1. i \in 0..N
      OBVIOUS
    <3> QED BY <3>1 DEF Course
  <2> QED BY <2>1, <2>2
<1>2. 0 \in T
  BY <1>1
<1>3. ASSUME NEW i \in Nat, i \in T PROVE i + 1 \in T
  <2> SUFFICES ASSUME NEW j \in 0..(i + 1), j <= m PROVE g[j] = f[j]
    OBVIOUS
  <2>1. CASE j # i + 1
    BY <1>3, <2>1
  <2>2. CASE j = i + 1
    <3>1. \A l \in 0..(j - 1) : g[l] = f[l]
      BY <1>3, <2>2
    <3> QED BY <1>1, <3>1
  <2> QED BY <2>1, <2>2
<1>4. \A i \in Nat : i \in T
  <2> HIDE DEF T
  <2> QED BY <1>2, <1>3, Induct
<1> QED BY <1>4

-----------------------------------------------------------------------------
(* The table of characters. *)

\* Ends, without its function.
LEMMA EndsAre ==
  ASSUME NEW s, Len(s) \in Nat, NEW lone
  PROVE  /\ Ends(s, lone) \subseteq 0..Len(s) /\ 0 \in Ends(s, lone)
         /\ \A j \in 1..Len(s) : j \in Ends(s, lone) <=>
              \E l \in 1..4 : j - l \in Ends(s, lone) /\ Passes(SubSeq(s, j - l + 1, j), lone)
<1> DEFINE N == Len(s)
           Ok(j, A) == \E l \in 1..4 : j - l \in A /\ Passes(SubSeq(s, j - l + 1, j), lone)
           One(j, A) == {e \in {j} : \E l \in 1..4 : /\ e - l \in A
                                                     /\ Passes(SubSeq(s, e - l + 1, e), lone)}
           F == [j \in Nat |-> [A \in SUBSET Nat |-> A \union One(j + 1, A)]]
           Is(g) == g = [j \in 0..N |-> IF j = 0 THEN {0} ELSE g[j - 1] \union One(j, g[j - 1])]
<1>1. \A j, A : \A e : e \in One(j, A) <=> e = j /\ Ok(j, A)
  OBVIOUS
<1>2. F \in [Nat -> [SUBSET Nat -> SUBSET Nat]]
  <2>1. \A j \in Nat : \A A \in SUBSET Nat : A \union One(j + 1, A) \in SUBSET Nat
    <3> HIDE DEF One, Ok
    <3> SUFFICES ASSUME NEW j \in Nat, NEW A \in SUBSET Nat, NEW e \in One(j + 1, A) PROVE e \in Nat
      OBVIOUS
    <3>1. e = j + 1
      BY <1>1
    <3> QED BY <3>1
  <2> HIDE DEF One
  <2> QED BY <2>1
<1> HIDE DEF One, Ok
<1>3. PICK f \in [Nat -> SUBSET Nat] : \A j \in Nat : Makes(f, j, {0}, F)
  <2>1. {0} \in SUBSET Nat
    OBVIOUS
  <2> HIDE DEF F
  <2> QED BY <1>2, <2>1, Recursion
<1>4. f[0] = {0} /\ \A j \in Nat : f[j + 1] = f[j] \union One(j + 1, f[j])
  <2>1. \A j \in Nat : f[j + 1] = F[j][f[j]]
    <3>1. \A j \in Nat : j + 1 \in Nat /\ j < j + 1
      OBVIOUS
    <3> HIDE DEF F
    <3> QED BY <1>3, <3>1 DEF Makes
  <2>2. f[0] = {0}
    BY <1>3 DEF Makes
  <2> QED BY <2>1, <2>2
<1> HIDE DEF F
<1>5. \E g : Is(g)
  <2> DEFINE h == [j \in 0..N |-> f[j]]
  <2>1. ASSUME NEW j \in 0..N PROVE h[j] = IF j = 0 THEN {0} ELSE h[j - 1] \union One(j, h[j - 1])
    <3>1. CASE j = 0
      BY <1>4, <3>1
    <3>2. CASE j # 0
      <4>1. j - 1 \in Nat /\ (j - 1) + 1 = j /\ j - 1 \in 0..N
        BY <3>2
      <4>2. f[(j - 1) + 1] = f[j - 1] \union One((j - 1) + 1, f[j - 1])
        BY <1>4, <4>1
      <4> QED BY <3>2, <4>1, <4>2
    <3> QED BY <3>1, <3>2
  <2>2. h = [j \in 0..N |-> h[j]]
    OBVIOUS
  <2> HIDE DEF h
  <2>3. Is(h)
    BY <2>1, <2>2
  <2> QED BY <2>3
<1>6. PICK g : Is(g) /\ Ends(s, lone) = g[N]
  <2>1. Ends(s, lone) = (CHOOSE g : Is(g))[N]
    BY DEF Ends, One
  <2> HIDE DEF Is
  <2> QED BY <1>5, <2>1
<1>7. g[0] = {0} /\ \A j \in 0..N : j # 0 => g[j] = g[j - 1] \union One(j, g[j - 1])
  <2>1. \A j \in 0..N : g[j] = IF j = 0 THEN {0} ELSE g[j - 1] \union One(j, g[j - 1])
    BY <1>6
  <2>2. 0 \in 0..N
    OBVIOUS
  <2> QED BY <2>1, <2>2
<1> HIDE DEF Is
\* What is in g[j] is at most j, and stays in.
<1> DEFINE T == {j \in Nat : j <= N => /\ g[j] \subseteq 0..j /\ 0 \in g[j]
                                        /\ \A i \in 1..j : i \in g[j] <=> Ok(i, g[j])}
<1>8. 0 \in T
  BY <1>7
<1>9. ASSUME NEW j \in Nat, j \in T PROVE j + 1 \in T
  <2> SUFFICES ASSUME j + 1 <= N
               PROVE  /\ g[j + 1] \subseteq 0..(j + 1) /\ 0 \in g[j + 1]
                      /\ \A i \in 1..(j + 1) : i \in g[j + 1] <=> Ok(i, g[j + 1])
    OBVIOUS
  <2>1. /\ g[j] \subseteq 0..j /\ 0 \in g[j]
        /\ \A i \in 1..j : i \in g[j] <=> Ok(i, g[j])
    BY <1>9
  <2>2. g[j + 1] = g[j] \union One(j + 1, g[j])
    <3>1. j + 1 \in 0..N /\ j + 1 # 0 /\ (j + 1) - 1 = j
      OBVIOUS
    <3> QED BY <1>7, <3>1
  <2>3. \A e : e \in g[j + 1] <=> e \in g[j] \/ (e = j + 1 /\ Ok(j + 1, g[j]))
    BY <1>1, <2>2
  <2>4. \A i \in 1..(j + 1) : \A l \in 1..4 : i - l \in g[j + 1] <=> i - l \in g[j]
    <3>1. \A i \in 1..(j + 1) : \A l \in 1..4 : i - l # j + 1
      OBVIOUS
    <3> QED BY <2>3, <3>1
  <2>5. \A i \in 1..(j + 1) : Ok(i, g[j + 1]) <=> Ok(i, g[j])
    BY <2>4 DEF Ok
  <2>6. j + 1 \notin g[j]
    <3>1. j + 1 \notin 0..j
      OBVIOUS
    <3> QED BY <2>1, <3>1
  <2>7. \A i \in 1..(j + 1) : i = j + 1 \/ (i \in 1..j /\ i # j + 1)
    OBVIOUS
  <2>8. \A i \in 1..(j + 1) : i \in g[j + 1] <=> Ok(i, g[j + 1])
    BY <2>1, <2>3, <2>5, <2>6, <2>7
  <2>9. g[j + 1] \subseteq 0..(j + 1)
    <3>1. 0..j \subseteq 0..(j + 1) /\ j + 1 \in 0..(j + 1)
      OBVIOUS
    <3> QED BY <2>1, <2>3, <3>1
  <2> QED BY <2>1, <2>3, <2>8, <2>9
<1>10. \A j \in Nat : j \in T
  <2> HIDE DEF T
  <2> QED BY <1>8, <1>9, Induct
<1>11. N \in Nat /\ N <= N
  OBVIOUS
<1>12. /\ g[N] \subseteq 0..N /\ 0 \in g[N]
       /\ \A i \in 1..N : i \in g[N] <=> Ok(i, g[N])
  BY <1>10, <1>11
<1> QED BY <1>6, <1>12 DEF Ok

-----------------------------------------------------------------------------
(* Characters *)

Byte == 0..255
Among(x, lo, hi) == x \in Nat /\ lo <= x /\ x <= hi

\* SubSeq, by its elements.
LEMMA SubIs ==
  ASSUME NEW s \in Seq(Byte), NEW i \in Nat, NEW l \in Nat, i + l <= Len(s)
  PROVE  /\ SubSeq(s, i + 1, i + l) \in Seq(Byte)
         /\ Len(SubSeq(s, i + 1, i + l)) = l
         /\ \A j \in 1..l : SubSeq(s, i + 1, i + l)[j] = s[i + j]
<1>1. SubSeq(s, i + 1, i + l) = [j \in 1..l |-> s[i + j]]
  <2>1. \A j \in 1..l : (i + 1) + j - 1 = i + j
    OBVIOUS
  <2>2. (i + l) - (i + 1) + 1 = l
    OBVIOUS
  <2> QED BY <2>1, <2>2
<1>2. \A j \in 1..l : s[i + j] \in Byte
  <2>1. \A j \in 1..l : i + j \in 1..Len(s)
    <3>1. Len(s) \in Nat
      OBVIOUS
    <3> QED BY <3>1
  <2>2. \A e \in 1..Len(s) : s[e] \in Byte
    OBVIOUS
  <2> QED BY ONLY <2>1, <2>2
<1> DEFINE c == [j \in 1..l |-> s[i + j]]
<1>3. c \in Seq(Byte) /\ Len(c) = l /\ \A j \in 1..l : c[j] = s[i + j]
  BY <1>2
<1> HIDE DEF c
<1> QED BY <1>1, <1>3 DEF c

\* Six bits at a time.
LEMMA Sixes ==
  /\ \A u, v \in Nat : v < 64 => (u * 64 + v) \div 64 = u /\ (u * 64 + v) % 64 = v
  /\ \A u, v \in Nat : v < 4096 => (u * 4096 + v) \div 4096 = u
  /\ \A u, v \in Nat : v < 262144 => (u * 262144 + v) \div 262144 = u
<1>1. \A u, v \in Nat : v < 64 => (u * 64 + v) \div 64 = u /\ (u * 64 + v) % 64 = v
  OBVIOUS
<1>2. \A u, v \in Nat : v < 4096 => (u * 4096 + v) \div 4096 = u
  OBVIOUS
<1>3. \A u, v \in Nat : v < 262144 => (u * 262144 + v) \div 262144 = u
  OBVIOUS
<1> QED BY <1>1, <1>2, <1>3

\* The bits that the first byte of a character has.
LEMMA LowBits ==
  /\ \A a \in 192..223 : a % 32 = a - 192
  /\ \A a \in 224..239 : a % 16 = a - 224
  /\ \A a \in 240..247 : a % 8 = a - 240
  /\ \A b \in 128..191 : Bits(b) = b - 128
<1>1. \A a \in 192..223 : a % 32 = a - 192
  OBVIOUS
<1>2. \A a \in 224..239 : a % 16 = a - 224
  OBVIOUS
<1>3. \A a \in 240..247 : a % 8 = a - 240
  OBVIOUS
<1>4. \A b \in 128..191 : b % 64 = b - 128
  OBVIOUS
<1> QED BY <1>1, <1>2, <1>3, <1>4 DEF Bits

\* What append_utf8 writes of a number of so many sixes.
TwoSixes(a, b, x) == a \in 2..31 /\ b \in 0..63 /\ x = a * 64 + b
TwoBytes(a, b, x) == Among(x, 128, 2047) /\ Encode(x) = <<192 + a, 128 + b>>
\* Two groups of six bits make two bytes that are read back as them.
LEMMA EncodeTwo ==
  ASSUME NEW a, NEW b, NEW x, TwoSixes(a, b, x)
  PROVE  TwoBytes(a, b, x)
<1> SUFFICES ASSUME a \in 2..31, b \in 0..63, x = a * 64 + b
             PROVE  Among(x, 128, 2047) /\ Encode(x) = <<192 + a, 128 + b>>
  BY DEF TwoSixes, TwoBytes
<1>1. Among(x, 128, 2047) /\ x \div 64 = a /\ x % 64 = b /\ x \div 1 = x
  BY Sixes DEF Among
<1>2. Encode(x) = <<192 + x \div 64, 128 + ((x \div 1) % 64)>>
  BY <1>1 DEF Encode, Rest, Among
<1> QED BY <1>1, <1>2

ThreeSixes(a, b, c, x) == /\ a \in 0..15 /\ b \in 0..63 /\ c \in 0..63 /\ (a = 0 => b >= 32)
                          /\ x = (a * 64 + b) * 64 + c
ThreeBytes(a, b, c, x) == Among(x, 2048, 65535) /\ Encode(x) = <<224 + a, 128 + b, 128 + c>>
\* Three groups of six bits make three bytes that are read back as them.
LEMMA EncodeThree ==
  ASSUME NEW a, NEW b, NEW c, NEW x, ThreeSixes(a, b, c, x)
  PROVE  ThreeBytes(a, b, c, x)
<1> SUFFICES ASSUME a \in 0..15, b \in 0..63, c \in 0..63, a = 0 => b >= 32, x = (a * 64 + b) * 64 + c
             PROVE  Among(x, 2048, 65535) /\ Encode(x) = <<224 + a, 128 + b, 128 + c>>
  BY DEF ThreeSixes, ThreeBytes
<1> DEFINE m == a * 64 + b
<1>1. m \in Nat /\ m \div 64 = a /\ m % 64 = b /\ 32 <= m /\ m <= 1023
  BY Sixes
<1>2. x \div 4096 = a
  <2>1. x = a * 4096 + (b * 64 + c) /\ b * 64 + c \in Nat /\ b * 64 + c < 4096 /\ a \in Nat
    OBVIOUS
  <2> QED BY ONLY <2>1, Sixes
<1>21. x = m * 64 + c
  OBVIOUS
<1> HIDE DEF m
<1>3. Among(x, 2048, 65535) /\ x \div 64 = m /\ x % 64 = c /\ x \div 1 = x
  BY <1>1, <1>21, Sixes DEF Among
<1>4. Encode(x) = <<224 + x \div 4096, 128 + ((x \div 64) % 64), 128 + ((x \div 1) % 64)>>
  BY <1>3 DEF Encode, Rest, Among
<1> QED BY <1>1, <1>2, <1>3, <1>4

FourSixes(a, b, c, d, x) ==
  /\ a \in 0..4 /\ b \in 0..63 /\ c \in 0..63 /\ d \in 0..63 /\ (a = 0 => b >= 16) /\ (a = 4 => b < 16)
  /\ x = ((a * 64 + b) * 64 + c) * 64 + d
FourBytes(a, b, c, d, x) ==
  Among(x, 65536, 1114111) /\ Encode(x) = <<240 + a, 128 + b, 128 + c, 128 + d>>
\* Four groups of six bits make four bytes that are read back as them.
LEMMA EncodeFour ==
  ASSUME NEW a, NEW b, NEW c, NEW d, NEW x, FourSixes(a, b, c, d, x)
  PROVE  FourBytes(a, b, c, d, x)
<1> SUFFICES ASSUME a \in 0..4, b \in 0..63, c \in 0..63, d \in 0..63,
                    a = 0 => b >= 16, a = 4 => b < 16, x = ((a * 64 + b) * 64 + c) * 64 + d
             PROVE  Among(x, 65536, 1114111) /\ Encode(x) = <<240 + a, 128 + b, 128 + c, 128 + d>>
  BY DEF FourSixes, FourBytes
<1> DEFINE m == a * 64 + b
           N == m * 64 + c
<1>1. m \in Nat /\ m % 64 = b /\ 16 <= m /\ m <= 271
  BY Sixes
<1>2. x \div 262144 = a
  <2>1. x = a * 262144 + ((b * 64 + c) * 64 + d) /\ (b * 64 + c) * 64 + d \in Nat /\ (b * 64 + c) * 64 + d < 262144 /\ a \in Nat
    OBVIOUS
  <2> QED BY ONLY <2>1, Sixes
<1>21. x = (m * 64 + c) * 64 + d
  OBVIOUS
<1> HIDE DEF m
<1>3. x \div 4096 = m
  <2>1. x = m * 4096 + (c * 64 + d) /\ c * 64 + d \in Nat /\ c * 64 + d < 4096
    BY <1>1, <1>21
  <2> QED BY ONLY <1>1, <2>1, Sixes
<1>4. N \in Nat /\ 1024 <= N /\ N <= 17407 /\ N % 64 = c
  BY <1>1, Sixes
<1>41. x = N * 64 + d
  BY <1>21
<1> HIDE DEF N
<1>5. Among(x, 65536, 1114111) /\ x \div 64 = N /\ x % 64 = d /\ x \div 1 = x
  <2>1. x \div 64 = N /\ x % 64 = d
    BY <1>4, <1>41, Sixes
  <2> QED BY <1>4, <1>41, <2>1 DEF Among
<1>6. Encode(x) = <<240 + x \div 262144, 128 + ((x \div 4096) % 64), 128 + ((x \div 64) % 64), 128 + ((x \div 1) % 64)>>
  BY <1>5 DEF Encode, Rest, Among
<1> QED BY <1>1, <1>2, <1>3, <1>4, <1>5, <1>6

\* A character of the table (or a surrogate) is as long as its first byte says, goes on
\* with continuing bytes, is in its place, and is what append_utf8 writes of its number.
CharIs(c) ==
  /\ Len(c) \in 1..4 /\ Length(c[1]) = Len(c) /\ Need(c[1]) = Len(c) /\ ~Continues(c[1])
  /\ \A j \in 2..Len(c) : Continues(c[j])
  /\ CodePoint(c) \in Nat /\ ~OutOfPlace(CodePoint(c), Len(c)) /\ Encode(CodePoint(c)) = c
  /\ IsSurrogate(CodePoint(c)) => Surrogate(c)

\* A byte string, as the provers take it best.
IsBytes(c) == /\ Len(c) \in Nat /\ c = [j \in 1..Len(c) |-> c[j]]
              /\ \A j \in 1..Len(c) : c[j] \in 0..255

\* A character that may pass: what each of the functions makes of it.
LEMMA Chars ==
  ASSUME NEW c, IsBytes(c), Passes(c, TRUE)
  PROVE  CharIs(c)
<1>0. Len(c) \in Nat /\ c = [j \in 1..Len(c) |-> c[j]] /\ \A j \in 1..Len(c) : c[j] \in 0..255
  BY DEF IsBytes
<1>1. Len(c) \in 1..4
  BY DEF Passes, WellFormed, Surrogate
<1>2. \A j \in 1..Len(c) : c[j] \in 0..255
  BY <1>0
<1>3. CASE Len(c) = 1
  <2>1. c[1] < 128 /\ c[1] \in Nat
    BY <1>2, <1>3 DEF Passes, WellFormed, Surrogate
  <2>2. c = <<c[1]>>
    BY <1>0, <1>3
  <2>3. CodePoint(c) = c[1] /\ Encode(c[1]) = <<c[1]>>
    BY <1>3, <2>1 DEF CodePoint, Encode
  <2>4. CodePoint(c) \in Nat /\ ~OutOfPlace(CodePoint(c), 1) /\ ~IsSurrogate(CodePoint(c))
    BY <2>1, <2>3 DEF OutOfPlace, IsSurrogate, InRange
  <2>5. Length(c[1]) = 1 /\ Need(c[1]) = 1 /\ ~Continues(c[1])
    BY <2>1 DEF Length, Need, Continues, InRange
  <2>6. \A j \in 2..Len(c) : FALSE
    BY <1>3
  <2>7. Encode(CodePoint(c)) = c
    BY <2>2, <2>3
  <2> QED BY <1>3, <2>4, <2>5, <2>6, <2>7 DEF CharIs
<1>4. CASE Len(c) = 2
  <2>1. c[1] \in 194..223 /\ c[2] \in 128..191
    BY <1>2, <1>4 DEF Passes, WellFormed, Surrogate, InRange, Continues
  <2>2. c = <<c[1], c[2]>>
    BY <1>0, <1>4
  <2> DEFINE a == c[1] - 192
             b == c[2] - 128
  <2>3. CodePoint(c) = a * 64 + b
    <3>1. c[1] % 32 = a /\ Bits(c[2]) = b
      BY <2>1, LowBits
    <3> QED BY <1>4, <3>1 DEF CodePoint
  <2>4. a \in 2..31 /\ b \in 0..63 /\ 192 + a = c[1] /\ 128 + b = c[2]
    BY <2>1
  <2>5. Among(CodePoint(c), 128, 2047) /\ Encode(CodePoint(c)) = <<192 + a, 128 + b>>
    <3> HIDE DEF a, b
    <3>1. TwoSixes(a, b, CodePoint(c))
      BY <2>3, <2>4 DEF TwoSixes
    <3> QED BY <3>1, EncodeTwo DEF TwoBytes
  <2> HIDE DEF a, b
  <2>6. Among(CodePoint(c), 128, 2047) /\ Encode(CodePoint(c)) = c
    BY <2>2, <2>3, <2>4, <2>5
  <2>7. ~OutOfPlace(CodePoint(c), 2) /\ ~IsSurrogate(CodePoint(c)) /\ CodePoint(c) \in Nat
    BY <2>6 DEF Among, OutOfPlace, IsSurrogate, InRange
  <2>8. Length(c[1]) = 2 /\ Need(c[1]) = 2 /\ ~Continues(c[1]) /\ Continues(c[2])
    BY <2>1 DEF Length, Need, Continues, InRange
  <2>9. \A j \in 2..Len(c) : j = 2
    BY <1>4
  <2> QED BY <1>4, <2>6, <2>7, <2>8, <2>9 DEF CharIs
<1>5. CASE Len(c) = 3
  <2>1. /\ c[1] \in 224..239 /\ c[2] \in 128..191 /\ c[3] \in 128..191
        /\ c[1] = 224 => c[2] >= 160
        /\ c[1] = 237 /\ c[2] >= 160 => Surrogate(c)
    BY <1>2, <1>5 DEF Passes, WellFormed, Surrogate, InRange, Continues
  <2>2. c = <<c[1], c[2], c[3]>>
    BY <1>0, <1>5
  <2> DEFINE a == c[1] - 224
             b == c[2] - 128
             d == c[3] - 128
  <2>3. CodePoint(c) = (a * 64 + b) * 64 + d
    <3>1. c[1] % 16 = a /\ Bits(c[2]) = b /\ Bits(c[3]) = d
      BY <2>1, LowBits
    <3> HIDE DEF a, b, d
    <3> QED BY <1>5, <3>1 DEF CodePoint
  <2>4. /\ a \in 0..15 /\ b \in 0..63 /\ d \in 0..63 /\ (a = 0 => b >= 32)
        /\ 224 + a = c[1] /\ 128 + b = c[2] /\ 128 + d = c[3]
    BY <2>1
  <2> HIDE DEF a, b, d
  <2>5. /\ Among(CodePoint(c), 2048, 65535)
        /\ Encode(CodePoint(c)) = <<224 + a, 128 + b, 128 + d>>
    <3>1. ThreeSixes(a, b, d, CodePoint(c))
      BY <2>3, <2>4 DEF ThreeSixes
    <3> QED BY <3>1, EncodeThree DEF ThreeBytes
  <2>6. Among(CodePoint(c), 2048, 65535) /\ Encode(CodePoint(c)) = c
    BY <2>2, <2>3, <2>4, <2>5
  <2>7. ~OutOfPlace(CodePoint(c), 3) /\ CodePoint(c) \in Nat
    BY <2>6 DEF Among, OutOfPlace
  <2>8. IsSurrogate(CodePoint(c)) => Surrogate(c)
    <3>1. IsSurrogate((a * 64 + b) * 64 + d) => a = 13 /\ b >= 32
      BY <2>4 DEF IsSurrogate, InRange
    <3>2. a = 13 /\ b >= 32 => c[1] = 237 /\ c[2] >= 160
      BY <2>4
    <3> QED BY <2>1, <2>3, <3>1, <3>2
  <2>9. Length(c[1]) = 3 /\ Need(c[1]) = 3 /\ ~Continues(c[1]) /\ Continues(c[2]) /\ Continues(c[3])
    BY <2>1 DEF Length, Need, Continues, InRange
  <2>10. \A j \in 2..Len(c) : j \in {2, 3}
    BY <1>5
  <2> QED BY <1>5, <2>6, <2>7, <2>8, <2>9, <2>10 DEF CharIs
<1>6. CASE Len(c) = 4
  <2>1. /\ c[1] \in 240..244 /\ c[2] \in 128..191 /\ c[3] \in 128..191 /\ c[4] \in 128..191
        /\ c[1] = 240 => c[2] >= 144
        /\ c[1] = 244 => c[2] <= 143
    BY <1>2, <1>6 DEF Passes, WellFormed, Surrogate, InRange, Continues
  <2>2. c = <<c[1], c[2], c[3], c[4]>>
    BY <1>0, <1>6
  <2> DEFINE a == c[1] - 240
             b == c[2] - 128
             d == c[3] - 128
             e == c[4] - 128
  <2>3. CodePoint(c) = ((a * 64 + b) * 64 + d) * 64 + e
    <3>1. c[1] % 8 = a /\ Bits(c[2]) = b /\ Bits(c[3]) = d /\ Bits(c[4]) = e
      BY <2>1, LowBits
    <3> HIDE DEF a, b, d, e
    <3> QED BY <1>6, <3>1 DEF CodePoint
  <2>4. /\ a \in 0..4 /\ b \in 0..63 /\ d \in 0..63 /\ e \in 0..63 /\ (a = 0 => b >= 16)
        /\ a = 4 => b < 16
        /\ 240 + a = c[1] /\ 128 + b = c[2] /\ 128 + d = c[3] /\ 128 + e = c[4]
    BY <2>1
  <2> HIDE DEF a, b, d, e
  <2>5. /\ Among(CodePoint(c), 65536, 1114111)
        /\ Encode(CodePoint(c)) = <<240 + a, 128 + b, 128 + d, 128 + e>>
    <3>1. FourSixes(a, b, d, e, CodePoint(c))
      BY <2>3, <2>4 DEF FourSixes
    <3> QED BY <3>1, EncodeFour DEF FourBytes
  <2>6. Among(CodePoint(c), 65536, 1114111) /\ Encode(CodePoint(c)) = c
    BY <2>2, <2>3, <2>4, <2>5
  <2>7. ~OutOfPlace(CodePoint(c), 4) /\ ~IsSurrogate(CodePoint(c)) /\ CodePoint(c) \in Nat
    BY <2>6 DEF Among, OutOfPlace, IsSurrogate, InRange
  <2>9. /\ Length(c[1]) = 4 /\ Need(c[1]) = 4 /\ ~Continues(c[1])
        /\ Continues(c[2]) /\ Continues(c[3]) /\ Continues(c[4])
    BY <2>1 DEF Length, Need, Continues, InRange
  <2>10. \A j \in 2..Len(c) : j \in {2, 3, 4}
    BY <1>6
  <2> QED BY <1>6, <2>6, <2>7, <2>9, <2>10 DEF CharIs
<1> QED BY <1>1, <1>3, <1>4, <1>5, <1>6

-----------------------------------------------------------------------------
\* How long a first byte says its character is, in both tables of the code.
LEMMA NeedIs ==
  \A b \in 0..255 : /\ Need(b) \in 0..4
                    /\ Need(b) = 1 <=> b < 128
                    /\ Need(b) = 2 <=> InRange(b, 194, 223)
                    /\ Need(b) = 3 <=> InRange(b, 224, 239)
                    /\ Need(b) = 4 <=> InRange(b, 240, 244)
<1> SUFFICES ASSUME NEW b \in 0..255
             PROVE  /\ Need(b) \in 0..4
                    /\ Need(b) = 1 <=> b < 128
                    /\ Need(b) = 2 <=> InRange(b, 194, 223)
                    /\ Need(b) = 3 <=> InRange(b, 224, 239)
                    /\ Need(b) = 4 <=> InRange(b, 240, 244)
  OBVIOUS
<1>1. CASE b < 128
  BY <1>1 DEF Need, InRange
<1>2. CASE b >= 128 /\ b < 194
  BY <1>2 DEF Need, InRange
<1>3. CASE 194 <= b /\ b <= 223
  BY <1>3 DEF Need, InRange
<1>4. CASE 224 <= b /\ b <= 239
  BY <1>4 DEF Need, InRange
<1>5. CASE 240 <= b /\ b <= 244
  BY <1>5 DEF Need, InRange
<1>6. CASE b > 244
  BY <1>6 DEF Need, InRange
<1> QED BY <1>1, <1>2, <1>3, <1>4, <1>5, <1>6

\* The second byte's ranges.
LEMMA SecondIs ==
  ASSUME NEW a \in 0..255, NEW b \in 0..255
  PROVE  /\ a = 224 => (SecondMayBe(a, b) <=> Continues(b) /\ b >= 160)
         /\ a = 237 => (SecondMayBe(a, b) <=> Continues(b) /\ b <= 159)
         /\ a = 240 => (SecondMayBe(a, b) <=> Continues(b) /\ b >= 144)
         /\ a = 244 => (SecondMayBe(a, b) <=> Continues(b) /\ b <= 143)
         /\ a \notin {224, 237, 240, 244} => (SecondMayBe(a, b) <=> Continues(b))
<1>1. CASE a = 224
  BY <1>1 DEF SecondMayBe, Continues, InRange
<1>2. CASE a = 237
  BY <1>2 DEF SecondMayBe, Continues, InRange
<1>3. CASE a = 240
  BY <1>3 DEF SecondMayBe, Continues, InRange
<1>4. CASE a = 244
  BY <1>4 DEF SecondMayBe, Continues, InRange
<1>5. CASE a \notin {224, 237, 240, 244}
  BY <1>5 DEF SecondMayBe
<1> QED BY <1>1, <1>2, <1>3, <1>4, <1>5

\* The table, byte by byte.
LEMMA TableIs ==
  ASSUME NEW c, IsBytes(c), Len(c) >= 1
  PROVE  WellFormed(c) <=> /\ Need(c[1]) = Len(c)
                           /\ \A j \in 2..Len(c) : May(c[1], j, c[j])
<1>1. Len(c) \in Nat /\ \A j \in 1..Len(c) : c[j] \in 0..255
  BY DEF IsBytes
<1> DEFINE Spelt == Need(c[1]) = Len(c) /\ \A j \in 2..Len(c) : May(c[1], j, c[j])
<1>2. c[1] \in 0..255 /\ Need(c[1]) \in 0..4
  <2>1. c[1] \in 0..255
    BY <1>1
  <2> QED BY ONLY <2>1, NeedIs
<1>3. CASE Len(c) = 1
  <2>1. c[1] \in 0..255
    BY <1>1, <1>3
  <2>2. Spelt <=> Need(c[1]) = 1
    BY <1>3
  <2>3. WellFormed(c) <=> c[1] < 128
    BY <1>3 DEF WellFormed
  <2>4. Need(c[1]) = 1 <=> c[1] < 128
    BY ONLY <1>2, NeedIs
  <2> QED BY <2>2, <2>3, <2>4
<1>4. CASE Len(c) = 2
  <2>1. c[1] \in 0..255 /\ c[2] \in 0..255
    BY <1>1, <1>4
  <2>2. Spelt <=> Need(c[1]) = 2 /\ May(c[1], 2, c[2])
    <3>1. \A j \in 2..Len(c) : j = 2
      BY <1>4
    <3>2. 2 \in 2..Len(c)
      BY <1>4
    <3> QED BY <1>4, <3>1, <3>2
  <2>3. WellFormed(c) <=> InRange(c[1], 194, 223) /\ Continues(c[2])
    BY <1>4 DEF WellFormed
  <2>4. Need(c[1]) = 2 <=> InRange(c[1], 194, 223)
    BY ONLY <1>2, NeedIs
  <2>5. InRange(c[1], 194, 223) => (May(c[1], 2, c[2]) <=> Continues(c[2]))
    BY <2>1 DEF May, SecondMayBe, InRange
  <2> QED BY <2>2, <2>3, <2>4, <2>5
<1>5. CASE Len(c) = 3
  <2>1. c[1] \in 0..255 /\ c[2] \in 0..255 /\ c[3] \in 0..255
    BY <1>1, <1>5
  <2>2. Spelt <=> Need(c[1]) = 3 /\ May(c[1], 2, c[2]) /\ May(c[1], 3, c[3])
    <3>1. \A j \in 2..Len(c) : j = 2 \/ j = 3
      BY <1>5
    <3>2. 2 \in 2..Len(c) /\ 3 \in 2..Len(c)
      BY <1>5
    <3> QED BY <1>5, <3>1, <3>2
  <2>3. Need(c[1]) = 3 <=> InRange(c[1], 224, 239)
    BY ONLY <1>2, NeedIs
  <2>4. May(c[1], 3, c[3]) <=> Continues(c[3])
    BY DEF May
  <2>5. WellFormed(c) <=> /\ Continues(c[2]) /\ Continues(c[3])
                          /\ \/ c[1] = 224 /\ c[2] >= 160
                             \/ InRange(c[1], 225, 236) \/ c[1] \in {238, 239}
                             \/ c[1] = 237 /\ c[2] <= 159
    BY <1>5 DEF WellFormed
  <2>6. InRange(c[1], 224, 239) /\ May(c[1], 2, c[2])
          <=> /\ Continues(c[2])
              /\ \/ c[1] = 224 /\ c[2] >= 160
                 \/ InRange(c[1], 225, 236) \/ c[1] \in {238, 239}
                 \/ c[1] = 237 /\ c[2] <= 159
    <3> DEFINE a == c[1]
               b == c[2]
    <3>1. a \in 0..255 /\ b \in 0..255 /\ (May(a, 2, b) <=> SecondMayBe(a, b))
      BY <2>1 DEF May
    <3> HIDE DEF a, b
    <3>2. InRange(a, 224, 239) <=> a \in {224, 237} \/ InRange(a, 225, 236) \/ a \in {238, 239}
      BY <3>1 DEF InRange
    <3>3. InRange(a, 225, 236) \/ a \in {238, 239} => a \notin {224, 237, 240, 244}
      BY <3>1 DEF InRange
    <3>4. InRange(a, 224, 239) /\ May(a, 2, b)
            <=> /\ Continues(b)
                /\ \/ a = 224 /\ b >= 160
                   \/ InRange(a, 225, 236) \/ a \in {238, 239}
                   \/ a = 237 /\ b <= 159
      <4>1. /\ a = 224 => (SecondMayBe(a, b) <=> Continues(b) /\ b >= 160)
            /\ a = 237 => (SecondMayBe(a, b) <=> Continues(b) /\ b <= 159)
            /\ a = 240 => (SecondMayBe(a, b) <=> Continues(b) /\ b >= 144)
            /\ a = 244 => (SecondMayBe(a, b) <=> Continues(b) /\ b <= 143)
            /\ a \notin {224, 237, 240, 244} => (SecondMayBe(a, b) <=> Continues(b))
        BY ONLY <3>1, SecondIs
      <4> QED BY ONLY <3>1, <3>2, <3>3, <4>1
    <3> QED BY <3>4 DEF a, b
  <2> QED BY <2>2, <2>3, <2>4, <2>5, <2>6
<1>6. CASE Len(c) = 4
  <2>1. c[1] \in 0..255 /\ c[2] \in 0..255 /\ c[3] \in 0..255 /\ c[4] \in 0..255
    BY <1>1, <1>6
  <2>2. Spelt <=> Need(c[1]) = 4 /\ May(c[1], 2, c[2]) /\ May(c[1], 3, c[3]) /\ May(c[1], 4, c[4])
    <3>1. \A j \in 2..Len(c) : j = 2 \/ j = 3 \/ j = 4
      BY <1>6
    <3>2. 2 \in 2..Len(c) /\ 3 \in 2..Len(c) /\ 4 \in 2..Len(c)
      BY <1>6
    <3> QED BY <1>6, <3>1, <3>2
  <2>3. Need(c[1]) = 4 <=> InRange(c[1], 240, 244)
    BY ONLY <1>2, NeedIs
  <2>4. (May(c[1], 3, c[3]) <=> Continues(c[3])) /\ (May(c[1], 4, c[4]) <=> Continues(c[4]))
    BY DEF May
  <2>5. WellFormed(c) <=> /\ Continues(c[2]) /\ Continues(c[3]) /\ Continues(c[4])
                          /\ \/ c[1] = 240 /\ c[2] >= 144
                             \/ InRange(c[1], 241, 243)
                             \/ c[1] = 244 /\ c[2] <= 143
    BY <1>6 DEF WellFormed
  <2>6. InRange(c[1], 240, 244) /\ May(c[1], 2, c[2])
          <=> /\ Continues(c[2])
              /\ \/ c[1] = 240 /\ c[2] >= 144
                 \/ InRange(c[1], 241, 243)
                 \/ c[1] = 244 /\ c[2] <= 143
    <3> DEFINE a == c[1]
               b == c[2]
    <3>1. a \in 0..255 /\ b \in 0..255 /\ (May(a, 2, b) <=> SecondMayBe(a, b))
      BY <2>1 DEF May
    <3> HIDE DEF a, b
    <3>2. InRange(a, 240, 244) <=> a \in {240, 244} \/ InRange(a, 241, 243)
      BY <3>1 DEF InRange
    <3>3. InRange(a, 241, 243) => a \notin {224, 237, 240, 244}
      BY <3>1 DEF InRange
    <3>4. InRange(a, 240, 244) /\ May(a, 2, b)
            <=> /\ Continues(b)
                /\ \/ a = 240 /\ b >= 144
                   \/ InRange(a, 241, 243)
                   \/ a = 244 /\ b <= 143
      <4>1. /\ a = 224 => (SecondMayBe(a, b) <=> Continues(b) /\ b >= 160)
            /\ a = 237 => (SecondMayBe(a, b) <=> Continues(b) /\ b <= 159)
            /\ a = 240 => (SecondMayBe(a, b) <=> Continues(b) /\ b >= 144)
            /\ a = 244 => (SecondMayBe(a, b) <=> Continues(b) /\ b <= 143)
            /\ a \notin {224, 237, 240, 244} => (SecondMayBe(a, b) <=> Continues(b))
        BY ONLY <3>1, SecondIs
      <4> QED BY ONLY <3>1, <3>2, <3>3, <4>1
    <3> QED BY <3>4 DEF a, b
  <2> QED BY <2>2, <2>3, <2>4, <2>5, <2>6
<1>7. CASE Len(c) > 4
  <2>1. ~WellFormed(c)
    BY <1>1, <1>7 DEF WellFormed
  <2> QED BY <1>2, <1>7, <2>1
<1>8. Len(c) = 1 \/ Len(c) = 2 \/ Len(c) = 3 \/ Len(c) = 4 \/ Len(c) > 4
  <2>1. \A m \in Nat : m >= 1 => m = 1 \/ m = 2 \/ m = 3 \/ m = 4 \/ m > 4
    OBVIOUS
  <2> QED BY <1>1, <2>1
<1> QED BY <1>3, <1>4, <1>5, <1>6, <1>7, <1>8

-----------------------------------------------------------------------------
(* Characters of a byte string *)

\* What there is from i to j, where one is.
CharAt(s, i, j) ==
  /\ j - i \in 1..4 /\ Length(s[i + 1]) = j - i /\ Need(s[i + 1]) = j - i
  /\ ~Continues(s[i + 1])
  /\ \A x \in (i + 2)..j : Continues(s[x])
  /\ Char(s, i) = SubSeq(s, i + 1, j) /\ IsBytes(Char(s, i)) /\ Valid(s, i)
  /\ Len(Char(s, i)) = j - i /\ \A x \in 1..(j - i) : Char(s, i)[x] = s[i + x]
  /\ CodePoint(Char(s, i)) \in Nat /\ Encode(CodePoint(Char(s, i))) = Char(s, i)
  /\ IsSurrogate(CodePoint(Char(s, i))) => Surrogate(Char(s, i))

\* A part of some bytes is bytes, each where it was.
LEMMA SubBytes ==
  ASSUME NEW s \in Seq(Byte), NEW i \in Nat, NEW j \in Nat, i <= j, j <= Len(s)
  PROVE  /\ IsBytes(SubSeq(s, i + 1, j))
         /\ SubSeq(s, i + 1, j) \in Seq(Byte)
         /\ Len(SubSeq(s, i + 1, j)) = j - i
         /\ \A x \in 1..(j - i) : SubSeq(s, i + 1, j)[x] = s[i + x]
<1>1. j - i \in Nat /\ i + (j - i) = j
  OBVIOUS
<1> DEFINE c == SubSeq(s, i + 1, j)
<1>2. c \in Seq(Byte) /\ Len(c) = j - i /\ \A x \in 1..(j - i) : c[x] = s[i + x]
  <2>1. i + (j - i) <= Len(s)
    OBVIOUS
  <2> QED BY <1>1, <2>1, SubIs
<1> HIDE DEF c
<1>3. IsBytes(c)
  <2>1. c = [x \in 1..Len(c) |-> c[x]] /\ \A x \in 1..Len(c) : c[x] \in Byte
    BY <1>2
  <2> QED BY <1>1, <1>2, <2>1 DEF IsBytes, Byte
<1> QED BY <1>2, <1>3 DEF c

\* A character that passes, where it is in s.
LEMMA CharIsAt ==
  ASSUME NEW s \in Seq(Byte), NEW lone, NEW i \in Nat, NEW j \in Nat, i < j, j <= Len(s),
         Passes(SubSeq(s, i + 1, j), lone)
  PROVE  CharAt(s, i, j)
<1> DEFINE c == SubSeq(s, i + 1, j)
<1>1. /\ IsBytes(c) /\ Len(c) = j - i
      /\ \A x \in 1..(j - i) : c[x] = s[i + x]
  <2>1. i <= j
    OBVIOUS
  <2> QED BY <2>1, SubBytes
<1>2. Passes(c, TRUE)
  BY DEF Passes
<1> HIDE DEF c
<1>3. CharIs(c)
  BY <1>1, <1>2, Chars
<1>4. /\ j - i \in 1..4 /\ Length(c[1]) = j - i /\ Need(c[1]) = j - i /\ ~Continues(c[1])
      /\ \A x \in 2..(j - i) : Continues(c[x])
      /\ CodePoint(c) \in Nat /\ ~OutOfPlace(CodePoint(c), j - i) /\ Encode(CodePoint(c)) = c
      /\ IsSurrogate(CodePoint(c)) => Surrogate(c)
  BY <1>1, <1>3 DEF CharIs
<1>5. c[1] = s[i + 1]
  BY <1>1, <1>4
<1>6. Char(s, i) = c
  <2>1. i + Length(s[i + 1]) = j
    BY <1>4, <1>5
  <2> QED BY <2>1 DEF Char, c
<1>7. \A x \in (i + 2)..j : Continues(s[x])
  <2> SUFFICES ASSUME NEW x \in (i + 2)..j PROVE Continues(s[x])
    OBVIOUS
  <2>1. x - i \in 2..(j - i) /\ x - i \in 1..(j - i) /\ i + (x - i) = x
    OBVIOUS
  <2> QED BY <1>1, <1>4, <2>1
<1>8. Valid(s, i)
  <2>1. Length(s[i + 1]) # 0 /\ i + Length(s[i + 1]) <= Len(s)
    BY <1>4, <1>5
  <2>2. \A x \in 2..Length(s[i + 1]) : Continues(s[i + x])
    <3>1. \A x \in 2..(j - i) : x \in 1..(j - i)
      OBVIOUS
    <3> QED BY <1>1, <1>4, <1>5, <3>1
  <2>3. ~OutOfPlace(CodePoint(Char(s, i)), Length(s[i + 1]))
    BY <1>4, <1>5, <1>6
  <2> QED BY <2>1, <2>2, <2>3 DEF Valid
<1> QED BY <1>1, <1>4, <1>5, <1>6, <1>7, <1>8 DEF CharAt, c

\* The places a character may end at lie within the bytes.
LEMMA EndsType ==
  ASSUME NEW s \in Seq(Byte), NEW lone
  PROVE  /\ Len(s) \in Nat /\ Ends(s, lone) \subseteq 0..Len(s) /\ 0 \in Ends(s, lone)
         /\ \A j \in Ends(s, lone) : j \in Nat /\ j <= Len(s)
<1>1. Len(s) \in Nat
  OBVIOUS
<1>2. Ends(s, lone) \subseteq 0..Len(s) /\ 0 \in Ends(s, lone)
  BY <1>1, EndsAre
<1>3. \A j \in 0..Len(s) : j \in Nat /\ j <= Len(s)
  BY <1>1
<1> QED BY <1>1, <1>2, <1>3

\* What stops past 0 stops at the end of a character.
LEMMA EndsOfOne ==
  ASSUME NEW s \in Seq(Byte), NEW lone, NEW j \in Ends(s, lone), j # 0
  PROVE  \E i \in Ends(s, lone) : i < j /\ Passes(SubSeq(s, i + 1, j), lone) /\ CharAt(s, i, j)
<1>1. j \in 1..Len(s) /\ Len(s) \in Nat
  BY EndsType
<1>2. PICK l \in 1..4 : j - l \in Ends(s, lone) /\ Passes(SubSeq(s, j - l + 1, j), lone)
  BY <1>1, EndsAre
<1>3. j - l \in Nat /\ j - l < j /\ j \in Nat /\ j <= Len(s)
  BY <1>1, <1>2, EndsType
<1>4. CharAt(s, j - l, j)
  BY <1>2, <1>3, CharIsAt
<1> QED BY <1>2, <1>3, <1>4

\* From where one stops a character leads on.
LEMMA EndsGoOn ==
  ASSUME NEW s \in Seq(Byte), NEW lone, NEW i \in Ends(s, lone), NEW j \in Nat, i < j, j <= Len(s),
         Passes(SubSeq(s, i + 1, j), lone)
  PROVE  j \in Ends(s, lone) /\ CharAt(s, i, j)
<1>1. i \in Nat
  BY EndsType
<1>2. CharAt(s, i, j)
  BY <1>1, CharIsAt
<1>3. j - i \in 1..4 /\ j - (j - i) = i /\ j \in 1..Len(s) /\ Len(s) \in Nat
  BY <1>1, <1>2, EndsType DEF CharAt
<1>4. j - (j - i) \in Ends(s, lone) /\ Passes(SubSeq(s, j - (j - i) + 1, j), lone)
  BY <1>3
<1> QED BY <1>2, <1>3, <1>4, EndsAre

\* From where one may stop to where one may, there is a character first.
FollowsOn(s, lone, i, j) ==
  /\ i + Length(s[i + 1]) \in Ends(s, lone) /\ i + Length(s[i + 1]) <= j
  /\ i < i + Length(s[i + 1])
  /\ Passes(SubSeq(s, i + 1, i + Length(s[i + 1])), lone)

\* Between two places where one stops, the next is a character on.
LEMMA Follows ==
  ASSUME NEW s \in Seq(Byte), NEW lone, NEW i \in Ends(s, lone), NEW j \in Ends(s, lone), i < j
  PROVE  FollowsOn(s, lone, i, j)
<1> DEFINE E == Ends(s, lone)
           T == {m \in Nat : \A b \in E : b <= m => \A a \in E : a < b => FollowsOn(s, lone, a, b)}
<1>1. \A e \in E : e \in Nat
  BY EndsType
<1>2. 0 \in T
  BY <1>1
<1>3. ASSUME NEW m \in Nat, m \in T PROVE m + 1 \in T
  <2> SUFFICES ASSUME NEW b \in E, b <= m + 1, NEW a \in E, a < b PROVE FollowsOn(s, lone, a, b)
    OBVIOUS
  <2>1. a \in Nat /\ b \in Nat /\ b # 0
    BY <1>1
  <2>2. PICK e \in E : e < b /\ Passes(SubSeq(s, e + 1, b), lone) /\ CharAt(s, e, b)
    BY <2>1, EndsOfOne
  <2>3. e \in Nat /\ e <= m /\ e + Length(s[e + 1]) = b
    BY <1>1, <2>1, <2>2 DEF CharAt
  <2>4. CASE a = e
    BY <2>1, <2>2, <2>3, <2>4 DEF FollowsOn
  <2>5. CASE a < e
    <3>1. FollowsOn(s, lone, a, e)
      BY <1>3, <2>3, <2>5
    <3>2. a + Length(s[a + 1]) \in Nat
      BY <1>1, <3>1 DEF FollowsOn
    <3> QED BY <2>1, <2>2, <2>3, <3>1, <3>2 DEF FollowsOn
  <2>6. CASE e < a
    <3>1. FollowsOn(s, lone, e, a)
      <4>1. a <= m
        BY <2>1
      <4> QED BY <1>3, <2>6, <4>1
    <3>2. b <= a
      BY <2>3, <3>1 DEF FollowsOn
    <3> QED BY <2>1, <3>2
  <2> QED BY <2>1, <2>3, <2>4, <2>5, <2>6
<1>4. \A m \in Nat : m \in T
  <2> HIDE DEF T
  <2> QED BY <1>2, <1>3, Induct
<1> QED BY <1>1, <1>4

-----------------------------------------------------------------------------
(* Functions that look back, or ahead, to one place each. *)

Looks(f, N, stops, base, at, step) ==
  \A i \in 0..N : f[i] = IF i \in stops THEN base[i] ELSE step[i][f[at[i]]]

\* Such functions exist: one that looks back,
LEMMA LooksBack ==
  ASSUME NEW N \in Nat, NEW U, NEW stops, NEW base \in [0..N -> U], NEW at,
         NEW step \in [0..N -> [U -> U]],
         \A i \in 0..N : i \notin stops => at[i] \in Nat /\ at[i] < i
  PROVE  \E f \in [0..N -> U] : Looks(f, N, stops, base, at, step)
<1> DEFINE Val(i, h) == IF i \notin 0..N THEN base[0]
                        ELSE IF i \in stops THEN base[i]
                        ELSE IF at[i] + 1 \in DOMAIN h THEN step[i][h[at[i] + 1]]
                        ELSE base[0]
           G == [i \in Nat |-> [h \in Seq(U) |-> Val(i, h)]]
<1>1. base[0] \in U
  OBVIOUS
<1>2. \A i \in Nat : \A h \in Seq(U) : Val(i, h) \in U
  <2> SUFFICES ASSUME NEW i \in Nat, NEW h \in Seq(U), i \in 0..N, i \notin stops, at[i] + 1 \in DOMAIN h
               PROVE  step[i][h[at[i] + 1]] \in U
    BY <1>1
  <2>1. h[at[i] + 1] \in U
    OBVIOUS
  <2>2. step[i] \in [U -> U]
    OBVIOUS
  <2> QED BY ONLY <2>1, <2>2
<1> HIDE DEF Val
<1>3. G \in [Nat -> [Seq(U) -> U]]
  BY <1>2
<1>4. \A i \in Nat : \A h \in Seq(U) : G[i][h] = Val(i, h)
  OBVIOUS
<1> HIDE DEF G
<1>5. PICK f \in [0..N -> U] : Course(f, N, G)
  BY <1>3, Courses
<1>6. Looks(f, N, stops, base, at, step)
  <2> SUFFICES ASSUME NEW i \in 0..N
               PROVE  f[i] = IF i \in stops THEN base[i] ELSE step[i][f[at[i]]]
    BY DEF Looks
  <2>1. Before(f, i) \in Seq(U) /\ DOMAIN Before(f, i) = 1..i /\ \A x \in 1..i : Before(f, i)[x] = f[x - 1]
    <3>1. \A x \in 1..i : f[x - 1] \in U
      OBVIOUS
    <3> QED BY <3>1 DEF Before
  <2>2. f[i] = Val(i, Before(f, i))
    <3>1. f[i] = G[i][Before(f, i)]
      BY <1>5 DEF Course
    <3> QED BY <1>4, <2>1, <3>1
  <2>3. CASE i \in stops
    BY <2>2, <2>3 DEF Val
  <2>4. CASE i \notin stops
    <3>1. at[i] + 1 \in 1..i /\ (at[i] + 1) - 1 = at[i]
      BY <2>4
    <3>2. Before(f, i)[at[i] + 1] = f[at[i]]
      BY <2>1, <3>1
    <3> QED BY <2>1, <2>2, <2>4, <3>1, <3>2 DEF Val
  <2> QED BY <2>3, <2>4
<1> QED BY <1>6

\* and one that looks ahead.
LEMMA LooksAhead ==
  ASSUME NEW N \in Nat, NEW U, NEW stops, NEW base \in [0..N -> U], NEW at,
         NEW step \in [0..N -> [U -> U]],
         \A i \in 0..N : i \notin stops => at[i] \in Nat /\ i < at[i] /\ at[i] <= N
  PROVE  \E f \in [0..N -> U] : Looks(f, N, stops, base, at, step)
<1> DEFINE S == {i \in 0..N : N - i \in stops}
           B == [i \in 0..N |-> base[N - i]]
           A == [i \in 0..N |-> N - at[N - i]]
           F == [i \in 0..N |-> step[N - i]]
<1>1. \A i \in 0..N : N - i \in 0..N /\ N - (N - i) = i
  OBVIOUS
<1>2. B \in [0..N -> U] /\ F \in [0..N -> [U -> U]]
  BY <1>1
<1>3. \A i \in 0..N : i \notin S => A[i] \in Nat /\ A[i] < i
  <2> SUFFICES ASSUME NEW i \in 0..N, N - i \notin stops PROVE N - at[N - i] \in Nat /\ N - at[N - i] < i
    OBVIOUS
  <2>1. at[N - i] \in Nat /\ N - i < at[N - i] /\ at[N - i] <= N
    BY <1>1
  <2> QED BY <2>1
<1>4. \A i \in 0..N : (i \in S <=> N - i \in stops) /\ B[i] = base[N - i] /\ A[i] = N - at[N - i] /\ F[i] = step[N - i]
  OBVIOUS
<1> HIDE DEF S, B, A, F
<1>5. PICK g \in [0..N -> U] : Looks(g, N, S, B, A, F)
  BY <1>2, <1>3, LooksBack
<1> DEFINE f == [i \in 0..N |-> g[N - i]]
<1>6. f \in [0..N -> U]
  BY <1>1
<1>7. \A i \in 0..N : f[i] = IF i \in stops THEN base[i] ELSE step[i][f[at[i]]]
  <2> SUFFICES ASSUME NEW i \in 0..N PROVE f[i] = IF i \in stops THEN base[i] ELSE step[i][f[at[i]]]
    OBVIOUS
  <2> DEFINE d == N - i
  <2>1. d \in 0..N /\ N - d = i
    BY <1>1
  <2>2. f[i] = g[d]
    OBVIOUS
  <2>3. g[d] = IF d \in S THEN B[d] ELSE F[d][g[A[d]]]
    BY <1>5, <2>1 DEF Looks
  <2>4. (d \in S <=> i \in stops) /\ B[d] = base[i] /\ A[d] = N - at[i] /\ F[d] = step[i]
    BY <1>4, <2>1
  <2>5. ASSUME i \notin stops PROVE f[at[i]] = g[A[d]]
    <3>1. at[i] \in 0..N
      BY <2>5
    <3> QED BY <2>4, <3>1
  <2> HIDE DEF f, d
  <2> QED BY <2>2, <2>3, <2>4, <2>5
<1> HIDE DEF f
<1> QED BY <1>6, <1>7 DEF Looks

-----------------------------------------------------------------------------
(* decode_utf8, without its recursion. *)

\* A lead byte announces at most four bytes.
LEMMA LengthIs ==
  \A b : Length(b) \in 0..4
<1> QED BY DEF Length

\* What from[i] is, for a byte string.
DecodedFrom(f, s) ==
  /\ f[Len(s)] = [valid |-> TRUE, text |-> <<>>]
  /\ \A i \in 0..(Len(s) - 1) :
       IF Valid(s, i)
       THEN /\ f[i].valid = f[i + Length(s[i + 1])].valid
            /\ f[i].text = <<CodePoint(Char(s, i))>> \o f[i + Length(s[i + 1])].text
       ELSE f[i].valid = FALSE

\* Decoded, without its recursion.
LEMMA DecodedIs ==
  ASSUME NEW s \in Seq(Byte)
  PROVE  \E f : DecodedFrom(f, s) /\ Decoded(s) = f[0]
<1> DEFINE N == Len(s)
           P == {CodePoint(Char(s, i)) : i \in 0..N}
           U == [valid : BOOLEAN, text : Seq(P)]
           stops == {i \in 0..N : i = N \/ ~Valid(s, i)}
           base == [i \in 0..N |-> [valid |-> i = N, text |-> <<>>]]
           at == [i \in 0..N |-> i + Length(s[i + 1])]
           Put(i, r) == [r EXCEPT !.text = <<CodePoint(Char(s, i))>> \o @]
           step == [i \in 0..N |-> [r \in U |-> Put(i, r)]]
           Is(f) == f = [i \in 0..N |->
                           IF i = N THEN [valid |-> TRUE, text |-> <<>>]
                           ELSE IF ~Valid(s, i) THEN [valid |-> FALSE, text |-> <<>>]
                           ELSE LET rest == f[i + Length(s[i + 1])]
                                IN [rest EXCEPT !.text = <<CodePoint(Char(s, i))>> \o @]]
<1>1. N \in Nat
  OBVIOUS
<1>2. base \in [0..N -> U]
  <2>1. \A i \in 0..N : (i = N) \in BOOLEAN /\ <<>> \in Seq(P)
    OBVIOUS
  <2> HIDE DEF P
  <2> QED BY <2>1
<1>3. \A i \in 0..N : \A r \in U : /\ Put(i, r) \in U /\ Put(i, r).valid = r.valid
                                  /\ Put(i, r).text = <<CodePoint(Char(s, i))>> \o r.text
  <2> SUFFICES ASSUME NEW i \in 0..N, NEW r \in U
               PROVE  /\ Put(i, r) \in U /\ Put(i, r).valid = r.valid
                      /\ Put(i, r).text = <<CodePoint(Char(s, i))>> \o r.text
    OBVIOUS
  <2>1. CodePoint(Char(s, i)) \in P
    OBVIOUS
  <2> HIDE DEF P
  <2> DEFINE chars == <<CodePoint(Char(s, i))>> \o r.text
  <2>2. chars \in Seq(P)
    <3>1. <<CodePoint(Char(s, i))>> \in Seq(P) /\ r.text \in Seq(P)
      BY <2>1
    <3> QED BY ONLY <3>1, ConcatProperties
  <2>3. Put(i, r) = [r EXCEPT !.text = chars]
    OBVIOUS
  <2> HIDE DEF chars, Put
  <2>4. Put(i, r) \in U /\ Put(i, r).valid = r.valid /\ Put(i, r).text = chars
    BY <2>2, <2>3
  <2> QED BY <2>4 DEF chars
<1>4. step \in [0..N -> [U -> U]]
  <2> HIDE DEF U, Put
  <2> QED BY <1>3
<1>5. \A i \in 0..N : i \notin stops => at[i] \in Nat /\ i < at[i] /\ at[i] <= N
  <2> SUFFICES ASSUME NEW i \in 0..N, Valid(s, i)
               PROVE  i + Length(s[i + 1]) \in Nat /\ i < i + Length(s[i + 1]) /\ i + Length(s[i + 1]) <= N
    OBVIOUS
  <2>1. Length(s[i + 1]) \in 0..4 /\ Length(s[i + 1]) # 0 /\ i + Length(s[i + 1]) <= N
    BY LengthIs DEF Valid
  <2> QED BY <1>1, <2>1
<1>6. PICK f \in [0..N -> U] : Looks(f, N, stops, base, at, step)
  <2> HIDE DEF N, stops, base, at, step, U
  <2> QED BY <1>1, <1>2, <1>4, <1>5, LooksAhead
<1>7. \A i \in 0..N : /\ i \in stops <=> i = N \/ ~Valid(s, i)
                     /\ base[i] = [valid |-> i = N, text |-> <<>>]
                     /\ at[i] = i + Length(s[i + 1])
  OBVIOUS
<1>8. \A i \in 0..N : \A r \in U : step[i][r] = Put(i, r)
  <2> HIDE DEF Put, U
  <2> QED OBVIOUS
<1> HIDE DEF stops, base, at, step
<1>9. ASSUME NEW i \in 0..N
      PROVE  f[i] = IF i = N THEN [valid |-> TRUE, text |-> <<>>]
                    ELSE IF ~Valid(s, i) THEN [valid |-> FALSE, text |-> <<>>]
                    ELSE Put(i, f[i + Length(s[i + 1])])
  <2>1. f[i] = IF i \in stops THEN base[i] ELSE step[i][f[at[i]]]
    BY <1>6 DEF Looks
  <2>2. CASE i \in stops
    <3> HIDE DEF N, U, Put
    <3>1. CASE i = N
      <4>1. (i = N) = TRUE
        BY <3>1
      <4> QED BY <1>7, <2>1, <2>2, <3>1, <4>1
    <3>2. CASE i # N
      <4>1. (i = N) = FALSE /\ ~Valid(s, i)
        BY <1>7, <2>2, <3>2
      <4> QED BY <1>7, <2>1, <2>2, <3>2, <4>1
    <3> QED BY <3>1, <3>2
  <2>3. CASE i \notin stops
    <3>1. i # N /\ Valid(s, i) /\ at[i] = i + Length(s[i + 1])
      BY <1>7, <2>3
    <3>2. at[i] \in 0..N
      BY <1>1, <1>5, <2>3
    <3> HIDE DEF N, U, Put
    <3>3. f[at[i]] \in U
      BY <1>6, <3>2
    <3>4. step[i][f[at[i]]] = Put(i, f[at[i]])
      BY <1>8, <3>3
    <3> QED BY <2>1, <2>3, <3>1, <3>4
  <2> QED BY <2>2, <2>3
<1>10. Is(f)
  <2>1. f = [i \in 0..N |-> f[i]]
    <3> HIDE DEF N, U
    <3> QED BY <1>6
  <2> DEFINE V(i) == IF i = N THEN [valid |-> TRUE, text |-> <<>>]
                    ELSE IF ~Valid(s, i) THEN [valid |-> FALSE, text |-> <<>>]
                    ELSE Put(i, f[i + Length(s[i + 1])])
  <2>2. \A i \in 0..N : f[i] = V(i)
    BY <1>9
  <2> HIDE DEF V
  <2>3. f = [i \in 0..N |-> V(i)]
    BY <2>1, <2>2
  <2> QED BY <2>3 DEF V
<1>11. PICK g : Is(g) /\ Decoded(s) = g[0]
  <2>1. Decoded(s) = (CHOOSE g : Is(g))[0]
    BY DEF Decoded
  <2> HIDE DEF Is
  <2> QED BY <1>10, <2>1
<1>12. ASSUME NEW i \in 0..N
       PROVE  g[i] = IF i = N THEN [valid |-> TRUE, text |-> <<>>]
                     ELSE IF ~Valid(s, i) THEN [valid |-> FALSE, text |-> <<>>]
                     ELSE Put(i, g[i + Length(s[i + 1])])
  BY <1>11, Zenon
<1>13. ASSUME NEW i \in 0..N, Valid(s, i), i # N
       PROVE  i < i + Length(s[i + 1]) /\ i + Length(s[i + 1]) \in 0..N
  <2>1. i \notin stops /\ at[i] = i + Length(s[i + 1])
    BY <1>7, <1>13
  <2> QED BY <1>1, <1>5, <2>1
<1> HIDE DEF Put, U, Is
<1>14. \A i \in 0..N : g[i] = f[i]
  <2> DEFINE T == {d \in Nat : \A i \in 0..N : N - i <= d => g[i] = f[i]}
  <2> HIDE DEF N
  <2>1. g[N] = f[N]
    <3>1. N \in 0..N
      BY <1>1
    <3> QED BY <1>9, <1>12, <3>1
  <2>2. 0 \in T
    <3>1. \A i \in 0..N : N - i <= 0 => i = N
      BY <1>1
    <3> QED BY <2>1, <3>1
  <2>3. ASSUME NEW d \in Nat, d \in T PROVE d + 1 \in T
    <3> SUFFICES ASSUME NEW i \in 0..N, N - i <= d + 1 PROVE g[i] = f[i]
      OBVIOUS
    <3>1. CASE i = N \/ ~Valid(s, i)
      BY <1>9, <1>12, <3>1
    <3>2. CASE i # N /\ Valid(s, i)
      <4> DEFINE j == i + Length(s[i + 1])
      <4>1. i < j /\ j \in 0..N
        BY <1>13, <3>2
      <4> HIDE DEF j
      <4>2. N - j <= d
        BY <1>1, <4>1
      <4>3. g[j] = f[j]
        BY <2>3, <4>1, <4>2
      <4>4. g[i] = Put(i, g[j]) /\ f[i] = Put(i, f[j])
        BY <1>9, <1>12, <3>2 DEF j
      <4> QED BY <4>3, <4>4
    <3> QED BY <3>1, <3>2
  <2>4. \A d \in Nat : d \in T
    <3> HIDE DEF T
    <3> QED BY <2>2, <2>3, Induct
  <2> SUFFICES ASSUME NEW i \in 0..N PROVE g[i] = f[i]
    OBVIOUS
  <2>5. N - i \in Nat /\ N - i <= N - i
    BY <1>1
  <2> QED BY <2>4, <2>5
<1>15. DecodedFrom(f, s)
  <2>1. f[N] = [valid |-> TRUE, text |-> <<>>]
    <3>1. N \in 0..N
      BY <1>1
    <3> QED BY <1>9, <3>1
  <2>2. ASSUME NEW i \in 0..(N - 1)
        PROVE  IF Valid(s, i)
               THEN /\ f[i].valid = f[i + Length(s[i + 1])].valid
                    /\ f[i].text = <<CodePoint(Char(s, i))>> \o f[i + Length(s[i + 1])].text
               ELSE f[i].valid = FALSE
    <3>1. i \in 0..N /\ i # N
      BY <1>1
    <3>2. CASE Valid(s, i)
      <4>1. f[i + Length(s[i + 1])] \in U
        BY <1>6, <1>13, <3>1, <3>2
      <4>2. f[i] = Put(i, f[i + Length(s[i + 1])])
        BY <1>9, <3>1, <3>2
      <4> DEFINE r == f[i + Length(s[i + 1])]
      <4>3. Put(i, r).valid = r.valid /\ Put(i, r).text = <<CodePoint(Char(s, i))>> \o r.text
        <5> HIDE DEF r
        <5>1. r \in U
          BY <4>1 DEF r
        <5> QED BY <1>3, <3>1, <5>1
      <4>4. f[i] = Put(i, r)
        BY <4>2
      <4> HIDE DEF r
      <4>5. f[i].valid = r.valid /\ f[i].text = <<CodePoint(Char(s, i))>> \o r.text
        BY <4>3, <4>4
      <4> QED BY <3>2, <4>5 DEF r
    <3>3. CASE ~Valid(s, i)
      <4>1. f[i] = [valid |-> FALSE, text |-> <<>>]
        BY <1>9, <3>1, <3>3
      <4> QED BY <3>3, <4>1
    <3> QED BY <3>2, <3>3
  <2> QED BY <2>1, <2>2 DEF DecodedFrom
<1>16. Decoded(s) = f[0]
  <2>1. 0 \in 0..N
    BY <1>1
  <2> QED BY <1>11, <1>14, <2>1
<1> QED BY <1>15, <1>16

-----------------------------------------------------------------------------
(* A byte string cut into its characters, m of them: the first j bytes of  *)
(* s, the character k from u[k - 1] to u[k].                               *)
Cuts(s, lone, j, m, u) ==
  /\ m \in Nat /\ u \in [0..m -> 0..j] /\ u[0] = 0 /\ u[m] = j
  /\ \A k \in 0..(m - 1) : /\ u[k] < u[k + 1]
                           /\ Passes(SubSeq(s, u[k] + 1, u[k + 1]), lone)
                           /\ CharAt(s, u[k], u[k + 1])

\* Wherever one may stop, s can be cut.
LEMMA CutsExist ==
  ASSUME NEW s \in Seq(Byte), NEW lone, NEW e \in Ends(s, lone)
  PROVE  \E m, u : Cuts(s, lone, e, m, u)
<1> DEFINE E == Ends(s, lone)
           T == {d \in Nat : \A j \in E : j <= d => \E m, u : Cuts(s, lone, j, m, u)}
<1>1. \A j \in E : j \in Nat
  BY EndsType
<1>2. Cuts(s, lone, 0, 0, [k \in 0..0 |-> 0])
  BY DEF Cuts
<1>3. 0 \in T
  BY <1>1, <1>2
<1>4. ASSUME NEW d \in Nat, d \in T PROVE d + 1 \in T
  <2> SUFFICES ASSUME NEW j \in E, j <= d + 1, j # 0 PROVE \E m, u : Cuts(s, lone, j, m, u)
    BY <1>2
  <2>1. PICK i \in E : i < j /\ Passes(SubSeq(s, i + 1, j), lone) /\ CharAt(s, i, j)
    BY EndsOfOne
  <2>2. i \in Nat /\ j \in Nat /\ i <= d
    BY <1>1, <2>1
  <2>3. PICK m, u : Cuts(s, lone, i, m, u)
    BY <1>4, <2>2
  <2> DEFINE v == [k \in 0..(m + 1) |-> IF k = m + 1 THEN j ELSE u[k]]
  <2>4. m \in Nat /\ u \in [0..m -> 0..i] /\ u[0] = 0 /\ u[m] = i
    BY <2>3 DEF Cuts
  <2>5. v \in [0..(m + 1) -> 0..j] /\ v[0] = 0 /\ v[m + 1] = j /\ v[m] = i /\ \A k \in 0..m : v[k] = u[k]
    <3>1. \A k \in 0..(m + 1) : k # m + 1 => k \in 0..m
      BY <2>4
    <3>2. \A k \in 0..m : u[k] \in 0..j
      BY <2>1, <2>2, <2>4
    <3>3. j \in 0..j
      BY <2>2
    <3>4. v \in [0..(m + 1) -> 0..j]
      BY <3>1, <3>2, <3>3
    <3>5. 0 # m + 1 /\ m # m + 1 /\ \A k \in 0..m : k # m + 1 /\ k \in 0..(m + 1)
      BY <2>4
    <3> QED BY <2>4, <3>4, <3>5
  <2> HIDE DEF v
  <2>6. ASSUME NEW k \in 0..((m + 1) - 1)
        PROVE  /\ v[k] < v[k + 1]
               /\ Passes(SubSeq(s, v[k] + 1, v[k + 1]), lone)
               /\ CharAt(s, v[k], v[k + 1])
    <3>1. CASE k = m
      BY <2>1, <2>5, <3>1
    <3>2. CASE k # m
      <4>1. k \in 0..(m - 1) /\ k \in 0..m /\ k + 1 \in 0..m
        BY <2>4, <3>2
      <4>2. v[k] = u[k] /\ v[k + 1] = u[k + 1]
        BY <2>5, <4>1
      <4> QED BY <2>3, <4>1, <4>2 DEF Cuts
    <3> QED BY <3>1, <3>2
  <2>7. Cuts(s, lone, j, m + 1, v)
    BY <2>4, <2>5, <2>6 DEF Cuts
  <2> QED BY <2>7
<1>5. \A d \in Nat : d \in T
  <2> HIDE DEF T
  <2> QED BY <1>3, <1>4, Induct
<1> QED BY <1>1, <1>5

\* Wherever they are cut, one may stop.
LEMMA CutsAreEnds ==
  ASSUME NEW s \in Seq(Byte), NEW lone, NEW e \in Nat, e <= Len(s), NEW m, NEW u, Cuts(s, lone, e, m, u)
  PROVE  \A k \in 0..m : u[k] \in Ends(s, lone)
<1> DEFINE T == {k \in Nat : k <= m => u[k] \in Ends(s, lone)}
<1>1. m \in Nat /\ u \in [0..m -> 0..e] /\ u[0] = 0
  BY DEF Cuts
<1>2. 0 \in T
  BY <1>1, EndsType
<1>3. ASSUME NEW k \in Nat, k \in T PROVE k + 1 \in T
  <2> SUFFICES ASSUME k + 1 <= m PROVE u[k + 1] \in Ends(s, lone)
    OBVIOUS
  <2>1. k \in 0..(m - 1) /\ k \in 0..m /\ k + 1 \in 0..m /\ u[k] \in Ends(s, lone)
    BY <1>1, <1>3
  <2>2. u[k] < u[k + 1] /\ Passes(SubSeq(s, u[k] + 1, u[k + 1]), lone)
    BY <2>1 DEF Cuts
  <2>3. u[k + 1] \in Nat /\ u[k + 1] <= Len(s)
    <3>1. u[k + 1] \in 0..e /\ Len(s) \in Nat
      BY <1>1, <2>1
    <3> QED BY <3>1
  <2> HIDE DEF T
  <2> DEFINE i == u[k]
             j == u[k + 1]
  <2>4. i \in Ends(s, lone) /\ j \in Nat /\ i < j /\ j <= Len(s) /\ Passes(SubSeq(s, i + 1, j), lone)
    BY <2>1, <2>2, <2>3
  <2> HIDE DEF i, j
  <2>5. j \in Ends(s, lone)
    BY <2>4, EndsGoOn
  <2> QED BY <2>5 DEF j
<1>4. \A k \in Nat : k \in T
  <2> HIDE DEF T
  <2> QED BY <1>2, <1>3, Induct
<1> QED BY <1>1, <1>4

\* The cuts of a text into characters rise from its start to its end.
LEMMA CutsType ==
  ASSUME NEW s \in Seq(Byte), NEW lone, NEW m, NEW u, Cuts(s, lone, Len(s), m, u)
  PROVE  /\ m \in Nat /\ Len(s) \in Nat /\ u[0] = 0 /\ u[m] = Len(s) /\ DOMAIN u = 0..m
         /\ \A k \in 0..m : u[k] \in Nat /\ u[k] <= Len(s)
         /\ \A k \in 0..m : k # m => /\ k \in 0..(m - 1) /\ k + 1 \in 0..m
                                     /\ u[k] < u[k + 1] /\ u[k] < Len(s)
                                     /\ CharAt(s, u[k], u[k + 1])
                                     /\ Passes(SubSeq(s, u[k] + 1, u[k + 1]), lone)
<1>1. m \in Nat /\ Len(s) \in Nat /\ u \in [0..m -> 0..Len(s)] /\ u[0] = 0 /\ u[m] = Len(s)
  BY DEF Cuts
<1>2. \A k \in 0..m : u[k] \in 0..Len(s)
  BY <1>1
<1>3. \A k \in 0..m : u[k] \in Nat /\ u[k] <= Len(s)
  BY <1>1, <1>2
<1>4. ASSUME NEW k \in 0..m, k # m
      PROVE  /\ k \in 0..(m - 1) /\ k + 1 \in 0..m
             /\ u[k] < u[k + 1] /\ u[k] < Len(s)
             /\ CharAt(s, u[k], u[k + 1])
             /\ Passes(SubSeq(s, u[k] + 1, u[k + 1]), lone)
  <2>1. k \in 0..(m - 1) /\ k + 1 \in 0..m
    BY <1>1, <1>4
  <2>2. /\ u[k] < u[k + 1]
        /\ CharAt(s, u[k], u[k + 1])
        /\ Passes(SubSeq(s, u[k] + 1, u[k + 1]), lone)
    BY <2>1 DEF Cuts
  <2>3. u[k] < Len(s)
    <3>1. u[k] \in Nat /\ u[k + 1] \in Nat /\ u[k + 1] <= Len(s)
      BY <1>3, <2>1
    <3> QED BY <1>1, <2>2, <3>1
  <2> QED BY <2>1, <2>2, <2>3
<1> QED BY <1>1, <1>3, <1>4

\* A later cut lies further on.
LEMMA CutsGrow ==
  ASSUME NEW s \in Seq(Byte), NEW lone, NEW m, NEW u, Cuts(s, lone, Len(s), m, u),
         NEW a \in 0..m, NEW b \in 0..m, a < b
  PROVE  u[a] < u[b]
<1> DEFINE T == {d \in Nat : a + d + 1 <= m => u[a] < u[a + d + 1]}
<1>1. m \in Nat /\ \A k \in 0..m : u[k] \in Nat /\ (k # m => k + 1 \in 0..m /\ u[k] < u[k + 1])
  BY CutsType
<1>2. 0 \in T
  <2>1. a + 0 + 1 = a + 1 /\ a # m
    BY <1>1
  <2> QED BY <1>1, <2>1
<1>3. ASSUME NEW d \in Nat, d \in T PROVE d + 1 \in T
  <2> SUFFICES ASSUME a + (d + 1) + 1 <= m PROVE u[a] < u[a + (d + 1) + 1]
    OBVIOUS
  <2> DEFINE x == a + d + 1
  <2>1. x \in 0..m /\ x # m /\ x + 1 = a + (d + 1) + 1 /\ u[a] < u[x]
    BY <1>1, <1>3
  <2> HIDE DEF x
  <2>2. u[x] < u[x + 1] /\ u[x] \in Nat /\ u[x + 1] \in Nat /\ u[a] \in Nat
    BY <1>1, <2>1
  <2> QED BY <2>1, <2>2
<1>4. \A d \in Nat : d \in T
  <2> HIDE DEF T
  <2> QED BY <1>2, <1>3, Induct
<1>5. PICK d \in Nat : a + d + 1 = b
  <2>1. b - a - 1 \in Nat /\ a + (b - a - 1) + 1 = b
    BY <1>1
  <2> QED BY ONLY <2>1
<1>6. a + d + 1 <= m => u[a] < u[a + d + 1]
  BY <1>4
<1>7. a + d + 1 <= m
  BY <1>1, <1>5
<1> QED BY <1>5, <1>6, <1>7

\* A place before the end is in one of the characters.
LEMMA CutAround ==
  ASSUME NEW s \in Seq(Byte), NEW lone, NEW m, NEW u, Cuts(s, lone, Len(s), m, u),
         NEW i \in Nat, i < Len(s)
  PROVE  \E k \in 0..m : k # m /\ u[k] <= i /\ i < u[k + 1]
<1>1. /\ m \in Nat /\ u[0] = 0 /\ u[m] = Len(s)
      /\ \A k \in 0..m : u[k] \in Nat /\ (k # m => k + 1 \in 0..m)
  BY CutsType
<1> SUFFICES ASSUME \A k \in 0..m : k # m /\ u[k] <= i => ~(i < u[k + 1]) PROVE FALSE
  OBVIOUS
<1> DEFINE T == {k \in Nat : k <= m => u[k] <= i}
<1>2. 0 \in T
  BY <1>1
<1>3. ASSUME NEW k \in Nat, k \in T PROVE k + 1 \in T
  <2> SUFFICES ASSUME k + 1 <= m PROVE u[k + 1] <= i
    OBVIOUS
  <2>1. k \in 0..m /\ k # m /\ u[k] <= i
    BY <1>1, <1>3
  <2> QED BY <1>1, <2>1
<1>4. \A k \in Nat : k \in T
  <2> HIDE DEF T
  <2> QED BY <1>2, <1>3, Induct
<1> QED BY <1>1, <1>4

\* The characters begin at the bytes that continue none.
LEMMA CutsAreWhere ==
  ASSUME NEW s \in Seq(Byte), NEW lone, NEW m, NEW u, Cuts(s, lone, Len(s), m, u),
         NEW i \in Nat, i < Len(s)
  PROVE  ~Continues(s[i + 1]) <=> \E k \in 0..m : k # m /\ u[k] = i
<1>1. ASSUME NEW k \in 0..m, k # m, u[k] = i PROVE ~Continues(s[i + 1])
  <2>1. CharAt(s, u[k], u[k + 1])
    BY <1>1, CutsType
  <2> QED BY <1>1, <2>1 DEF CharAt
<1>2. ASSUME ~Continues(s[i + 1]) PROVE \E k \in 0..m : k # m /\ u[k] = i
  <2>1. PICK k \in 0..m : k # m /\ u[k] <= i /\ i < u[k + 1]
    BY CutAround
  <2>2. CharAt(s, u[k], u[k + 1]) /\ u[k] \in Nat /\ u[k + 1] \in Nat
    BY <2>1, CutsType
  <2>3. u[k] < i => i + 1 \in (u[k] + 2)..u[k + 1]
    BY <2>1, <2>2
  <2>4. ~(u[k] < i)
    BY <1>2, <2>2, <2>3 DEF CharAt
  <2> QED BY <2>1, <2>2, <2>4
<1> QED BY <1>1, <1>2

-----------------------------------------------------------------------------
(* What is decoded, and written again *)

Point(s, i) == CodePoint(Char(s, i))
PointsOf(s, m, u) == [x \in 1..m |-> Point(s, u[x - 1])]

\* As many code points as characters.
LEMMA PointsType ==
  ASSUME NEW s \in Seq(Byte), NEW lone, NEW m, NEW u, Cuts(s, lone, Len(s), m, u)
  PROVE  /\ m \in Nat /\ PointsOf(s, m, u) \in Seq(Nat) /\ Len(PointsOf(s, m, u)) = m
         /\ \A x \in 1..m : PointsOf(s, m, u)[x] = Point(s, u[x - 1])
<1>1. m \in Nat
  BY CutsType
<1>2. \A x \in 1..m : Point(s, u[x - 1]) \in Nat
  <2> SUFFICES ASSUME NEW x \in 1..m PROVE Point(s, u[x - 1]) \in Nat
    OBVIOUS
  <2>1. x - 1 \in 0..m /\ x - 1 # m
    BY <1>1
  <2>2. CharAt(s, u[x - 1], u[(x - 1) + 1])
    BY <2>1, CutsType
  <2> QED BY <2>2 DEF CharAt, Point
<1> QED BY <1>1, <1>2 DEF PointsOf

\* A byte string of characters is decoded, to their numbers.
LEMMA DecodedOfCuts ==
  ASSUME NEW s \in Seq(Byte), NEW lone, NEW m, NEW u, Cuts(s, lone, Len(s), m, u)
  PROVE  Decoded(s).valid /\ Decoded(s).text = PointsOf(s, m, u)
<1>1. PICK f : DecodedFrom(f, s) /\ Decoded(s) = f[0]
  BY DecodedIs
<1>2. /\ m \in Nat /\ u[0] = 0 /\ u[m] = Len(s) /\ Len(s) \in Nat
      /\ \A k \in 0..m : k # m => k + 1 \in 0..m /\ u[k] \in Nat /\ u[k] < Len(s) /\ CharAt(s, u[k], u[k + 1])
  BY CutsType
<1> DEFINE After(d) == [x \in 1..d |-> Point(s, u[m - d + x - 1])]
           Right(d) == f[u[m - d]].valid = TRUE /\ f[u[m - d]].text = After(d)
           T == {d \in Nat : d <= m => Right(d)}
<1>3. 0 \in T
  <2>1. m - 0 = m /\ After(0) = <<>>
    BY <1>2
  <2>2. f[Len(s)] = [valid |-> TRUE, text |-> <<>>]
    BY <1>1 DEF DecodedFrom
  <2> HIDE DEF After
  <2> QED BY <1>2, <2>1, <2>2
<1>4. ASSUME NEW d \in Nat, d \in T PROVE d + 1 \in T
  <2> SUFFICES ASSUME d + 1 <= m PROVE Right(d + 1)
    <3> HIDE DEF Right
    <3> QED OBVIOUS
  <2> DEFINE k == m - (d + 1)
             i == u[k]
  <2>1. k \in 0..m /\ k # m /\ k + 1 = m - d
    BY <1>2
  <2>2. i \in Nat /\ i < Len(s) /\ CharAt(s, i, u[m - d])
    BY <1>2, <2>1
  <2>3. f[u[m - d]].valid = TRUE /\ f[u[m - d]].text = After(d)
    BY <1>2, <1>4
  <2> HIDE DEF T, After
  <2>4. i \in 0..(Len(s) - 1) /\ Valid(s, i) /\ i + Length(s[i + 1]) = u[m - d]
    <3> DEFINE j == u[m - d]
    <3>1. j \in Nat
      <4>1. m - d \in 0..m
        BY <1>2
      <4> QED BY <4>1, CutsType
    <3> HIDE DEF i, j
    <3>2. CharAt(s, i, j)
      BY <2>2 DEF i, j
    <3>3. Valid(s, i) /\ Length(s[i + 1]) = j - i
      BY <3>2 DEF CharAt
    <3>4. i \in 0..(Len(s) - 1)
      BY <1>2, <2>2 DEF i
    <3>5. i \in Nat
      BY <2>2 DEF i
    <3>6. i + Length(s[i + 1]) = j
      BY ONLY <3>1, <3>3, <3>5
    <3> QED BY <3>3, <3>4, <3>6 DEF j
  <2> HIDE DEF i
  <2>5. f[i].valid = f[u[m - d]].valid /\ f[i].text = <<Point(s, i)>> \o f[u[m - d]].text
    BY <1>1, <2>4 DEF DecodedFrom, Point
  <2>6. <<Point(s, i)>> \o After(d) = After(d + 1)
    <3> DEFINE c == Point(s, i)
               a == After(d)
               V == {Point(s, u[y]) : y \in Int}
    <3>1. c \in V /\ a \in Seq(V) /\ Len(a) = d /\ \A x \in 1..d : a[x] = Point(s, u[m - d + x - 1])
      <4>1. c \in V
        BY <1>2 DEF i
      <4>2. \A x \in 1..d : Point(s, u[m - d + x - 1]) \in V
        BY <1>2
      <4> HIDE DEF V
      <4> QED BY <4>1, <4>2 DEF After
    <3> HIDE DEF c, a, V
    <3>2. <<c>> \in Seq(V) /\ Len(<<c>>) = 1 /\ <<c>>[1] = c
      BY <3>1
    <3> DEFINE r == <<c>> \o a
    <3>3. /\ r \in Seq(V) /\ Len(r) = 1 + d
          /\ \A x \in 1..(1 + d) : r[x] = IF x <= 1 THEN <<c>>[x] ELSE a[x - 1]
      <4>1. /\ r \in Seq(V) /\ Len(r) = Len(<<c>>) + Len(a)
            /\ \A x \in 1..(Len(<<c>>) + Len(a)) : r[x] = IF x <= Len(<<c>>) THEN <<c>>[x] ELSE a[x - Len(<<c>>)]
        BY ONLY <3>1, <3>2, ConcatProperties
      <4> HIDE DEF r
      <4> QED BY <3>1, <3>2, <4>1
    <3> HIDE DEF r
    <3>4. \A x \in 1..(d + 1) : r[x] = Point(s, u[m - (d + 1) + x - 1])
      <4> SUFFICES ASSUME NEW x \in 1..(d + 1) PROVE r[x] = Point(s, u[m - (d + 1) + x - 1])
        OBVIOUS
      <4>1. CASE x = 1
        <5>1. m - (d + 1) + x - 1 = k
          BY <1>2, <4>1
        <5>2. x <= 1 /\ x \in 1..(1 + d)
          BY <4>1
        <5>3. r[x] = c
          BY <3>2, <3>3, <4>1, <5>2
        <5> QED BY <5>1, <5>3 DEF c, i
      <4>2. CASE x # 1
        <5>1. x - 1 \in 1..d /\ ~(x <= 1) /\ x \in 1..(1 + d) /\ m - d + (x - 1) - 1 = m - (d + 1) + x - 1
          BY <1>2, <4>2
        <5> QED BY <3>1, <3>3, <5>1
      <4> QED BY <4>1, <4>2
    <3>5. r = [x \in 1..(d + 1) |-> r[x]]
      BY <3>3
    <3>6. r = After(d + 1)
      BY <3>4, <3>5 DEF After
    <3> QED BY <3>6 DEF r, c, a
  <2> QED BY <2>3, <2>5, <2>6 DEF i
<1>5. \A d \in Nat : d \in T
  <2> HIDE DEF T
  <2> QED BY <1>3, <1>4, Induct
<1>6. f[u[m - m]].valid = TRUE /\ f[u[m - m]].text = After(m)
  <2>1. m \in T /\ m <= m
    <3> HIDE DEF T
    <3> QED BY <1>2, <1>5
  <2> HIDE DEF After
  <2> QED BY <2>1
<1>7. m - m = 0 /\ After(m) = PointsOf(s, m, u)
  <2>1. m - m = 0 /\ \A x \in 1..m : m - m + x - 1 = x - 1
    BY <1>2
  <2> QED BY <2>1 DEF PointsOf
<1> HIDE DEF T, After
<1> QED BY <1>1, <1>2, <1>6, <1>7

\* Written, without its recursion.
LEMMA WrittenIs ==
  ASSUME NEW chars, Len(chars) \in Nat, \A j \in 1..Len(chars) : Encode(chars[j]) \in Seq(Byte)
  PROVE  \E h \in [0..Len(chars) -> Seq(Byte)] :
           /\ Written(chars) = h[Len(chars)] /\ h[0] = <<>>
           /\ \A j \in 1..Len(chars) : h[j] = h[j - 1] \o Encode(chars[j])
<1> DEFINE N == Len(chars)
           U == Seq(Byte)
           stops == {0}
           base == [j \in 0..N |-> <<>>]
           at == [j \in 0..N |-> j - 1]
           Put(j, h) == h \o Encode(chars[j])
           step == [j \in 0..N |-> [h \in U |-> IF j = 0 THEN <<>> ELSE Put(j, h)]]
           Is(h) == h = [j \in 0..N |-> IF j = 0 THEN <<>> ELSE h[j - 1] \o Encode(chars[j])]
<1>1. N \in Nat /\ <<>> \in U
  OBVIOUS
<1>2. \A j \in 0..N : \A h \in U : (IF j = 0 THEN <<>> ELSE Put(j, h)) \in U
  <2> SUFFICES ASSUME NEW j \in 0..N, j # 0, NEW h \in U PROVE Put(j, h) \in U
    BY <1>1
  <2>1. Encode(chars[j]) \in U
    <3>1. j \in 1..N
      OBVIOUS
    <3> QED BY <3>1
  <2> QED BY ONLY <2>1, h \in U, ConcatProperties
<1>3. step \in [0..N -> [U -> U]]
  <2> HIDE DEF U, Put
  <2> QED BY <1>2
<1>4. base \in [0..N -> U] /\ \A j \in 0..N : j \notin stops => at[j] \in Nat /\ at[j] < j
  <2>1. base \in [0..N -> U]
    <3> HIDE DEF U
    <3> QED BY <1>1
  <2> QED BY <1>1, <2>1
<1>5. PICK h \in [0..N -> U] : Looks(h, N, stops, base, at, step)
  <2> HIDE DEF N, stops, base, at, step, U
  <2> QED BY <1>1, <1>3, <1>4, LooksBack
<1>6. ASSUME NEW j \in 0..N PROVE h[j] = IF j = 0 THEN <<>> ELSE Put(j, h[j - 1])
  <2>1. h[j] = IF j \in stops THEN base[j] ELSE step[j][h[at[j]]]
    BY <1>5 DEF Looks
  <2>2. CASE j = 0
    BY <2>1, <2>2
  <2>3. CASE j # 0
    <3>1. j - 1 \in 0..N /\ at[j] = j - 1 /\ j \notin stops
      BY <1>1, <2>3
    <3>2. h[j - 1] \in U
      BY <1>5, <3>1
    <3> DEFINE v == h[j - 1]
    <3>3. step[j][v] = Put(j, v)
      <4> HIDE DEF v, U, Put
      <4>1. v \in U
        BY <3>2 DEF v
      <4> QED BY <2>3, <4>1
    <3> HIDE DEF step, base, stops, Put, U
    <3> QED BY <2>1, <2>3, <3>1, <3>3
  <2> QED BY <2>2, <2>3
<1>7. Is(h)
  <2>1. h = [j \in 0..N |-> h[j]]
    OBVIOUS
  <2> QED BY <1>6, <2>1
<1>8. PICK g : Is(g) /\ Written(chars) = g[N]
  <2>1. Written(chars) = (CHOOSE g : Is(g))[N]
    BY DEF Written
  <2> HIDE DEF Is
  <2> QED BY <1>7, <2>1
<1>9. ASSUME NEW j \in 0..N PROVE g[j] = IF j = 0 THEN <<>> ELSE Put(j, g[j - 1])
  BY <1>8, Zenon
<1> HIDE DEF Is, Put, U
<1>10. \A j \in Nat : j \in {i \in Nat : i <= N => g[i] = h[i]}
  <2> DEFINE T == {i \in Nat : i <= N => g[i] = h[i]}
  <2>1. 0 \in T
    <3>1. 0 \in 0..N
      BY <1>1
    <3> QED BY <1>6, <1>9, <3>1
  <2>2. ASSUME NEW i \in Nat, i \in T PROVE i + 1 \in T
    <3> SUFFICES ASSUME i + 1 <= N PROVE g[i + 1] = h[i + 1]
      OBVIOUS
    <3>1. i + 1 \in 0..N /\ i + 1 # 0 /\ (i + 1) - 1 = i /\ g[i] = h[i]
      BY <1>1, <2>2
    <3> QED BY <1>6, <1>9, <3>1
  <2> HIDE DEF T
  <2>3. \A j \in Nat : j \in T
    BY <2>1, <2>2, Induct
  <2> QED BY <2>3 DEF T
<1>11. Written(chars) = h[N]
  BY <1>1, <1>8, <1>10
<1>12. h[0] = <<>> /\ \A j \in 1..N : h[j] = h[j - 1] \o Encode(chars[j])
  <2>1. 0 \in 0..N /\ \A j \in 1..N : j \in 0..N /\ j # 0
    BY <1>1
  <2> QED BY <1>6, <2>1 DEF Put
<1> QED BY <1>5, <1>11, <1>12 DEF U

\* What is decoded is written again as it was.
LEMMA WrittenOfCuts ==
  ASSUME NEW s \in Seq(Byte), NEW lone, NEW m, NEW u, Cuts(s, lone, Len(s), m, u)
  PROVE  Written(PointsOf(s, m, u)) = s
<1> DEFINE chars == PointsOf(s, m, u)
<1>1. m \in Nat /\ chars \in Seq(Nat) /\ Len(chars) = m /\ \A x \in 1..m : chars[x] = Point(s, u[x - 1])
  BY PointsType
<1> HIDE DEF chars
<1>2. /\ Len(s) \in Nat /\ u[0] = 0 /\ u[m] = Len(s)
      /\ \A k \in 0..m : u[k] \in Nat /\ u[k] <= Len(s)
  BY CutsType
<1>3. ASSUME NEW x \in 1..m
      PROVE  Encode(chars[x]) = SubSeq(s, u[x - 1] + 1, u[x]) /\ Encode(chars[x]) \in Seq(Byte) /\ u[x - 1] < u[x]
  <2>1. x - 1 \in 0..m /\ x - 1 # m /\ (x - 1) + 1 = x /\ x \in 0..m
    BY <1>1
  <2>2. CharAt(s, u[x - 1], u[x]) /\ u[x - 1] < u[x]
    BY <2>1, CutsType
  <2>3. Encode(chars[x]) = SubSeq(s, u[x - 1] + 1, u[x])
    BY <1>1, <2>2 DEF CharAt, Point
  <2> DEFINE i == u[x - 1]
             j == u[x]
  <2>4. i \in Nat /\ j \in Nat /\ i <= j /\ j <= Len(s)
    BY <1>2, <2>1, <2>2
  <2>5. SubSeq(s, i + 1, j) \in Seq(Byte)
    <3> HIDE DEF i, j
    <3> QED BY <2>4, SubBytes
  <2> QED BY <2>2, <2>3, <2>5
<1>4. PICK h \in [0..m -> Seq(Byte)] : /\ Written(chars) = h[m] /\ h[0] = <<>>
                                       /\ \A x \in 1..m : h[x] = h[x - 1] \o Encode(chars[x])
  <2>1. Len(chars) \in Nat /\ \A j \in 1..Len(chars) : Encode(chars[j]) \in Seq(Byte)
    BY <1>1, <1>3
  <2>2. \E h \in [0..Len(chars) -> Seq(Byte)] :
           /\ Written(chars) = h[Len(chars)] /\ h[0] = <<>>
           /\ \A j \in 1..Len(chars) : h[j] = h[j - 1] \o Encode(chars[j])
    BY <2>1, WrittenIs
  <2> QED BY <1>1, <2>2
<1> DEFINE T == {k \in Nat : k <= m => h[k] = SubSeq(s, 1, u[k])}
<1>5. 0 \in T
  BY <1>2, <1>4
<1>6. ASSUME NEW k \in Nat, k \in T PROVE k + 1 \in T
  <2> SUFFICES ASSUME k + 1 <= m PROVE h[k + 1] = SubSeq(s, 1, u[k + 1])
    OBVIOUS
  <2>1. k + 1 \in 1..m /\ (k + 1) - 1 = k /\ h[k] = SubSeq(s, 1, u[k]) /\ k \in 0..m /\ k + 1 \in 0..m
    BY <1>1, <1>6
  <2>2. h[k + 1] = SubSeq(s, 1, u[k]) \o SubSeq(s, u[k] + 1, u[k + 1]) /\ u[k] < u[k + 1]
    BY <1>3, <1>4, <2>1
  <2> DEFINE i == u[k]
             j == u[k + 1]
  <2>3. 1 \in 1..(Len(s) + 1) /\ i \in (1 - 1)..Len(s) /\ j \in i..Len(s)
    BY <1>2, <2>1, <2>2
  <2> HIDE DEF i, j
  <2>4. SubSeq(s, 1, i) \o SubSeq(s, i + 1, j) = SubSeq(s, 1, j)
    BY ONLY <2>3, s \in Seq(Byte), ConcatAdjacentSubSeq
  <2> QED BY <2>2, <2>4 DEF i, j
<1>7. \A k \in Nat : k \in T
  <2> HIDE DEF T
  <2> QED BY <1>5, <1>6, Induct
<1>8. h[m] = SubSeq(s, 1, Len(s))
  <2>1. m \in T /\ m <= m
    BY <1>1, <1>7
  <2> QED BY <1>2, <2>1
<1>9. SubSeq(s, 1, Len(s)) = s
  BY SubSeqFull
<1> QED BY <1>4, <1>8, <1>9 DEF chars

-----------------------------------------------------------------------------
(* utf8_error, without its recursion *)

Fits(s, i, j) == i + j <= Len(s) /\ May(s[i + 1], j, s[i + j])

\* Good is how many bytes fit, from the first on.
LEMMA GoodIs ==
  ASSUME NEW s \in Seq(Byte), NEW i \in Nat, i < Len(s), Need(s[i + 1]) # 0
  PROVE  /\ Need(s[i + 1]) \in 1..4 /\ Good(s, i) \in 1..Need(s[i + 1])
         /\ \A j \in 2..Good(s, i) : Fits(s, i, j)
         /\ Good(s, i) < Need(s[i + 1]) => ~Fits(s, i, Good(s, i) + 1)
<1> DEFINE need == Need(s[i + 1])
           Is(g) == /\ \A j \in 2..g : Fits(s, i, j)
                    /\ g < need => ~Fits(s, i, g + 1)
           T == {g \in Nat : g >= 1 /\ (g = need \/ ~Fits(s, i, g + 1))}
<1>1. need \in 1..4
  <2>1. s[i + 1] \in 0..255
    <3>1. i + 1 \in 1..Len(s) /\ Len(s) \in Nat
      OBVIOUS
    <3>2. \A x \in 1..Len(s) : s[x] \in Byte
      OBVIOUS
    <3> QED BY <3>1, <3>2 DEF Byte
  <2>2. Need(s[i + 1]) \in 0..4
    BY <2>1, NeedIs
  <2> QED BY <2>2
<1> HIDE DEF need
<1>2. PICK g \in T : \A y \in T : ~(y < g)
  <2>1. need \in T /\ T \in SUBSET Nat
    BY <1>1
  <2> HIDE DEF T
  <2> QED BY <2>1, Least
<1>3. g \in Nat /\ g >= 1 /\ (g = need \/ ~Fits(s, i, g + 1))
  BY <1>2
<1>4. g <= need
  <2>1. need \in T
    BY <1>1
  <2> HIDE DEF T
  <2> QED BY <1>1, <1>2, <1>3, <2>1
<1>5. \A j \in 2..g : Fits(s, i, j)
  <2> SUFFICES ASSUME NEW j \in 2..g, ~Fits(s, i, j) PROVE FALSE
    OBVIOUS
  <2>1. j - 1 \in Nat /\ j - 1 >= 1 /\ (j - 1) + 1 = j /\ j - 1 < g
    BY <1>3
  <2>2. j - 1 \in T
    BY <2>1
  <2> HIDE DEF T
  <2> QED BY <1>2, <2>1, <2>2
<1>6. g \in 1..need /\ Is(g)
  BY <1>1, <1>3, <1>4, <1>5
<1>7. Good(s, i) \in 1..need /\ Is(Good(s, i))
  <2>1. Good(s, i) = CHOOSE x \in 1..need : Is(x)
    BY DEF Good, Fits, need
  <2> HIDE DEF Is
  <2> QED BY <1>6, <2>1
<1> QED BY <1>1, <1>7 DEF need

Whole(s, i) == Need(s[i + 1]) # 0 /\ Good(s, i) = Need(s[i + 1])
Error(s, i) ==
  IF Need(s[i + 1]) = 0 THEN <<i, 1, "start">>
  ELSE <<i, Good(s, i), IF i + Good(s, i) + 1 > Len(s) THEN "end" ELSE "continuation">>

\* Its value is that of some function from[i] with these equations.
LEMMA Utf8ErrorIs ==
  ASSUME NEW s \in Seq(Byte)
  PROVE  \E f : /\ Utf8Error(s) = f[0] /\ f[Len(s)] = <<>>
                /\ \A i \in 0..(Len(s) - 1) :
                     f[i] = IF Whole(s, i) THEN f[i + Need(s[i + 1])] ELSE Error(s, i)
<1> DEFINE N == Len(s)
           stops == {i \in 0..N : i = N \/ ~Whole(s, i)}
           base == [i \in 0..N |-> IF i = N THEN <<>> ELSE Error(s, i)]
           U == {<<>>} \union {Error(s, i) : i \in 0..N}
           at == [i \in 0..N |-> i + Need(s[i + 1])]
           step == [i \in 0..N |-> [r \in U |-> r]]
           Is(f) == f = [i \in 0..N |->
                           IF i = N THEN <<>>
                           ELSE LET need == Need(s[i + 1])
                                    g == Good(s, i)
                                IN IF need = 0 THEN <<i, 1, "start">>
                                   ELSE IF g = need THEN f[i + need]
                                   ELSE <<i, g, IF i + g + 1 > Len(s) THEN "end" ELSE "continuation">>]
<1>1. N \in Nat
  OBVIOUS
<1>2. \A f, i : (LET need == Need(s[i + 1])
                     g == Good(s, i)
                 IN IF need = 0 THEN <<i, 1, "start">>
                    ELSE IF g = need THEN f[i + need]
                    ELSE <<i, g, IF i + g + 1 > Len(s) THEN "end" ELSE "continuation">>)
                = IF Whole(s, i) THEN f[i + Need(s[i + 1])] ELSE Error(s, i)
  BY DEF Whole, Error
<1>3. \A f : Is(f) <=> f = [i \in 0..N |-> IF i = N THEN <<>>
                                           ELSE IF Whole(s, i) THEN f[i + Need(s[i + 1])] ELSE Error(s, i)]
  BY <1>2, Zenon
<1>4. base \in [0..N -> U] /\ step \in [0..N -> [U -> U]]
  <2>1. \A i \in 0..N : (IF i = N THEN <<>> ELSE Error(s, i)) \in U
    OBVIOUS
  <2> HIDE DEF U
  <2> QED BY <2>1
<1>5. \A i \in 0..N : i \notin stops => at[i] \in Nat /\ i < at[i] /\ at[i] <= N
  <2> SUFFICES ASSUME NEW i \in 0..N, i # N, Whole(s, i)
               PROVE  /\ i + Need(s[i + 1]) \in Nat /\ i < i + Need(s[i + 1])
                      /\ i + Need(s[i + 1]) <= N
    OBVIOUS
  <2>1. i \in Nat /\ i < Len(s) /\ Need(s[i + 1]) # 0
    BY <1>1 DEF Whole
  <2>2. /\ Need(s[i + 1]) \in 1..4 /\ Good(s, i) = Need(s[i + 1])
        /\ \A j \in 2..Good(s, i) : Fits(s, i, j)
    BY <2>1, GoodIs DEF Whole
  <2> DEFINE need == Need(s[i + 1])
  <2>3. need \in 1..4 /\ \A j \in 2..need : i + j <= N
    BY <2>2 DEF Fits
  <2> HIDE DEF need
  <2>4. need = 1 \/ need \in 2..need
    BY <2>3
  <2>5. i + need <= N
    BY <1>1, <2>1, <2>3, <2>4
  <2>6. i + need \in Nat /\ i < i + need
    BY <2>1, <2>3
  <2> QED BY <2>5, <2>6 DEF need
<1>6. PICK f \in [0..N -> U] : Looks(f, N, stops, base, at, step)
  <2> HIDE DEF N, stops, base, at, step, U
  <2> QED BY <1>1, <1>4, <1>5, LooksAhead
<1>7. ASSUME NEW i \in 0..N
      PROVE  f[i] = IF i = N THEN <<>> ELSE IF Whole(s, i) THEN f[i + Need(s[i + 1])] ELSE Error(s, i)
  <2>1. f[i] = IF i \in stops THEN base[i] ELSE step[i][f[at[i]]]
    BY <1>6 DEF Looks
  <2>2. CASE i \in stops
    BY <2>1, <2>2
  <2>3. CASE i \notin stops
    <3>1. i # N /\ Whole(s, i) /\ at[i] = i + Need(s[i + 1]) /\ at[i] \in 0..N
      BY <1>1, <1>5, <2>3
    <3>2. f[at[i]] \in U
      BY <1>6, <3>1
    <3>3. step[i][f[at[i]]] = f[at[i]]
      <4> DEFINE v == f[at[i]]
      <4>1. v \in U
        BY <3>2
      <4> HIDE DEF v, U
      <4>2. step[i][v] = v
        BY <4>1
      <4> QED BY <4>2 DEF v
    <3> QED BY <2>1, <2>3, <3>1, <3>3
  <2> QED BY <2>2, <2>3
<1>8. \E g : Is(g)
  <2>1. f = [i \in 0..N |-> f[i]]
    <3> HIDE DEF U
    <3> QED BY <1>6
  <2> DEFINE V(i) == IF i = N THEN <<>> ELSE IF Whole(s, i) THEN f[i + Need(s[i + 1])] ELSE Error(s, i)
  <2>2. \A i \in 0..N : f[i] = V(i)
    BY <1>7
  <2> HIDE DEF V
  <2>3. f = [i \in 0..N |-> V(i)]
    BY <2>1, <2>2
  <2>4. f = [i \in 0..N |-> IF i = N THEN <<>>
                          ELSE IF Whole(s, i) THEN f[i + Need(s[i + 1])] ELSE Error(s, i)]
    BY <2>3 DEF V
  <2> HIDE DEF Is
  <2> QED BY <1>3, <2>4
<1>9. PICK g : Is(g) /\ Utf8Error(s) = g[0]
  <2>1. Utf8Error(s) = (CHOOSE g : Is(g))[0]
    BY DEF Utf8Error
  <2> HIDE DEF Is
  <2> QED BY <1>8, <2>1
<1>10. \A i \in 0..N :
         g[i] = IF i = N THEN <<>> ELSE IF Whole(s, i) THEN g[i + Need(s[i + 1])] ELSE Error(s, i)
  <2> DEFINE V(i) == IF i = N THEN <<>> ELSE IF Whole(s, i) THEN g[i + Need(s[i + 1])] ELSE Error(s, i)
  <2>1. g = [i \in 0..N |-> V(i)]
    BY <1>3, <1>9
  <2> HIDE DEF V
  <2>2. \A i \in 0..N : g[i] = V(i)
    BY <2>1
  <2> QED BY <2>2 DEF V
<1>11. N \in 0..N /\ \A i \in 0..(N - 1) : i \in 0..N /\ i # N
  BY <1>1
<1> QED BY <1>9, <1>10, <1>11

-----------------------------------------------------------------------------
(* Starts of characters *)

\* The first l bytes of some bytes.
LEMMA StartOfBytes ==
  ASSUME NEW c \in Seq(Byte), NEW l \in 0..Len(c)
  PROVE  /\ SubSeq(c, 1, l) \in Seq(Byte) /\ Len(SubSeq(c, 1, l)) = l
         /\ \A x \in 1..l : SubSeq(c, 1, l)[x] = c[x]
BY SubSeqIsStart

\* A character's bytes, and those of what it begins.
Joined(c, s, e, g, w) == /\ IsBytes(c) /\ Len(c) = g + Len(w) /\ c[1] = s[e + 1]
                         /\ \A x \in 1..g : c[x] = s[e + x]
                         /\ \A x \in (g + 1)..(g + Len(w)) : c[x] = w[x - g]
\* A character's bytes with the rest of the text behind them.
LEMMA StartOfChar ==
  ASSUME NEW s \in Seq(Byte), NEW e \in Nat, NEW g \in Nat, g >= 1, e + g <= Len(s), NEW w \in Seq(Byte)
  PROVE  Joined(SubSeq(s, e + 1, e + g) \o w, s, e, g, w)
<1> DEFINE v == SubSeq(s, e + 1, e + g)
           c == v \o w
<1>1. v \in Seq(Byte) /\ Len(v) = g /\ \A x \in 1..g : v[x] = s[e + x]
  BY SubIs
<1> HIDE DEF v
<1>2. /\ c \in Seq(Byte) /\ Len(c) = Len(v) + Len(w)
      /\ \A x \in 1..(Len(v) + Len(w)) : c[x] = IF x <= Len(v) THEN v[x] ELSE w[x - Len(v)]
  BY ONLY <1>1, w \in Seq(Byte), ConcatProperties
<1> HIDE DEF c
<1>3. Len(w) \in Nat
  OBVIOUS
<1>4. \A x \in 1..g : c[x] = s[e + x]
  <2>1. \A x \in 1..g : x \in 1..(g + Len(w)) /\ x <= g
    BY <1>3
  <2> QED BY <1>1, <1>2, <2>1
<1>5. \A x \in (g + 1)..(g + Len(w)) : c[x] = w[x - g]
  <2>1. \A x \in (g + 1)..(g + Len(w)) : x \in 1..(g + Len(w)) /\ ~(x <= g)
    BY <1>3
  <2> QED BY <1>1, <1>2, <2>1
<1>6. c[1] = s[e + 1]
  BY <1>4
<1>7. IsBytes(c)
  <2>1. c = [x \in 1..Len(c) |-> c[x]] /\ \A x \in 1..Len(c) : c[x] \in Byte
    BY <1>2
  <2>2. Len(c) \in Nat
    BY <1>1, <1>2, <1>3
  <2> QED BY <2>1, <2>2 DEF IsBytes, Byte
<1>8. Joined(c, s, e, g, w)
  BY <1>1, <1>2, <1>4, <1>5, <1>6, <1>7 DEF Joined
<1> QED BY <1>8 DEF c, v

\* The first bytes of what is well formed fit.
LEMMA StartFits ==
  ASSUME NEW s \in Seq(Byte), NEW e \in Nat, NEW g \in Nat, g >= 1, e + g <= Len(s), NEW w \in Seq(Byte),
         WellFormed(SubSeq(s, e + 1, e + g) \o w)
  PROVE  g <= Need(s[e + 1]) /\ \A j \in 2..g : Fits(s, e, j)
<1> DEFINE c == SubSeq(s, e + 1, e + g) \o w
<1>1. /\ IsBytes(c) /\ Len(c) = g + Len(w) /\ c[1] = s[e + 1]
      /\ \A x \in 1..g : c[x] = s[e + x]
  <2>1. Joined(c, s, e, g, w)
    BY StartOfChar
  <2> HIDE DEF c
  <2> QED BY ONLY <2>1 DEF Joined
<1>2. WellFormed(c)
  OBVIOUS
<1> HIDE DEF c
<1>3. Len(w) \in Nat /\ Len(c) >= 1
  BY <1>1
<1>4. Need(c[1]) = Len(c) /\ \A j \in 2..Len(c) : May(c[1], j, c[j])
  BY <1>1, <1>2, <1>3, TableIs
<1>5. g <= Need(s[e + 1])
  BY <1>1, <1>3, <1>4
<1>6. \A j \in 2..g : Fits(s, e, j)
  <2>1. \A j \in 2..g : j \in 2..Len(c) /\ j \in 1..g /\ e + j <= Len(s)
    <3>1. Len(s) \in Nat
      OBVIOUS
    <3> QED BY <1>1, <1>3, <3>1
  <2> QED BY <1>1, <1>4, <2>1 DEF Fits
<1> QED BY <1>5, <1>6

\* Whole: a character of the table is there, and only then.
LEMMA WholeIs ==
  ASSUME NEW s \in Seq(Byte), NEW i \in Nat, i < Len(s), Whole(s, i)
  PROVE  /\ i + Need(s[i + 1]) \in Nat /\ i < i + Need(s[i + 1]) /\ i + Need(s[i + 1]) <= Len(s)
         /\ WellFormed(SubSeq(s, i + 1, i + Need(s[i + 1])))
<1> DEFINE need == Need(s[i + 1])
           j == i + need
<1>1. need \in 1..4 /\ \A x \in 2..need : Fits(s, i, x)
  BY GoodIs DEF Whole
<1> HIDE DEF need
<1>2. j \in Nat /\ i < j /\ j <= Len(s) /\ j - i = need
  <2>1. Len(s) \in Nat
    OBVIOUS
  <2>2. need = 1 \/ (need \in 2..need /\ j <= Len(s))
    BY <1>1 DEF Fits
  <2> QED BY <1>1, <2>1, <2>2
<1> HIDE DEF j
<1> DEFINE c == SubSeq(s, i + 1, j)
<1>3. IsBytes(c) /\ Len(c) = need /\ \A x \in 1..need : c[x] = s[i + x]
  <2>1. i <= j
    BY <1>2
  <2> QED BY <1>2, <2>1, SubBytes
<1> HIDE DEF c
<1>4. c[1] = s[i + 1] /\ Len(c) >= 1
  BY <1>1, <1>3
<1>5. \A x \in 2..Len(c) : May(c[1], x, c[x])
  <2>1. \A x \in 2..need : x \in 1..need
    OBVIOUS
  <2> QED BY <1>1, <1>3, <1>4, <2>1 DEF Fits
<1>6. Need(c[1]) = Len(c)
  BY <1>3, <1>4 DEF need
<1>7. WellFormed(c)
  BY <1>3, <1>4, <1>5, <1>6, TableIs
<1> QED BY <1>2, <1>7 DEF c, j, need

NoChar(s, i) == \A j \in Nat : i < j /\ j <= Len(s) => ~WellFormed(SubSeq(s, i + 1, j))
Faulty(s, e, g) == /\ e \in Nat /\ e < Len(s) /\ g \in 1..4 /\ NoChar(s, e)
                   /\ g > 1 => Grows(s, e, g)
                   /\ e + g < Len(s) => ~Grows(s, e, g + 1)

\* What is reported where no whole character is: the longest start of one.
LEMMA ErrorIsFault ==
  ASSUME NEW s \in Seq(Byte), NEW i \in Nat, i < Len(s), ~Whole(s, i)
  PROVE  /\ Error(s, i) # <<>> /\ Error(s, i)[1] = i
         /\ Faulty(s, i, Error(s, i)[2])
<1> DEFINE need == Need(s[i + 1])
           g == Error(s, i)[2]
<1>1. /\ Error(s, i) # <<>> /\ Error(s, i)[1] = i
      /\ g = IF need = 0 THEN 1 ELSE Good(s, i)
  BY DEF Error
<1>2. need # 0 => /\ need \in 1..4 /\ g \in 1..need /\ g < need
                  /\ \A j \in 2..g : Fits(s, i, j)
                  /\ ~Fits(s, i, g + 1)
  <2> SUFFICES ASSUME need # 0
               PROVE  /\ need \in 1..4 /\ g \in 1..need /\ g < need
                      /\ \A j \in 2..g : Fits(s, i, j)
                      /\ ~Fits(s, i, g + 1)
    OBVIOUS
  <2>1. g = Good(s, i) /\ g # need
    BY <1>1 DEF Whole
  <2>2. /\ need \in 1..4 /\ g \in 1..need
        /\ \A j \in 2..g : Fits(s, i, j)
        /\ g < need => ~Fits(s, i, g + 1)
    BY <2>1, GoodIs
  <2> HIDE DEF need, g
  <2>3. g < need
    BY <2>1, <2>2
  <2> QED BY <2>2, <2>3
<1>3. g \in 1..4 /\ Len(s) \in Nat
  <2>1. Len(s) \in Nat /\ (need = 0 => g = 1)
    BY <1>1
  <2> HIDE DEF need, g
  <2> QED BY <1>2, <2>1
<1> HIDE DEF g
\* Nothing of the table begins with one byte more than the good ones.
<1>4. ASSUME NEW w \in Seq(Byte), i + (g + 1) <= Len(s), WellFormed(SubSeq(s, i + 1, i + (g + 1)) \o w)
      PROVE  FALSE
  <2> DEFINE h == g + 1
  <2>1. h \in Nat /\ h >= 1 /\ h \in 2..h /\ i + h <= Len(s)
    BY <1>3, <1>4
  <2>2. WellFormed(SubSeq(s, i + 1, i + h) \o w)
    BY <1>4
  <2> HIDE DEF h
  <2>3. h <= need /\ \A j \in 2..h : Fits(s, i, j)
    BY <2>1, <2>2, StartFits
  <2>4. Fits(s, i, h)
    BY <2>1, <2>3
  <2>5. need # 0
    BY <2>1, <2>3
  <2> QED BY <1>2, <2>4, <2>5 DEF h
<1>5. NoChar(s, i)
  <2> SUFFICES ASSUME NEW j \in Nat, i < j, j <= Len(s), WellFormed(SubSeq(s, i + 1, j)) PROVE FALSE
    BY DEF NoChar
  <2> DEFINE c == SubSeq(s, i + 1, j)
  <2>1. IsBytes(c) /\ Len(c) = j - i /\ \A x \in 1..(j - i) : c[x] = s[i + x]
    <3>1. i <= j
      OBVIOUS
    <3> QED BY <3>1, SubBytes
  <2>2. WellFormed(c)
    OBVIOUS
  <2> HIDE DEF c
  <2>3. Len(c) >= 1 /\ c[1] = s[i + 1]
    BY <2>1
  <2>4. need = j - i /\ \A x \in 2..(j - i) : May(s[i + 1], x, s[i + x])
    <3>1. Need(c[1]) = Len(c) /\ \A x \in 2..Len(c) : May(c[1], x, c[x])
      BY <2>1, <2>2, <2>3, TableIs
    <3>2. \A x \in 2..(j - i) : x \in 1..(j - i)
      OBVIOUS
    <3> QED BY <2>1, <2>3, <3>1, <3>2
  <2> HIDE DEF need
  <2>5. need # 0 /\ g + 1 \in 2..(j - i) /\ i + (g + 1) <= Len(s)
    BY <1>2, <1>3, <2>4
  <2>6. Fits(s, i, g + 1)
    BY <2>4, <2>5 DEF Fits
  <2> QED BY <1>2, <2>5, <2>6
<1>6. ASSUME g > 1 PROVE Grows(s, i, g)
  <2>1. need # 0
    BY <1>1, <1>6 DEF g
  <2> HIDE DEF need
  <2>2. need \in 1..4 /\ g < need /\ \A j \in 2..g : Fits(s, i, j)
    BY <1>2, <2>1
  <2> DEFINE l == need - g
             w == SubSeq(<<128, 128, 128>>, 1, l)
  <2>3. g \in {2, 3} /\ l \in 1..2 /\ l \in 0..(4 - g)
    BY <1>3, <1>6, <2>2
  <2>4. w \in Seq(Byte) /\ Len(w) = l /\ \A x \in 1..l : w[x] = 128
    <3> DEFINE chars == <<128, 128, 128>>
    <3>1. chars \in Seq(Byte) /\ Len(chars) = 3 /\ \A x \in 1..3 : chars[x] = 128
      BY DEF Byte
    <3> HIDE DEF chars
    <3>2. l \in 0..Len(chars)
      BY <2>3, <3>1
    <3> HIDE DEF l
    <3>3. /\ SubSeq(chars, 1, l) \in Seq(Byte) /\ Len(SubSeq(chars, 1, l)) = l
          /\ \A x \in 1..l : SubSeq(chars, 1, l)[x] = chars[x]
      <4>1. chars \in Seq(Byte)
        BY <3>1
      <4> QED BY ONLY <3>2, <4>1, StartOfBytes, Zenon
    <3>4. \A x \in 1..l : x \in 1..3
      BY <2>3
    <3> QED BY <3>1, <3>3, <3>4 DEF chars
  <2> HIDE DEF w
  <2>5. i + g <= Len(s) /\ g \in Nat /\ g >= 1
    <3>1. g \in 2..g
      BY <2>3
    <3> QED BY <1>3, <2>2, <3>1 DEF Fits
  <2> DEFINE c == SubSeq(s, i + 1, i + g) \o w
  <2>6. /\ IsBytes(c) /\ Len(c) = g + l /\ c[1] = s[i + 1]
        /\ \A x \in 1..g : c[x] = s[i + x]
        /\ \A x \in (g + 1)..(g + l) : c[x] = w[x - g]
    <3>1. /\ IsBytes(c) /\ Len(c) = g + Len(w) /\ c[1] = s[i + 1]
          /\ \A x \in 1..g : c[x] = s[i + x]
          /\ \A x \in (g + 1)..(g + Len(w)) : c[x] = w[x - g]
      <4>1. w \in Seq(Byte)
        BY <2>4
      <4> HIDE DEF l
      <4>2. Joined(c, s, i, g, w)
        BY <2>5, <4>1, StartOfChar
      <4> HIDE DEF c
      <4> QED BY ONLY <4>2 DEF Joined
    <3>2. Len(w) = l
      BY <2>4
    <3> HIDE DEF c, l
    <3> QED BY <3>1, <3>2
  <2> HIDE DEF c
  <2>7. Len(c) = need /\ Len(c) >= 1
    BY <2>2, <2>3, <2>6
  <2>8. \A x \in 2..Len(c) : May(c[1], x, c[x])
    <3> SUFFICES ASSUME NEW x \in 2..Len(c) PROVE May(c[1], x, c[x])
      OBVIOUS
    <3>1. CASE x \in 2..g
      BY <2>2, <2>6, <3>1 DEF Fits
    <3>2. CASE x \notin 2..g
      <4>1. x \in (g + 1)..(g + l) /\ x - g \in 1..l /\ x # 2
        BY <2>3, <2>6, <3>2
      <4>2. c[x] = 128
        BY <2>4, <2>6, <4>1
      <4> QED BY <4>1, <4>2 DEF May, Continues, InRange
    <3> QED BY <3>1, <3>2
  <2>9. WellFormed(c)
    BY <2>6, <2>7, <2>8, TableIs DEF need
  <2>10. WellFormed(SubSeq(s, i + 1, i + g) \o SubSeq(<<128, 128, 128>>, 1, l))
    BY <2>9 DEF c, w
  <2> HIDE DEF l
  <2> QED BY <2>3, <2>10 DEF Grows
<1>7. ASSUME i + g < Len(s) PROVE ~Grows(s, i, g + 1)
  <2> SUFFICES ASSUME Grows(s, i, g + 1) PROVE FALSE
    OBVIOUS
  <2>0. PICK a, b, c \in {128, 143, 144, 159, 160, 191} : \E l \in 0..(4 - (g + 1)) :
          WellFormed(SubSeq(s, i + 1, i + (g + 1)) \o SubSeq(<<a, b, c>>, 1, l))
    BY DEF Grows
  <2>7. PICK l \in 0..(4 - (g + 1)) :
          WellFormed(SubSeq(s, i + 1, i + (g + 1)) \o SubSeq(<<a, b, c>>, 1, l))
    BY <2>0
  <2> DEFINE chars == <<a, b, c>>
             w == SubSeq(chars, 1, l)
  <2>1. chars \in Seq(Byte) /\ Len(chars) = 3
    BY DEF Byte
  <2>2. l \in 0..Len(chars)
    BY <1>3, <2>1
  <2> HIDE DEF chars
  <2>3. w \in Seq(Byte)
    BY ONLY <2>1, <2>2, StartOfBytes
  <2>4. WellFormed(SubSeq(s, i + 1, i + (g + 1)) \o w)
    BY <2>7 DEF chars
  <2>5. i + (g + 1) <= Len(s)
    BY <1>3, <1>7
  <2> HIDE DEF w
  <2> QED BY <1>4, <2>3, <2>4, <2>5
<1> QED BY <1>1, <1>3, <1>5, <1>6, <1>7 DEF Faulty, g

\* No error in UTF-8, and otherwise one that is a fault.
LEMMA Utf8ErrorIsExact ==
  ASSUME NEW s \in Seq(Byte)
  PROVE  /\ Utf8Error(s) = <<>> => Len(s) \in Ends(s, FALSE)
         /\ Utf8Error(s) # <<>> => /\ Utf8Error(s)[1] \in Ends(s, FALSE)
                                   /\ Faulty(s, Utf8Error(s)[1], Utf8Error(s)[2])
<1> DEFINE N == Len(s)
           E == Ends(s, FALSE)
           Is(r) == /\ r = <<>> => N \in E
                    /\ r # <<>> => r[1] \in E /\ Faulty(s, r[1], r[2])
<1>1. PICK f : /\ Utf8Error(s) = f[0] /\ f[N] = <<>>
               /\ \A i \in 0..(N - 1) :
                    f[i] = IF Whole(s, i) THEN f[i + Need(s[i + 1])] ELSE Error(s, i)
  BY Utf8ErrorIs
<1>2. N \in Nat /\ 0 \in E /\ \A i \in E : i \in Nat /\ i <= N
  BY EndsType
<1> DEFINE T == {d \in Nat : \A i \in E : N - i <= d => Is(f[i])}
<1>3. Is(f[N]) \/ N \notin E
  BY <1>1
<1> HIDE DEF Is, N, E
<1>4. 0 \in T
  <2>1. \A i \in E : N - i <= 0 => i = N
    BY <1>2
  <2> QED BY <1>3, <2>1
<1>5. ASSUME NEW d \in Nat, d \in T PROVE d + 1 \in T
  <2> SUFFICES ASSUME NEW i \in E, N - i <= d + 1 PROVE Is(f[i])
    OBVIOUS
  <2>1. CASE i = N
    BY <1>3, <2>1
  <2>2. CASE i # N
    <3>1. i \in 0..(N - 1) /\ i \in Nat /\ i < Len(s)
      BY <1>2, <2>2 DEF N
    <3>2. CASE Whole(s, i)
      <4> DEFINE j == i + Need(s[i + 1])
      <4>1. j \in Nat /\ i < j /\ j <= Len(s) /\ WellFormed(SubSeq(s, i + 1, j))
        BY <3>1, <3>2, WholeIs
      <4>2. f[i] = f[j]
        BY <1>1, <3>1, <3>2
      <4> HIDE DEF j
      <4>3. j \in E
        <5>1. Passes(SubSeq(s, i + 1, j), FALSE)
          BY <4>1 DEF Passes
        <5>2. i \in Ends(s, FALSE)
          BY DEF E
        <5> QED BY <4>1, <5>1, <5>2, EndsGoOn DEF E
      <4>4. N - j <= d
        BY <1>2, <3>1, <4>1
      <4> QED BY <1>5, <4>2, <4>3, <4>4
    <3>3. CASE ~Whole(s, i)
      <4>1. f[i] = Error(s, i)
        BY <1>1, <3>1, <3>3
      <4>2. /\ Error(s, i) # <<>> /\ Error(s, i)[1] = i
            /\ Faulty(s, i, Error(s, i)[2])
        BY <3>1, <3>3, ErrorIsFault
      <4> QED BY <4>1, <4>2 DEF Is
    <3> QED BY <3>2, <3>3
  <2> QED BY <2>1, <2>2
<1>6. \A d \in Nat : d \in T
  <2> HIDE DEF T
  <2> QED BY <1>4, <1>5, Induct
<1>7. Is(f[0])
  <2>1. N \in T /\ N - 0 <= N
    BY <1>2, <1>6
  <2> QED BY <1>2, <2>1
<1> QED BY <1>1, <1>7 DEF Is, N, E

\* One stops nowhere past a place where there is no character.
LEMMA NoneAfter ==
  ASSUME NEW s \in Seq(Byte), NEW i \in Ends(s, FALSE), NoChar(s, i), NEW j \in Ends(s, FALSE)
  PROVE  j <= i
<1>1. i \in Nat /\ j \in Nat /\ Len(s) \in Nat /\ j <= Len(s)
  BY EndsType
<1> SUFFICES ASSUME i < j PROVE FALSE
  BY <1>1
<1> DEFINE l == i + Length(s[i + 1])
<1>2. l \in Ends(s, FALSE) /\ i < l /\ Passes(SubSeq(s, i + 1, l), FALSE)
  BY Follows DEF FollowsOn
<1>3. l \in Nat /\ l <= Len(s)
  BY <1>2, EndsType
<1> HIDE DEF l
<1>4. WellFormed(SubSeq(s, i + 1, l))
  BY <1>2 DEF Passes
<1> QED BY <1>2, <1>3, <1>4 DEF NoChar

-----------------------------------------------------------------------------
(* Spaces *)

\* The byte strings in the list of wide spaces are those of spaces, one character each.
LEMMA WideIs ==
  /\ \A w \in WideSpaces : w \in Seq(Byte) /\ Len(w) \in 2..3 /\ Length(w[1]) = Len(w) /\ w[1] >= 128 /\ IsSpace(CodePoint(w))
  /\ \A x : IsSpace(x) => x \in 0..127 \/ Encode(x) \in WideSpaces
<1> DEFINE IsWide(w) == /\ w \in Seq(Byte) /\ Len(w) \in 2..3 /\ Length(w[1]) = Len(w) /\ w[1] >= 128
                       /\ IsSpace(CodePoint(w))
           Two(a, b, x) == a \in 194..223 /\ b \in 128..191 /\ x = (a - 192) * 64 + (b - 128)
           Three(a, b, c, x) == /\ a \in 224..239 /\ b \in 128..191 /\ c \in 128..191
                                /\ x = ((a - 224) * 64 + (b - 128)) * 64 + (c - 128)
<1>2. ASSUME NEW a, NEW b, NEW x, Two(a, b, x), IsSpace(x) PROVE IsWide(<<a, b>>)
  <2> DEFINE w == <<a, b>>
  <2>0. a \in 194..223 /\ b \in 128..191 /\ x = (a - 192) * 64 + (b - 128)
    BY <1>2
  <2>1. w \in Seq(Byte) /\ Len(w) = 2 /\ w[1] = a /\ w[2] = b
    BY <2>0 DEF Byte
  <2> HIDE DEF w
  <2>2. Length(w[1]) = 2 /\ w[1] >= 128
    BY <2>0, <2>1 DEF Length, InRange
  <2>3. CodePoint(w) = (a % 32) * 64 + (b % 64)
    BY ONLY <2>1 DEF CodePoint, Bits
  <2>4. a % 32 = a - 192 /\ b % 64 = b - 128
    BY ONLY <2>0
  <2>5. CodePoint(w) = x
    BY <2>0, <2>3, <2>4
  <2> QED BY <1>2, <2>1, <2>2, <2>5 DEF w
<1>3. ASSUME NEW a, NEW b, NEW c, NEW x, Three(a, b, c, x), IsSpace(x) PROVE IsWide(<<a, b, c>>)
  <2> DEFINE w == <<a, b, c>>
  <2>0. /\ a \in 224..239 /\ b \in 128..191 /\ c \in 128..191
        /\ x = ((a - 224) * 64 + (b - 128)) * 64 + (c - 128)
    BY <1>3
  <2>1. w \in Seq(Byte) /\ Len(w) = 3 /\ w[1] = a /\ w[2] = b /\ w[3] = c
    BY <2>0 DEF Byte
  <2> HIDE DEF w
  <2>2. Length(w[1]) = 3 /\ w[1] >= 128
    BY <2>0, <2>1 DEF Length, InRange
  <2>3. CodePoint(w) = ((a % 16) * 64 + (b % 64)) * 64 + (c % 64)
    BY ONLY <2>1 DEF CodePoint, Bits
  <2>4. a % 16 = a - 224 /\ b % 64 = b - 128 /\ c % 64 = c - 128
    BY ONLY <2>0
  <2>5. CodePoint(w) = x
    BY <2>0, <2>3, <2>4
  <2> QED BY <1>3, <2>1, <2>2, <2>5 DEF w
<1>4. \A x \in {133, 160, 5760, 8232, 8233, 8239, 8287, 12288} : IsSpace(x)
  BY DEF IsSpace
<1>41. \A x \in 8192..8202 : IsSpace(x)
  BY DEF IsSpace
<1>5. IsWide(<<194, 133>>) /\ IsWide(<<194, 160>>)
  <2>1. Two(194, 133, 133) /\ Two(194, 160, 160)
    OBVIOUS
  <2> HIDE DEF IsWide, Two
  <2> QED BY <1>2, <1>4, <2>1
<1>6. /\ IsWide(<<225, 154, 128>>) /\ IsWide(<<226, 128, 168>>) /\ IsWide(<<226, 128, 169>>)
      /\ IsWide(<<226, 128, 175>>) /\ IsWide(<<226, 129, 159>>) /\ IsWide(<<227, 128, 128>>)
  <2>1. /\ Three(225, 154, 128, 5760) /\ Three(226, 128, 168, 8232) /\ Three(226, 128, 169, 8233)
        /\ Three(226, 128, 175, 8239) /\ Three(226, 129, 159, 8287) /\ Three(227, 128, 128, 12288)
    OBVIOUS
  <2> HIDE DEF IsWide, Three
  <2> QED BY <1>3, <1>4, <2>1
<1>7. \A b \in 128..138 : IsWide(<<226, 128, b>>)
  <2> SUFFICES ASSUME NEW b \in 128..138 PROVE IsWide(<<226, 128, b>>)
    OBVIOUS
  <2> DEFINE x == 8064 + b
  <2>1. Three(226, 128, b, x) /\ x \in 8192..8202
    OBVIOUS
  <2> HIDE DEF IsWide, Three, x
  <2> QED BY <1>3, <1>41, <2>1
<1> HIDE DEF IsWide, Two, Three
<1>8. \A w \in WideSpaces : IsWide(w)
  BY <1>5, <1>6, <1>7 DEF WideSpaces
<1>9. ASSUME NEW x, IsSpace(x) PROVE x \in 0..127 \/ Encode(x) \in WideSpaces
  <2>1. CASE x \in 9..13 \/ x \in 28..32
    BY <2>1
  <2>2. CASE x \in {133, 160}
    <3>1. 128 <= x /\ x < 2048 /\ x \div 64 = 2 /\ x \div 1 = x /\ x % 64 = x - 128
      BY <2>2
    <3>2. Encode(x) = <<194, x>>
      BY <3>1, <2>2 DEF Encode, Rest
    <3> QED BY <2>2, <3>2 DEF WideSpaces
  <2>3. ASSUME NEW a \in {5760, 8232, 8233, 8239, 8287, 12288}
        PROVE  Encode(a) = <<224 + a \div 4096, 128 + ((a \div 64) % 64), 128 + (a % 64)>>
    <3>1. a \in Nat /\ a \div 1 = a /\ ~(a < 128) /\ ~(a < 2048) /\ a < 65536
      OBVIOUS
    <3> QED BY <3>1 DEF Encode, Rest
  <2>4. /\ 5760 \div 4096 = 1 /\ 5760 \div 64 = 90 /\ 90 % 64 = 26 /\ 5760 % 64 = 0
        /\ 8232 \div 4096 = 2 /\ 8232 \div 64 = 128 /\ 128 % 64 = 0 /\ 8232 % 64 = 40
        /\ 8233 \div 4096 = 2 /\ 8233 \div 64 = 128 /\ 8233 % 64 = 41
        /\ 8239 \div 4096 = 2 /\ 8239 \div 64 = 128 /\ 8239 % 64 = 47
        /\ 8287 \div 4096 = 2 /\ 8287 \div 64 = 129 /\ 129 % 64 = 1 /\ 8287 % 64 = 31
        /\ 12288 \div 4096 = 3 /\ 12288 \div 64 = 192 /\ 192 % 64 = 0 /\ 12288 % 64 = 0
    OBVIOUS
  <2>5. CASE x \in {5760, 8232, 8233, 8239, 8287, 12288}
    <3>1. /\ Encode(5760) = <<225, 154, 128>> /\ Encode(8232) = <<226, 128, 168>>
          /\ Encode(8233) = <<226, 128, 169>> /\ Encode(8239) = <<226, 128, 175>>
          /\ Encode(8287) = <<226, 129, 159>> /\ Encode(12288) = <<227, 128, 128>>
      BY <2>3, <2>4
    <3> QED BY <2>5, <3>1 DEF WideSpaces
  <2>6. CASE x \in 8192..8202
    <3>1. x \in Nat /\ x \div 1 = x /\ ~(x < 128) /\ ~(x < 2048) /\ x < 65536
      BY <2>6
    <3>2. x \div 4096 = 2 /\ x \div 64 = 128 /\ 128 % 64 = 0 /\ x % 64 = x - 8192
      BY <2>6
    <3>3. Encode(x) = <<226, 128, 128 + (x - 8192)>>
      BY <3>1, <3>2 DEF Encode, Rest
    <3>4. 128 + (x - 8192) \in 128..138
      BY <2>6
    <3> QED BY <3>3, <3>4 DEF WideSpaces
  <2> QED BY <1>9, <2>1, <2>2, <2>5, <2>6 DEF IsSpace
<1> QED BY <1>8, <1>9 DEF IsWide

\* What a space at i is: the character there, if Python's isspace says so of its number.
LEMMA SpaceIs ==
  ASSUME NEW s \in Seq(Byte), NEW i \in Nat, NEW j \in Nat, j <= Len(s), CharAt(s, i, j)
  PROVE  SpaceAt(s, i) = IF IsSpace(Point(s, i)) THEN j - i ELSE 0
<1> DEFINE c == Char(s, i)
           wide == {w \in WideSpaces : /\ i + Len(w) <= Len(s)
                                       /\ SubSeq(s, i + 1, i + Len(w)) = w}
           b == s[i + 1]
           Short(x) == x = 32 \/ InRange(x, 9, 13) \/ InRange(x, 28, 31)
<1>1. /\ j - i \in 1..4 /\ Length(b) = j - i /\ IsBytes(c) /\ Len(c) = j - i /\ c = SubSeq(s, i + 1, j)
      /\ \A x \in 1..(j - i) : c[x] = s[i + x]
      /\ CodePoint(c) \in Nat /\ Encode(CodePoint(c)) = c
  BY DEF CharAt
<1>2. SpaceAt(s, i) = IF Short(b) THEN 1 ELSE IF wide # {} THEN Len(CHOOSE w \in wide : TRUE) ELSE 0
  BY DEF SpaceAt
<1>3. b \in 0..255 /\ c[1] = b
  <2>1. 1 \in 1..(j - i) /\ i + 1 \in 1..Len(s)
    <3>1. Len(s) \in Nat /\ j - i \in 1..4 /\ i \in Nat /\ j \in Nat /\ j <= Len(s)
      BY <1>1
    <3> QED BY ONLY <3>1
  <2>2. s[i + 1] \in Byte
    BY <2>1
  <2> QED BY <1>1, <2>1, <2>2 DEF Byte
<1>4. Point(s, i) = CodePoint(c)
  BY DEF Point
<1>5. \A w \in wide : w \in WideSpaces /\ w = c
  <2> SUFFICES ASSUME NEW w \in WideSpaces, i + Len(w) <= Len(s), SubSeq(s, i + 1, i + Len(w)) = w
               PROVE  w = c
    OBVIOUS
  <2>1. w \in Seq(Byte) /\ Len(w) \in 2..3 /\ Length(w[1]) = Len(w)
    BY WideIs
  <2>2. w[1] = s[i + 1]
    <3> DEFINE l == Len(w)
    <3>1. l \in Nat /\ i + l <= Len(s) /\ 1 \in 1..l
      BY <2>1
    <3>2. SubSeq(s, i + 1, i + l) = w
      OBVIOUS
    <3> HIDE DEF l
    <3>3. \A x \in 1..l : SubSeq(s, i + 1, i + l)[x] = s[i + x]
      BY <3>1, SubIs
    <3> QED BY <3>1, <3>2, <3>3
  <2>3. i + Len(w) = j
    BY <1>1, <2>1, <2>2
  <2> QED BY <1>1, <2>3
<1>6. c \in WideSpaces => c \in wide
  <2>1. i + Len(c) = j
    BY <1>1
  <2> QED BY <1>1, <2>1
<1> HIDE DEF wide, c, b
<1>7. CASE j - i = 1
  <2>1. b < 128
    BY <1>1, <1>3, <1>7 DEF Length, InRange
  <2>2. CodePoint(c) = b
    <3>1. Len(c) = 1 /\ c[1] = b
      BY <1>1, <1>3, <1>7
    <3> QED BY ONLY <3>1 DEF CodePoint
  <2>3. wide = {}
    <3> SUFFICES ASSUME NEW w \in wide PROVE FALSE
      OBVIOUS
    <3>1. Len(c) \in 2..3
      BY <1>5, WideIs
    <3>2. Len(c) = 1
      BY <1>1, <1>7
    <3> QED BY ONLY <3>1, <3>2
  <2>4. IsSpace(b) <=> Short(b)
    BY <1>3, <2>1 DEF IsSpace, InRange
  <2> QED BY <1>2, <1>4, <1>7, <2>2, <2>3, <2>4
<1>8. CASE j - i # 1
  <2>1. b >= 128
    BY <1>1, <1>3, <1>8 DEF Length
  <2>2. ~Short(b)
    BY <1>3, <2>1 DEF InRange
  <2>3. IsSpace(CodePoint(c)) <=> c \in WideSpaces
    <3>1. CodePoint(c) \notin 0..127
      <4> SUFFICES ASSUME CodePoint(c) \in 0..127 PROVE FALSE
        OBVIOUS
      <4>1. Encode(CodePoint(c)) = <<CodePoint(c)>>
        <5>1. \A x \in 0..127 : Encode(x) = <<x>>
          BY ONLY TRUE DEF Encode
        <5> QED BY <5>1
      <4>2. Len(c) = 1
        BY <1>1, <4>1
      <4> QED BY <1>1, <1>8, <4>2
    <3>2. c \in WideSpaces => IsSpace(CodePoint(c))
      BY WideIs
    <3>3. IsSpace(CodePoint(c)) => Encode(CodePoint(c)) \in WideSpaces
      BY <3>1, WideIs
    <3> QED BY <1>1, <3>2, <3>3
  <2>4. CASE c \in WideSpaces
    <3>1. wide = {c}
      BY <1>5, <1>6, <2>4
    <3>2. (CHOOSE w \in wide : TRUE) = c
      BY <3>1
    <3> QED BY <1>1, <1>2, <1>4, <2>2, <2>3, <2>4, <3>1, <3>2
  <2>5. CASE c \notin WideSpaces
    <3>1. wide = {}
      BY <1>5, <2>5
    <3> QED BY <1>2, <1>4, <2>2, <2>3, <2>5, <3>1
  <2> QED BY <2>4, <2>5
<1> QED BY <1>7, <1>8

-----------------------------------------------------------------------------
(* Strip, without its recursions *)

\* A space takes a byte at least, of the string.
LEMMA SpaceFits ==
  ASSUME NEW s \in Seq(Byte), NEW i \in Nat, i < Len(s)
  PROVE  SpaceAt(s, i) \in Nat /\ i + SpaceAt(s, i) <= Len(s)
<1> DEFINE wide == {w \in WideSpaces : /\ i + Len(w) <= Len(s)
                                       /\ SubSeq(s, i + 1, i + Len(w)) = w}
           b == s[i + 1]
           Short(x) == x = 32 \/ InRange(x, 9, 13) \/ InRange(x, 28, 31)
<1>1. SpaceAt(s, i) = IF Short(b) THEN 1 ELSE IF wide # {} THEN Len(CHOOSE w \in wide : TRUE) ELSE 0
  BY DEF SpaceAt
<1>2. \A w \in wide : Len(w) \in 2..3 /\ i + Len(w) <= Len(s)
  BY WideIs
<1>3. Len(s) \in Nat
  OBVIOUS
<1> HIDE DEF wide, b, Short
<1>4. wide # {} => (CHOOSE w \in wide : TRUE) \in wide
  OBVIOUS
<1> QED BY <1>1, <1>2, <1>3, <1>4

BackOne(s, from, z, e) == /\ \A j \in (z + 1)..(e - 1) : Continues(s[j + 1])
                          /\ z = from \/ ~Continues(s[z + 1])

\* LastChar goes back to a byte that continues none, or to the start.
LEMMA LastCharIs ==
  ASSUME NEW s, NEW from \in Nat, NEW e \in Nat, from < e
  PROVE  LastChar(s, from, e) \in from..(e - 1) /\ BackOne(s, from, LastChar(s, from, e), e)
<1> DEFINE T == {d \in Nat : d <= e - 1 - from /\ (e - 1 - d = from \/ ~Continues(s[(e - 1 - d) + 1]))}
<1>1. PICK d \in T : \A y \in T : ~(y < d)
  <2>1. e - 1 - from \in T /\ T \in SUBSET Nat
    OBVIOUS
  <2> HIDE DEF T
  <2> QED BY <2>1, Least
<1> DEFINE z == e - 1 - d
<1>2. z \in from..(e - 1) /\ (z = from \/ ~Continues(s[z + 1])) /\ d \in Nat
  BY <1>1
<1>3. ASSUME NEW j \in (z + 1)..(e - 1), ~Continues(s[j + 1]) PROVE FALSE
  <2> DEFINE y == e - 1 - j
  <2>1. y \in Nat /\ y < d /\ e - 1 - y = j /\ y <= e - 1 - from
    BY <1>1
  <2>2. y \in T
    <3> HIDE DEF y
    <3> QED BY <1>3, <2>1
  <2> HIDE DEF T, y
  <2> QED BY <1>1, <2>1, <2>2
<1> HIDE DEF z
<1>4. BackOne(s, from, z, e)
  BY <1>2, <1>3 DEF BackOne
<1>5. LastChar(s, from, e) = CHOOSE x \in from..(e - 1) : BackOne(s, from, x, e)
  BY DEF LastChar, BackOne
<1> QED BY <1>2, <1>4, <1>5

Begun(b, s) == \A i \in 0..Len(s) :
  b[i] = IF i < Len(s) /\ SpaceAt(s, i) > 0 THEN b[i + SpaceAt(s, i)] ELSE i
Spaced(s, from, e) == e > from /\ LastChar(s, from, e) + SpaceAt(s, LastChar(s, from, e)) = e
Ended(x, s, from) == \A e \in from..Len(s) :
  x[e] = IF Spaced(s, from, e) THEN x[LastChar(s, from, e)] ELSE e

\* The functions of Strip's two loops exist,
LEMMA BeginExists ==
  ASSUME NEW s \in Seq(Byte)
  PROVE  \E b : b = [i \in 0..Len(s) |-> IF i < Len(s) /\ SpaceAt(s, i) > 0 THEN b[i + SpaceAt(s, i)] ELSE i]
<1> DEFINE N == Len(s)
           stops == {i \in 0..N : ~(i < N /\ SpaceAt(s, i) > 0)}
           base == [i \in 0..N |-> i]
           at == [i \in 0..N |-> i + SpaceAt(s, i)]
           step == [i \in 0..N |-> [r \in 0..N |-> r]]
<1>1. N \in Nat
  OBVIOUS
<1>2. base \in [0..N -> 0..N] /\ step \in [0..N -> [0..N -> 0..N]]
  OBVIOUS
<1>3. \A i \in 0..N : i \notin stops => at[i] \in Nat /\ i < at[i] /\ at[i] <= N
  <2> SUFFICES ASSUME NEW i \in 0..N, i < N, SpaceAt(s, i) > 0
               PROVE  i + SpaceAt(s, i) \in Nat /\ i < i + SpaceAt(s, i) /\ i + SpaceAt(s, i) <= N
    OBVIOUS
  <2>1. SpaceAt(s, i) \in Nat /\ i + SpaceAt(s, i) <= N
    BY SpaceFits
  <2> HIDE DEF N
  <2> QED BY <1>1, <2>1
<1>4. PICK b \in [0..N -> 0..N] : Looks(b, N, stops, base, at, step)
  <2> DEFINE U == 0..N
  <2>1. base \in [0..N -> U] /\ step \in [0..N -> [U -> U]]
    BY <1>2
  <2>2. \E f \in [0..N -> U] : Looks(f, N, stops, base, at, step)
    <3> HIDE DEF N, stops, base, at, step, U
    <3> QED BY <1>1, <1>3, <2>1, LooksAhead
  <2> QED BY <2>2
<1> DEFINE V(i) == IF i < N /\ SpaceAt(s, i) > 0 THEN b[i + SpaceAt(s, i)] ELSE i
<1>5. ASSUME NEW i \in 0..N PROVE b[i] = V(i)
  <2>1. b[i] = IF i \in stops THEN base[i] ELSE step[i][b[at[i]]]
    BY <1>4 DEF Looks
  <2>2. i \in stops <=> ~(i < N /\ SpaceAt(s, i) > 0)
    OBVIOUS
  <2>3. base[i] = i /\ at[i] = i + SpaceAt(s, i)
    OBVIOUS
  <2>4. CASE i \in stops
    <3> HIDE DEF stops, base, N
    <3> QED BY <2>1, <2>2, <2>3, <2>4
  <2>5. CASE i \notin stops
    <3>1. at[i] \in 0..N
      BY <1>1, <1>3, <2>5
    <3>2. b[at[i]] \in 0..N
      BY <1>4, <3>1
    <3>3. step[i][b[at[i]]] = b[at[i]]
      <4> DEFINE v == b[at[i]]
      <4>1. v \in 0..N
        BY <3>2
      <4> HIDE DEF v, N
      <4>2. step[i][v] = v
        BY <4>1
      <4> QED BY <4>2 DEF v
    <3> HIDE DEF stops, base, N, step
    <3> QED BY <2>1, <2>2, <2>3, <2>5, <3>3
  <2> QED BY <2>4, <2>5
<1>6. b = [i \in 0..N |-> b[i]]
  OBVIOUS
<1> HIDE DEF V
<1>7. b = [i \in 0..N |-> V(i)]
  BY <1>5, <1>6
<1> QED BY <1>7 DEF V

\* one looking ahead and one back,
LEMMA EndExists ==
  ASSUME NEW s \in Seq(Byte), NEW from \in 0..Len(s)
  PROVE  \E x : x = [e \in from..Len(s) |->
                       IF e > from /\ LastChar(s, from, e) + SpaceAt(s, LastChar(s, from, e)) = e
                       THEN x[LastChar(s, from, e)] ELSE e]
<1> DEFINE N == Len(s)
           stops == {e \in 0..N : ~Spaced(s, from, e)}
           base == [e \in 0..N |-> e]
           at == [e \in 0..N |-> LastChar(s, from, e)]
           step == [e \in 0..N |-> [r \in 0..N |-> r]]
<1>1. N \in Nat
  OBVIOUS
<1>2. base \in [0..N -> 0..N] /\ step \in [0..N -> [0..N -> 0..N]]
  OBVIOUS
<1>3. \A e \in 0..N : e \notin stops => LastChar(s, from, e) \in from..(e - 1) /\ at[e] \in Nat /\ at[e] < e
  <2> SUFFICES ASSUME NEW e \in 0..N, e > from
               PROVE  LastChar(s, from, e) \in from..(e - 1) /\ LastChar(s, from, e) \in Nat /\ LastChar(s, from, e) < e
    BY DEF Spaced
  <2>1. from \in Nat /\ e \in Nat /\ from < e
    BY <1>1
  <2>2. LastChar(s, from, e) \in from..(e - 1)
    BY <2>1, LastCharIs
  <2> HIDE DEF N
  <2> QED BY <2>1, <2>2
<1>4. PICK y \in [0..N -> 0..N] : Looks(y, N, stops, base, at, step)
  <2> DEFINE U == 0..N
  <2>1. base \in [0..N -> U] /\ step \in [0..N -> [U -> U]]
    BY <1>2
  <2>2. \A e \in 0..N : e \notin stops => at[e] \in Nat /\ at[e] < e
    BY <1>3
  <2>3. \E f \in [0..N -> U] : Looks(f, N, stops, base, at, step)
    <3> HIDE DEF N, stops, base, at, step, U
    <3> QED BY <1>1, <2>1, <2>2, LooksBack
  <2> QED BY <2>3
<1> DEFINE x == [e \in from..N |-> y[e]]
           V(e) == IF Spaced(s, from, e) THEN x[LastChar(s, from, e)] ELSE e
<1>5. ASSUME NEW e \in from..N PROVE x[e] = V(e)
  <2>0. e \in 0..N /\ from \in Nat
    BY <1>1
  <2>1. y[e] = IF e \in stops THEN base[e] ELSE step[e][y[at[e]]]
    BY <1>4, <2>0 DEF Looks
  <2>2. x[e] = y[e] /\ base[e] = e /\ at[e] = LastChar(s, from, e) /\ (e \in stops <=> ~Spaced(s, from, e))
    BY <2>0
  <2>4. CASE e \in stops
    BY <2>1, <2>2, <2>4
  <2>5. CASE e \notin stops
    <3>1. LastChar(s, from, e) \in from..(e - 1)
      BY <1>3, <2>0, <2>5
    <3>2. at[e] \in 0..N /\ at[e] \in from..N
      <4> DEFINE z == LastChar(s, from, e)
      <4>0. from \in Nat /\ e \in Nat /\ e <= N /\ N \in Nat /\ z \in from..(e - 1)
        BY <1>1, <2>0, <3>1
      <4> HIDE DEF z, at, N
      <4>1. z \in 0..N /\ z \in from..N
        BY ONLY <4>0
      <4> QED BY <2>2, <4>1 DEF z
    <3>3. y[at[e]] \in 0..N
      BY <1>4, <3>2
    <3>4. step[e][y[at[e]]] = y[at[e]]
      <4> DEFINE v == y[at[e]]
      <4>1. v \in 0..N
        BY <3>3
      <4> HIDE DEF v, N
      <4>2. step[e][v] = v
        BY <2>0, <4>1
      <4> QED BY <4>2 DEF v
    <3>5. x[at[e]] = y[at[e]]
      BY <3>2
    <3> HIDE DEF stops, base, N, step, x, at
    <3> QED BY <2>1, <2>2, <2>5, <3>4, <3>5
  <2> QED BY <2>4, <2>5
<1>6. x = [e \in from..N |-> x[e]]
  OBVIOUS
<1> HIDE DEF V, x
<1>7. x = [e \in from..N |-> V(e)]
  BY <1>5, <1>6
<1> QED BY <1>7 DEF V, Spaced

\* and Strip is what is between their values.
LEMMA StripIs ==
  ASSUME NEW s \in Seq(Byte)
  PROVE  \E b, x : /\ Begun(b, s) /\ b[0] \in 0..Len(s) /\ Ended(x, s, b[0])
                   /\ Strip(s) = SubSeq(s, b[0] + 1, x[Len(s)])
<1> DEFINE N == Len(s)
           IsBegin(b) == b = [i \in 0..N |-> IF i < N /\ SpaceAt(s, i) > 0 THEN b[i + SpaceAt(s, i)] ELSE i]
           IsEnd(x, from) == x = [e \in from..N |->
                       IF e > from /\ LastChar(s, from, e) + SpaceAt(s, LastChar(s, from, e)) = e
                       THEN x[LastChar(s, from, e)] ELSE e]
           b == CHOOSE b : IsBegin(b)
           x == CHOOSE x : IsEnd(x, b[0])
<1>1. N \in Nat
  OBVIOUS
<1>2. IsBegin(b)
  <2>1. \E f : IsBegin(f)
    BY BeginExists
  <2> HIDE DEF IsBegin
  <2> QED BY <2>1
<1>3. Strip(s) = SubSeq(s, b[0] + 1, x[N])
  BY DEF Strip
<1> HIDE DEF b
<1>4. Begun(b, s)
  <2> DEFINE V(i) == IF i < N /\ SpaceAt(s, i) > 0 THEN b[i + SpaceAt(s, i)] ELSE i
  <2>1. b = [i \in 0..N |-> V(i)]
    BY <1>2
  <2> HIDE DEF V
  <2>2. \A i \in 0..N : b[i] = V(i)
    BY <2>1
  <2> QED BY <2>2 DEF V, Begun
<1>5. b[0] \in 0..N
  <2> DEFINE T == {d \in Nat : \A i \in 0..N : N - i <= d => b[i] \in 0..N}
  <2> HIDE DEF IsBegin
  <2>1. \A i \in 0..N : b[i] = IF i < N /\ SpaceAt(s, i) > 0 THEN b[i + SpaceAt(s, i)] ELSE i
    BY <1>4 DEF Begun
  <2>2. \A i \in 0..N : i < N => SpaceAt(s, i) \in Nat /\ i + SpaceAt(s, i) <= N
    BY SpaceFits
  <2> HIDE DEF N
  <2>3. 0 \in T
    BY <1>1, <2>1
  <2>4. ASSUME NEW d \in Nat, d \in T PROVE d + 1 \in T
    <3> SUFFICES ASSUME NEW i \in 0..N, N - i <= d + 1 PROVE b[i] \in 0..N
      OBVIOUS
    <3>1. CASE i < N /\ SpaceAt(s, i) > 0
      <4> DEFINE j == i + SpaceAt(s, i)
      <4>1. j \in 0..N /\ N - j <= d
        BY <1>1, <2>2, <3>1
      <4>2. b[i] = b[j]
        BY <2>1, <3>1
      <4> HIDE DEF j
      <4> QED BY <2>4, <4>1, <4>2
    <3>2. CASE ~(i < N /\ SpaceAt(s, i) > 0)
      <4>1. b[i] = i
        BY <2>1, <3>2
      <4> QED BY <4>1
    <3> QED BY <3>1, <3>2
  <2>5. \A d \in Nat : d \in T
    <3> HIDE DEF T
    <3> QED BY <2>3, <2>4, Induct
  <2>6. N \in T /\ 0 \in 0..N /\ N - 0 <= N
    <3>1. N \in Nat
      BY <1>1
    <3> HIDE DEF T
    <3> QED BY ONLY <2>5, <3>1
  <2> QED BY <2>6
<1>6. IsEnd(x, b[0])
  <2>1. \E f : IsEnd(f, b[0])
    BY <1>5, EndExists
  <2> HIDE DEF IsEnd
  <2> QED BY <2>1
<1> HIDE DEF x
<1>7. Ended(x, s, b[0])
  <2> DEFINE from == b[0]
             V(e) == IF Spaced(s, from, e) THEN x[LastChar(s, from, e)] ELSE e
  <2>1. x = [e \in from..N |-> V(e)]
    BY <1>6 DEF Spaced
  <2> HIDE DEF V, from
  <2>2. \A e \in from..N : x[e] = V(e)
    BY <2>1
  <2> QED BY <2>2 DEF V, Ended, from
<1> QED BY <1>3, <1>4, <1>5, <1>7

-----------------------------------------------------------------------------
(* Strip, of characters *)

Space(s, u, k) == IsSpace(Point(s, u[k]))

\* A space at a cut is a character that is one.
LEMMA SpaceAtCut ==
  ASSUME NEW s \in Seq(Byte), NEW lone, NEW m, NEW u, Cuts(s, lone, Len(s), m, u), NEW k \in 0..m, k # m
  PROVE  SpaceAt(s, u[k]) = IF Space(s, u, k) THEN u[k + 1] - u[k] ELSE 0
<1> DEFINE i == u[k]
           j == u[k + 1]
<1>1. i \in Nat /\ j \in Nat /\ j <= Len(s) /\ CharAt(s, i, j)
  BY CutsType
<1> HIDE DEF i, j
<1>2. SpaceAt(s, i) = IF IsSpace(Point(s, i)) THEN j - i ELSE 0
  BY <1>1, SpaceIs
<1> QED BY <1>2 DEF Space, i, j

\* The first character that is no space, if there is one from the kth on.
FirstSolid(s, m, u, k, a) == /\ a \in k..m
                             /\ \A x \in k..(a - 1) : Space(s, u, x)
                             /\ a # m => ~Space(s, u, a)

\* Strip begins at the first character that is no space,
LEMMA BeginOfCuts ==
  ASSUME NEW s \in Seq(Byte), NEW lone, NEW m, NEW u, Cuts(s, lone, Len(s), m, u), NEW b, Begun(b, s)
  PROVE  \E a \in 0..m : b[0] = u[a] /\ FirstSolid(s, m, u, 0, a)
<1>1. /\ m \in Nat /\ u[0] = 0 /\ u[m] = Len(s) /\ Len(s) \in Nat
      /\ \A k \in 0..m : u[k] \in Nat /\ u[k] <= Len(s)
      /\ \A k \in 0..m : k # m => k + 1 \in 0..m /\ u[k] < u[k + 1] /\ u[k] < Len(s)
  BY CutsType
<1>2. \A i \in 0..Len(s) : b[i] = IF i < Len(s) /\ SpaceAt(s, i) > 0 THEN b[i + SpaceAt(s, i)] ELSE i
  BY DEF Begun
<1> DEFINE Right(k) == \E a \in k..m : b[u[k]] = u[a] /\ FirstSolid(s, m, u, k, a)
           T == {d \in Nat : \A k \in 0..m : m - k <= d => Right(k)}
<1>3. Right(m)
  <2>1. u[m] \in 0..Len(s) /\ ~(u[m] < Len(s))
    BY <1>1
  <2>2. b[u[m]] = u[m]
    BY <1>2, <2>1
  <2>3. FirstSolid(s, m, u, m, m) /\ m \in m..m
    BY <1>1 DEF FirstSolid
  <2> QED BY <2>2, <2>3
<1>4. ASSUME NEW k \in 0..m, k # m, ~Space(s, u, k) PROVE Right(k)
  <2>1. u[k] \in 0..Len(s)
    BY <1>1
  <2>2. SpaceAt(s, u[k]) = 0
    BY <1>4, SpaceAtCut
  <2>3. b[u[k]] = u[k]
    BY <1>2, <2>1, <2>2
  <2>4. FirstSolid(s, m, u, k, k) /\ k \in k..m
    BY <1>1, <1>4 DEF FirstSolid
  <2> QED BY <2>3, <2>4
<1>5. ASSUME NEW k \in 0..m, k # m, Space(s, u, k), Right(k + 1) PROVE Right(k)
  <2>1. u[k] \in 0..Len(s) /\ u[k] < Len(s) /\ u[k] < u[k + 1] /\ k + 1 \in 0..m /\ u[k] \in Nat /\ u[k + 1] \in Nat
    BY <1>1, <1>5
  <2>2. SpaceAt(s, u[k]) = u[k + 1] - u[k]
    BY <1>5, SpaceAtCut
  <2>3. SpaceAt(s, u[k]) > 0 /\ u[k] + SpaceAt(s, u[k]) = u[k + 1]
    BY <2>1, <2>2
  <2>4. b[u[k]] = b[u[k + 1]]
    BY <1>2, <2>1, <2>3
  <2>5. PICK a \in (k + 1)..m : b[u[k + 1]] = u[a] /\ FirstSolid(s, m, u, k + 1, a)
    BY <1>5
  <2>6. a \in k..m /\ \A x \in k..(a - 1) : x = k \/ x \in (k + 1)..(a - 1)
    BY <1>1, <2>5
  <2>7. FirstSolid(s, m, u, k, a)
    BY <1>5, <2>5, <2>6 DEF FirstSolid
  <2> QED BY <2>4, <2>5, <2>6, <2>7
<1> HIDE DEF Right
<1>6. 0 \in T
  <2>1. \A k \in 0..m : m - k <= 0 => k = m
    BY <1>1
  <2> QED BY <1>3, <2>1
<1>7. ASSUME NEW d \in Nat, d \in T PROVE d + 1 \in T
  <2> SUFFICES ASSUME NEW k \in 0..m, m - k <= d + 1 PROVE Right(k)
    OBVIOUS
  <2>1. k # m => k + 1 \in 0..m /\ m - (k + 1) <= d
    BY <1>1
  <2> QED BY <1>3, <1>4, <1>5, <1>7, <2>1
<1>8. \A d \in Nat : d \in T
  <2> HIDE DEF T
  <2> QED BY <1>6, <1>7, Induct
<1>9. Right(0)
  <2>1. m \in T
    <3> HIDE DEF T
    <3> QED BY <1>1, <1>8
  <2>2. 0 \in 0..m /\ m - 0 <= m
    BY <1>1
  <2> QED BY <2>1, <2>2
<1> QED BY <1>1, <1>9 DEF Right

\* The end of the last character that is none, if there is one from the ath to the kth.
LastSolid(s, u, a, k, z) == /\ z \in a..k
                            /\ \A x \in z..(k - 1) : Space(s, u, x)
                            /\ z # a => ~Space(s, u, z - 1)

\* LastChar goes back one character.
LEMMA LastCharOfCut ==
  ASSUME NEW s \in Seq(Byte), NEW lone, NEW m, NEW u, Cuts(s, lone, Len(s), m, u),
         NEW a \in 0..m, NEW k \in 0..m, a <= k, k # m
  PROVE  LastChar(s, u[a], u[k + 1]) = u[k] /\ u[a] < u[k + 1] /\ u[a] <= u[k]
<1> DEFINE from == u[a]
           i == u[k]
           j == u[k + 1]
           z == LastChar(s, from, j)
<1>1. from \in Nat /\ i \in Nat /\ j \in Nat /\ i < j /\ CharAt(s, i, j)
  BY CutsType
<1>2. from <= i
  <2>1. a = k \/ a < k
    <3>1. m \in Nat
      BY CutsType
    <3> QED BY <3>1
  <2>2. a < k => u[a] < u[k]
    BY CutsGrow
  <2> QED BY <1>1, <2>1, <2>2
<1> HIDE DEF from, i, j
<1>3. from < j
  BY <1>1, <1>2
<1>4. z \in from..(j - 1) /\ BackOne(s, from, z, j)
  BY <1>1, <1>3, LastCharIs
<1> HIDE DEF z
<1>5. ~(z < i)
  <2> SUFFICES ASSUME z < i PROVE FALSE
    OBVIOUS
  <2>1. i \in (z + 1)..(j - 1)
    BY <1>1, <1>4
  <2>2. Continues(s[i + 1])
    BY <1>4, <2>1 DEF BackOne
  <2> QED BY <1>1, <2>2 DEF CharAt
<1>6. ~(i < z)
  <2> SUFFICES ASSUME i < z PROVE FALSE
    OBVIOUS
  <2>1. z + 1 \in (i + 2)..j /\ z # from
    BY <1>1, <1>2, <1>4
  <2>2. Continues(s[z + 1])
    BY <1>1, <2>1 DEF CharAt
  <2> QED BY <1>4, <2>1, <2>2 DEF BackOne
<1>7. z = i
  BY <1>1, <1>4, <1>5, <1>6
<1> QED BY <1>2, <1>3, <1>7 DEF z, from, i, j

\* and ends after the last one.
LEMMA EndOfCuts ==
  ASSUME NEW s \in Seq(Byte), NEW lone, NEW m, NEW u, Cuts(s, lone, Len(s), m, u),
         NEW a \in 0..m, NEW x, Ended(x, s, u[a])
  PROVE  \E z \in a..m : x[Len(s)] = u[z] /\ LastSolid(s, u, a, m, z)
<1>1. /\ m \in Nat /\ u[m] = Len(s) /\ Len(s) \in Nat
      /\ \A k \in 0..m : u[k] \in Nat /\ u[k] <= Len(s)
      /\ \A k \in 0..m : k # m => k + 1 \in 0..m /\ u[k] < u[k + 1] /\ u[k] < Len(s)
  BY CutsType
<1>2. \A e \in u[a]..Len(s) : x[e] = IF Spaced(s, u[a], e) THEN x[LastChar(s, u[a], e)] ELSE e
  BY DEF Ended
<1> DEFINE Right(k) == \E z \in a..k : x[u[k]] = u[z] /\ LastSolid(s, u, a, k, z)
           T == {d \in Nat : a + d <= m => Right(a + d)}
<1>3. Right(a)
  <2>1. u[a] \in u[a]..Len(s) /\ ~Spaced(s, u[a], u[a])
    BY <1>1 DEF Spaced
  <2>2. x[u[a]] = u[a]
    BY <1>2, <2>1
  <2>3. LastSolid(s, u, a, a, a) /\ a \in a..a
    BY <1>1 DEF LastSolid
  <2> QED BY <2>2, <2>3
<1>4. ASSUME NEW k \in 0..m, a <= k, k # m, Right(k) PROVE Right(k + 1)
  <2> DEFINE j == u[k + 1]
  <2>1. LastChar(s, u[a], j) = u[k] /\ u[a] < j /\ u[a] <= u[k]
    BY <1>4, LastCharOfCut
  <2>2. /\ u[k] \in Nat /\ j \in Nat /\ u[a] \in Nat /\ j <= Len(s) /\ u[k] < j
        /\ k + 1 \in 0..m
    BY <1>1, <1>4
  <2>3. SpaceAt(s, u[k]) = IF Space(s, u, k) THEN j - u[k] ELSE 0
    BY <1>4, SpaceAtCut
  <2> HIDE DEF j
  <2>4. Spaced(s, u[a], j) <=> Space(s, u, k)
    <3>1. Spaced(s, u[a], j) <=> u[k] + SpaceAt(s, u[k]) = j
      BY <2>1, <2>2 DEF Spaced
    <3> QED BY <2>2, <2>3, <3>1
  <2>5. x[j] = IF Space(s, u, k) THEN x[u[k]] ELSE j
    <3>1. j \in u[a]..Len(s)
      BY <1>1, <2>1, <2>2
    <3> QED BY <1>2, <2>1, <2>4, <3>1
  <2>6. CASE Space(s, u, k)
    <3>1. PICK z \in a..k : x[u[k]] = u[z] /\ LastSolid(s, u, a, k, z)
      BY <1>4
    <3>2. z \in a..(k + 1) /\ \A y \in z..((k + 1) - 1) : y = k \/ y \in z..(k - 1)
      BY <1>1, <3>1
    <3>3. LastSolid(s, u, a, k + 1, z)
      BY <2>6, <3>1, <3>2 DEF LastSolid
    <3> QED BY <2>5, <2>6, <3>1, <3>2, <3>3 DEF j
  <2>7. CASE ~Space(s, u, k)
    <3>1. k + 1 \in a..(k + 1) /\ (k + 1) - 1 = k /\ \A y \in (k + 1)..((k + 1) - 1) : FALSE
      BY <1>1, <1>4
    <3>2. LastSolid(s, u, a, k + 1, k + 1)
      BY <2>7, <3>1 DEF LastSolid
    <3> QED BY <2>5, <2>7, <3>1, <3>2 DEF j
  <2> QED BY <2>6, <2>7
<1> HIDE DEF Right
<1>5. 0 \in T
  <2>1. a + 0 = a
    BY <1>1
  <2> QED BY <1>3, <2>1
<1>6. ASSUME NEW d \in Nat, d \in T PROVE d + 1 \in T
  <2> SUFFICES ASSUME a + (d + 1) <= m PROVE Right(a + (d + 1))
    OBVIOUS
  <2>1. a + d \in 0..m /\ a <= a + d /\ a + d # m /\ a + d <= m /\ (a + d) + 1 = a + (d + 1)
    BY <1>1
  <2>2. Right(a + d)
    BY <1>6, <2>1
  <2>3. Right((a + d) + 1)
    BY <1>4, <2>1, <2>2
  <2> QED BY <2>1, <2>3
<1>7. \A d \in Nat : d \in T
  <2> HIDE DEF T
  <2> QED BY <1>5, <1>6, Induct
<1>8. Right(m)
  <2>1. m - a \in Nat /\ a + (m - a) = m /\ m <= m
    BY <1>1
  <2>2. m - a \in T
    BY <1>7, <2>1
  <2> QED BY <2>1, <2>2
<1> QED BY <1>1, <1>8 DEF Right

\* It cuts s between two characters.
LEMMA StripOfCuts ==
  ASSUME NEW s \in Seq(Byte), NEW lone, NEW m, NEW u, Cuts(s, lone, Len(s), m, u)
  PROVE  \E a \in 0..m : \E z \in a..m : /\ Strip(s) = SubSeq(s, u[a] + 1, u[z])
                                         /\ FirstSolid(s, m, u, 0, a) /\ LastSolid(s, u, a, m, z)
<1>1. PICK b, x : /\ Begun(b, s) /\ Ended(x, s, b[0])
                  /\ Strip(s) = SubSeq(s, b[0] + 1, x[Len(s)])
  BY StripIs
<1>2. PICK a \in 0..m : b[0] = u[a] /\ FirstSolid(s, m, u, 0, a)
  BY <1>1, BeginOfCuts
<1>3. Ended(x, s, u[a])
  BY <1>1, <1>2
<1>4. PICK z \in a..m : x[Len(s)] = u[z] /\ LastSolid(s, u, a, m, z)
  BY <1>3, EndOfCuts
<1> QED BY <1>1, <1>2, <1>4

-----------------------------------------------------------------------------
\* Some of the characters of s are decoded to their part of the text.
LEMMA DecodedPart ==
  ASSUME NEW s \in Seq(Byte), NEW lone, NEW m, NEW u, Cuts(s, lone, Len(s), m, u),
         NEW a \in 0..m, NEW z \in a..m
  PROVE  LET r == SubSeq(s, u[a] + 1, u[z])
         IN Decoded(r).valid /\ Decoded(r).text = SubSeq(PointsOf(s, m, u), a + 1, z)
<1> DEFINE r == SubSeq(s, u[a] + 1, u[z])
           l == z - a
           v == [k \in 0..l |-> u[a + k] - u[a]]
<1>1. /\ m \in Nat /\ Len(s) \in Nat
      /\ \A k \in 0..m : u[k] \in Nat /\ u[k] <= Len(s)
      /\ \A k \in 0..m : k # m => /\ k \in 0..(m - 1) /\ k + 1 \in 0..m
                                  /\ u[k] < u[k + 1]
                                  /\ CharAt(s, u[k], u[k + 1])
                                  /\ Passes(SubSeq(s, u[k] + 1, u[k + 1]), lone)
  BY CutsType
<1>2. l \in Nat /\ a \in Nat /\ z \in 0..m /\ a + l = z
  BY <1>1
<1>3. \A k \in 0..l : a + k \in 0..m /\ (k # l => a + k # m /\ k + 1 \in 0..l)
  BY <1>1, <1>2
<1>4. \A k \in 0..m : \A j \in 0..m : k <= j => u[k] <= u[j]
  <2> SUFFICES ASSUME NEW k \in 0..m, NEW j \in 0..m, k <= j PROVE u[k] <= u[j]
    OBVIOUS
  <2>1. k = j \/ k < j
    BY <1>1
  <2>2. k < j => u[k] < u[j]
    BY CutsGrow
  <2> QED BY <1>1, <2>1, <2>2
<1>5. u[a] \in Nat /\ u[z] \in Nat /\ u[a] <= u[z] /\ u[z] <= Len(s)
  <2>1. a <= z
    BY <1>1
  <2> QED BY <1>1, <1>2, <1>4, <2>1
<1>6. /\ r \in Seq(Byte) /\ Len(r) = u[z] - u[a]
      /\ \A x \in 1..(u[z] - u[a]) : r[x] = s[u[a] + x]
  <2> DEFINE i == u[a]
             j == u[z]
  <2>1. i \in Nat /\ j \in Nat /\ i <= j /\ j <= Len(s)
    BY <1>5
  <2>2. /\ SubSeq(s, i + 1, j) \in Seq(Byte) /\ Len(SubSeq(s, i + 1, j)) = j - i
        /\ \A x \in 1..(j - i) : SubSeq(s, i + 1, j)[x] = s[i + x]
    <3> HIDE DEF i, j
    <3> QED BY <2>1, SubBytes
  <2> QED BY <2>2
<1> HIDE DEF r, l
<1>7. ASSUME NEW k \in 0..l PROVE v[k] = u[a + k] - u[a] /\ v[k] \in 0..Len(r)
  <2>1. a + k \in 0..m /\ a <= a + k /\ a + k <= z
    BY <1>2, <1>3
  <2>2. u[a] <= u[a + k] /\ u[a + k] <= u[z] /\ u[a + k] \in Nat
    BY <1>1, <1>2, <1>4, <2>1
  <2> QED BY <1>5, <1>6, <2>2
<1>8. v[0] = 0 /\ v[l] = Len(r)
  <2>1. a + 0 = a /\ 0 \in 0..l /\ l \in 0..l /\ u[a] - u[a] = 0
    BY <1>2, <1>5
  <2> QED BY <1>2, <1>6, <1>7, <2>1
<1>9. v \in [0..l -> 0..Len(r)]
  BY <1>7
<1>10. DOMAIN v = 0..l
  OBVIOUS
<1> HIDE DEF v
\* The same bytes.
<1>11. ASSUME NEW k \in 0..l, k # l
       PROVE  /\ v[k] \in Nat /\ v[k + 1] \in Nat /\ v[k] < v[k + 1] /\ v[k + 1] <= Len(r)
              /\ SubSeq(r, v[k] + 1, v[k + 1]) = SubSeq(s, u[a + k] + 1, u[a + k + 1])
  <2> DEFINE c == u[a + k]
             d == u[a + k + 1]
             f == u[a]
             p1 == v[k]
             q1 == v[k + 1]
  <2>1. /\ c \in Nat /\ d \in Nat /\ c < d /\ d <= Len(s) /\ f <= c /\ f \in Nat
        /\ p1 = c - f /\ q1 = d - f /\ q1 <= Len(r) /\ Len(r) \in Nat
    <3>1. a + k \in 0..m /\ a + k # m /\ a <= a + k /\ k + 1 \in 0..l /\ a + (k + 1) = a + k + 1
      BY <1>2, <1>3, <1>11
    <3>2. c \in Nat /\ d \in Nat /\ c < d /\ d <= Len(s) /\ f <= c /\ f \in Nat
      BY <1>1, <1>4, <1>5, <3>1
    <3>3. v[k + 1] = u[a + (k + 1)] - u[a] /\ v[k + 1] \in 0..Len(r)
      BY <1>7, <3>1
    <3>4. Len(r) \in Nat
      BY <1>6
    <3> QED BY <1>7, <3>1, <3>2, <3>3, <3>4
  <2> HIDE DEF c, d, f, p1, q1
  <2>2. p1 \in Nat /\ q1 \in Nat /\ p1 < q1 /\ p1 <= q1 /\ q1 - p1 = d - c /\ c <= d
    BY <2>1
  <2>3. /\ SubSeq(r, p1 + 1, q1) \in Seq(Byte) /\ Len(SubSeq(r, p1 + 1, q1)) = q1 - p1
        /\ \A x \in 1..(q1 - p1) : SubSeq(r, p1 + 1, q1)[x] = r[p1 + x]
    BY <1>6, <2>1, <2>2, SubBytes
  <2>4. /\ SubSeq(s, c + 1, d) \in Seq(Byte) /\ Len(SubSeq(s, c + 1, d)) = d - c
        /\ \A x \in 1..(d - c) : SubSeq(s, c + 1, d)[x] = s[c + x]
    BY <2>1, <2>2, SubBytes
  <2>5. \A x \in 1..(d - c) : r[p1 + x] = s[c + x]
    <3> SUFFICES ASSUME NEW x \in 1..(d - c) PROVE r[p1 + x] = s[c + x]
      OBVIOUS
    <3>1. p1 + x \in 1..Len(r) /\ f + (p1 + x) = c + x
      BY <2>1, <2>2
    <3>2. \A y \in 1..Len(r) : r[y] = s[f + y]
      BY <1>6 DEF f
    <3> QED BY <3>1, <3>2
  <2>6. SubSeq(r, p1 + 1, q1) = SubSeq(s, c + 1, d)
    <3> DEFINE g == SubSeq(r, p1 + 1, q1)
               h == SubSeq(s, c + 1, d)
    <3>1. g \in Seq(Byte) /\ h \in Seq(Byte) /\ Len(g) = Len(h) /\ \A x \in 1..Len(g) : g[x] = h[x]
      BY <2>2, <2>3, <2>4, <2>5
    <3> HIDE DEF g, h
    <3>2. g = h
      BY ONLY <3>1, SeqEqual
    <3> QED BY <3>2 DEF g, h
  <2> QED BY <2>1, <2>2, <2>6 DEF c, d, f, p1, q1
<1>12. ASSUME NEW k \in 0..l, k # l
       PROVE  /\ Passes(SubSeq(r, v[k] + 1, v[k + 1]), lone)
              /\ CharAt(r, v[k], v[k + 1]) /\ Point(r, v[k]) = Point(s, u[a + k])
  <2>1. a + k \in 0..m /\ a + k # m
    BY <1>3, <1>12
  <2>2. CharAt(s, u[a + k], u[a + k + 1]) /\ Passes(SubSeq(s, u[a + k] + 1, u[a + k + 1]), lone)
    BY <1>1, <2>1
  <2>3. Passes(SubSeq(r, v[k] + 1, v[k + 1]), lone)
    BY <1>11, <1>12, <2>2
  <2>4. CharAt(r, v[k], v[k + 1])
    <3> DEFINE i == v[k]
               j == v[k + 1]
    <3>1. i \in Nat /\ j \in Nat /\ i < j /\ j <= Len(r) /\ Passes(SubSeq(r, i + 1, j), lone)
      BY <1>11, <1>12, <2>3
    <3> HIDE DEF i, j
    <3>2. CharAt(r, i, j)
      BY <1>6, <3>1, CharIsAt
    <3> QED BY <3>2 DEF i, j
  <2>5. Char(r, v[k]) = SubSeq(r, v[k] + 1, v[k + 1]) /\ Char(s, u[a + k]) = SubSeq(s, u[a + k] + 1, u[a + k + 1])
    BY <2>2, <2>4 DEF CharAt
  <2> QED BY <1>11, <1>12, <2>3, <2>4, <2>5 DEF Point
<1>13. Cuts(r, lone, Len(r), l, v)
  <2>1. \A k \in 0..(l - 1) : k \in 0..l /\ k # l
    BY <1>2
  <2>2. \A k \in 0..(l - 1) : /\ v[k] < v[k + 1]
                              /\ Passes(SubSeq(r, v[k] + 1, v[k + 1]), lone)
                              /\ CharAt(r, v[k], v[k + 1])
    BY <1>11, <1>12, <2>1
  <2> QED BY <1>2, <1>8, <1>9, <2>2 DEF Cuts
<1>14. Decoded(r).valid /\ Decoded(r).text = PointsOf(r, l, v)
  BY <1>6, <1>13, DecodedOfCuts
<1>15. PointsOf(r, l, v) = SubSeq(PointsOf(s, m, u), a + 1, z)
  <2> DEFINE chars == PointsOf(s, m, u)
             g == PointsOf(r, l, v)
             h == SubSeq(chars, a + 1, z)
  <2>1. chars \in Seq(Nat) /\ Len(chars) = m /\ \A x \in 1..m : chars[x] = Point(s, u[x - 1])
    BY PointsType
  <2>2. g \in Seq(Nat) /\ Len(g) = l /\ \A x \in 1..l : g[x] = Point(r, v[x - 1])
    BY <1>6, <1>13, PointsType
  <2> HIDE DEF chars, g
  <2>3. h \in Seq(Nat) /\ Len(h) = l /\ \A x \in 1..l : h[x] = chars[a + x]
    <3>1. a + 1 \in Int /\ z \in Int /\ z - (a + 1) + 1 = l /\ (a + 1 <= z => z - (a + 1) + 1 = l) /\ (~(a + 1 <= z) => l = 0)
      BY <1>2
    <3>2. \A x \in (a + 1)..z : chars[x] \in Nat
      <4>1. \A x \in (a + 1)..z : x \in 1..m
        BY <1>1, <1>2
      <4> QED BY <2>1, <4>1
    <3>3. /\ h \in Seq(Nat) /\ Len(h) = IF a + 1 <= z THEN z - (a + 1) + 1 ELSE 0
          /\ \A x \in 1..(z - (a + 1) + 1) : h[x] = chars[(a + 1) + x - 1]
      BY <3>1, <3>2, SubSeqProperties
    <3>4. \A x \in 1..l : (a + 1) + x - 1 = a + x
      BY <1>2
    <3> HIDE DEF h
    <3> QED BY <3>1, <3>3, <3>4
  <2> HIDE DEF h
  <2>4. \A x \in 1..l : g[x] = h[x]
    <3> SUFFICES ASSUME NEW x \in 1..l PROVE g[x] = h[x]
      OBVIOUS
    <3>1. x - 1 \in 0..l /\ x - 1 # l /\ a + x \in 1..m /\ (a + x) - 1 = a + (x - 1)
      BY <1>1, <1>2
    <3>2. Point(r, v[x - 1]) = Point(s, u[a + (x - 1)])
      BY <1>12, <3>1
    <3> QED BY <2>1, <2>2, <2>3, <3>1, <3>2
  <2>5. g = h
    BY <2>2, <2>3, <2>4, SeqEqual
  <2> QED BY <2>5 DEF g, h, chars
<1> QED BY <1>14, <1>15 DEF r

\* strip, of characters.
LEMMA StripsCharacters ==
  ASSUME NEW s \in Seq(Byte), NEW lone, NEW m, NEW u, Cuts(s, lone, Len(s), m, u)
  PROVE  /\ StripsTo(Decoded(s).text, Decoded(Strip(s)).text)
         /\ Decoded(Strip(s)).valid
<1> DEFINE chars == PointsOf(s, m, u)
           solid == {k \in DOMAIN chars : ~IsSpace(chars[k])}
<1>1. PICK a \in 0..m : \E z \in a..m : /\ Strip(s) = SubSeq(s, u[a] + 1, u[z])
                                        /\ FirstSolid(s, m, u, 0, a) /\ LastSolid(s, u, a, m, z)
  BY StripOfCuts
<1>2. PICK z \in a..m : /\ Strip(s) = SubSeq(s, u[a] + 1, u[z])
                        /\ FirstSolid(s, m, u, 0, a) /\ LastSolid(s, u, a, m, z)
  BY <1>1
<1>3. Decoded(Strip(s)).valid /\ Decoded(Strip(s)).text = SubSeq(chars, a + 1, z)
  BY <1>2, DecodedPart
<1>4. Decoded(s).text = chars
  BY DecodedOfCuts
<1>5. m \in Nat /\ chars \in Seq(Nat) /\ Len(chars) = m /\ \A x \in 1..m : chars[x] = Point(s, u[x - 1])
  BY PointsType
<1> HIDE DEF chars
<1>6. \A k : k \in solid <=> k \in 1..m /\ ~Space(s, u, k - 1)
  BY <1>5 DEF Space
<1> HIDE DEF solid
<1>7. /\ \A x \in 0..(a - 1) : Space(s, u, x)
      /\ a # m => ~Space(s, u, a)
      /\ \A x \in z..(m - 1) : Space(s, u, x)
      /\ z # a => ~Space(s, u, z - 1)
  BY <1>2 DEF FirstSolid, LastSolid
<1>8. solid \subseteq (a + 1)..z
  <2> SUFFICES ASSUME NEW k \in solid PROVE k \in (a + 1)..z
    OBVIOUS
  <2>1. k \in 1..m /\ ~Space(s, u, k - 1)
    BY <1>6
  <2>2. k - 1 \notin 0..(a - 1) /\ k - 1 \notin z..(m - 1)
    BY <1>7, <2>1
  <2> QED BY <1>5, <2>1, <2>2
<1>9. CASE a = m
  <2>1. z = m /\ (a + 1)..z = {}
    BY <1>5, <1>9
  <2>2. solid = {}
    BY <1>8, <2>1
  <2>3. SubSeq(chars, a + 1, z) = <<>>
    <3>1. a + 1 \in Int /\ z \in Int /\ z < a + 1
      BY <1>5, <1>9, <2>1
    <3> QED BY ONLY <3>1, SubSeqEmpty
  <2>4. StripsTo(chars, SubSeq(chars, a + 1, z))
    BY <2>2, <2>3 DEF StripsTo, solid
  <2> QED BY <1>3, <1>4, <2>4
<1>10. CASE a # m
  <2>1. a + 1 \in 1..m /\ (a + 1) - 1 = a
    BY <1>5, <1>10
  <2>2. a + 1 \in solid
    BY <1>6, <1>7, <1>10, <2>1
  <2>3. z # a
    <3>1. a + 1 \in (a + 1)..z
      BY <1>8, <2>2
    <3> QED BY <1>5, <3>1
  <2>4. z \in 1..m
    BY <1>5, <2>3
  <2>5. z \in solid
    BY <1>6, <1>7, <2>3, <2>4
  <2> DEFINE inner == SubSeq(chars, a + 1, z)
  <2> HIDE DEF inner
  <2>6. \E c, d \in solid : solid \subseteq c..d /\ inner = SubSeq(chars, c, d)
    BY <1>8, <2>2, <2>5 DEF inner
  <2>7. StripsTo(chars, inner)
    BY <2>2, <2>6 DEF StripsTo, solid
  <2> QED BY <1>3, <1>4, <2>7 DEF inner
<1> QED BY <1>9, <1>10

-----------------------------------------------------------------------------
(* Lengths and surrogates *)

\* There is a code point per character.
LEMMA LengthOfDecoded ==
  ASSUME NEW s \in Seq(Byte), NEW lone, NEW m, NEW u, Cuts(s, lone, Len(s), m, u)
  PROVE  Len(Decoded(s).text) = m
<1>1. Decoded(s).text = PointsOf(s, m, u)
  BY DecodedOfCuts
<1>2. Len(PointsOf(s, m, u)) = m
  BY PointsType
<1> QED BY <1>1, <1>2

\* len() counts the characters.
LEMMA LengthOfCuts ==
  ASSUME NEW s \in Seq(Byte), NEW lone, NEW m, NEW u, Cuts(s, lone, Len(s), m, u)
  PROVE  Utf8Length(s) = m
<1> DEFINE S == {i \in DOMAIN s : ~Continues(s[i])}
           f == [k \in 1..m |-> u[k - 1] + 1]
<1>1. /\ m \in Nat /\ Len(s) \in Nat
      /\ \A k \in 0..m : u[k] \in Nat
      /\ \A k \in 0..m : k # m => u[k] < Len(s)
  BY CutsType
<1>2. \A k \in 1..m : k - 1 \in 0..m /\ k - 1 # m
  BY <1>1
<1>3. \A i \in Nat : i < Len(s) => (~Continues(s[i + 1]) <=> \E k \in 0..m : k # m /\ u[k] = i)
  BY CutsAreWhere
<1>4. f \in [1..m -> S]
  <2> SUFFICES ASSUME NEW k \in 1..m PROVE u[k - 1] + 1 \in S
    OBVIOUS
  <2> DEFINE i == u[k - 1]
  <2>1. i \in Nat /\ i < Len(s) /\ ~Continues(s[i + 1])
    BY <1>1, <1>2, <1>3
  <2> HIDE DEF i
  <2>2. i + 1 \in DOMAIN s
    BY <1>1, <2>1
  <2> QED BY <2>1, <2>2 DEF i
<1>5. \A a, b \in 1..m : f[a] = f[b] => a = b
  <2> SUFFICES ASSUME NEW a \in 1..m, NEW b \in 1..m, u[a - 1] + 1 = u[b - 1] + 1 PROVE a = b
    OBVIOUS
  <2>1. u[a - 1] = u[b - 1] /\ a - 1 \in 0..m /\ b - 1 \in 0..m /\ u[a - 1] \in Nat /\ u[b - 1] \in Nat
    BY <1>1, <1>2
  <2>2. ~(a - 1 < b - 1)
    <3>1. a - 1 < b - 1 => u[a - 1] < u[b - 1]
      BY <2>1, CutsGrow
    <3> QED BY <2>1, <3>1
  <2>3. ~(b - 1 < a - 1)
    <3>1. b - 1 < a - 1 => u[b - 1] < u[a - 1]
      BY <2>1, CutsGrow
    <3> QED BY <2>1, <3>1
  <2> QED BY <2>2, <2>3
<1>6. \A i \in S : \E k \in 1..m : f[k] = i
  <2> SUFFICES ASSUME NEW i \in DOMAIN s, ~Continues(s[i]) PROVE \E k \in 1..m : f[k] = i
    OBVIOUS
  <2>1. i - 1 \in Nat /\ i - 1 < Len(s) /\ (i - 1) + 1 = i
    BY <1>1
  <2>2. PICK k \in 0..m : k # m /\ u[k] = i - 1
    BY <1>3, <2>1
  <2>3. k + 1 \in 1..m /\ (k + 1) - 1 = k
    BY <1>1, <2>2
  <2>4. f[k + 1] = i
    BY <2>1, <2>2, <2>3
  <2> QED BY <2>3, <2>4
<1> HIDE DEF S, f
<1>7. ExistsBijection(1..m, S)
  BY <1>4, <1>5, <1>6 DEF ExistsBijection, Bijection, Injection, Surjection, IsInjective
<1>8. Cardinality(S) = Cardinality(1..m) /\ Cardinality(1..m) = m
  <2>1. IsFiniteSet(1..m) /\ Cardinality(1..m) = m
    BY <1>1, FS_Interval
  <2> QED BY <1>7, <2>1, FS_Bijection
<1>9. Utf8Length(s) = Cardinality(S)
  BY DEF Utf8Length, S
<1> QED BY <1>8, <1>9

\* A character of three bytes, and a surrogate's number.
LEMMA AfterThree ==
  ASSUME NEW c, NEW lone, Passes(c, lone), Len(c) = 3, c[2] \in Nat, c[3] \in Nat
  PROVE  Continues(c[2]) /\ Continues(c[3])
BY DEF Passes, WellFormed, Surrogate, InRange, Continues

\* A continuation byte carries six bits.
LEMMA SixOf ==
  ASSUME NEW b \in Nat, Continues(b)
  PROVE  b \in 128..191 /\ b % 64 = b - 128
BY DEF Continues, InRange

\* The three bytes that are let through for a surrogate carry one.
LEMMA SurrogatePoint ==
  ASSUME NEW c, NEW lone, Passes(c, lone), Len(c) = 3, c[1] = 237, c[2] \in Nat, c[3] \in Nat,
         c[2] >= 160
  PROVE  IsSurrogate(CodePoint(c))
<1> DEFINE a == c[2]
           b == c[3]
<1>1. Continues(a) /\ Continues(b)
  BY AfterThree
<1>2. CodePoint(c) = ((237 % 16) * 64 + (a % 64)) * 64 + (b % 64)
  BY DEF CodePoint, Bits
<1>3. a \in Nat /\ b \in Nat /\ a >= 160
  OBVIOUS
<1> HIDE DEF a, b
<1>4. a \in 128..191 /\ a % 64 = a - 128 /\ b \in 128..191 /\ b % 64 = b - 128
  BY <1>1, <1>3, SixOf
<1>5. 237 % 16 = 13
  OBVIOUS
<1>6. 55296 <= CodePoint(c) /\ CodePoint(c) <= 57343
  BY ONLY <1>2, <1>3, <1>4, <1>5
<1> QED BY <1>6 DEF IsSurrogate, InRange

\* A surrogate's bytes, by two of them.
LEMMA SurrogateIs ==
  ASSUME NEW s \in Seq(Byte), NEW lone, NEW i \in Nat, NEW j \in Nat, i < j, j <= Len(s),
         Passes(SubSeq(s, i + 1, j), lone)
  PROVE  IsSurrogate(Point(s, i)) <=> s[i + 1] = 237 /\ i + 2 <= Len(s) /\ s[i + 2] >= 160
<1> DEFINE c == Char(s, i)
<1>1. /\ j - i \in 1..4 /\ Need(s[i + 1]) = j - i /\ c = SubSeq(s, i + 1, j) /\ Len(c) = j - i
      /\ \A x \in 1..(j - i) : c[x] = s[i + x]
      /\ \A x \in 1..Len(c) : c[x] \in 0..255
      /\ IsSurrogate(CodePoint(c)) => Surrogate(c)
  <2>1. CharAt(s, i, j)
    BY CharIsAt
  <2> HIDE DEF c
  <2>2. /\ j - i \in 1..4 /\ Need(s[i + 1]) = j - i /\ c = SubSeq(s, i + 1, j) /\ Len(c) = j - i
        /\ \A x \in 1..(j - i) : c[x] = s[i + x]
        /\ IsSurrogate(CodePoint(c)) => Surrogate(c)
        /\ IsBytes(c)
    BY ONLY <2>1 DEF CharAt, c
  <2> QED BY ONLY <2>2 DEF IsBytes
<1>2. Passes(c, lone)
  BY <1>1
<1>3. Point(s, i) = CodePoint(c)
  BY DEF Point
<1> HIDE DEF c
<1>4. Len(s) \in Nat
  OBVIOUS
<1>5. ASSUME IsSurrogate(CodePoint(c)) PROVE s[i + 1] = 237 /\ i + 2 <= Len(s) /\ s[i + 2] >= 160
  <2>1. Len(c) = 3 /\ c[1] = 237 /\ InRange(c[2], 160, 191)
    BY <1>1, <1>5 DEF Surrogate
  <2>2. c[1] = s[i + 1] /\ c[2] = s[i + 2] /\ i + 2 <= Len(s)
    BY <1>1, <1>4, <2>1
  <2> QED BY <2>1, <2>2 DEF InRange
<1>6. ASSUME s[i + 1] = 237, i + 2 <= Len(s), s[i + 2] >= 160 PROVE IsSurrogate(CodePoint(c))
  <2>1. j - i = 3
    <3>1. Need(237) = 3
      BY DEF Need, InRange
    <3> QED BY <1>1, <1>6, <3>1
  <2>2. Len(c) = 3 /\ c[1] = 237 /\ c[2] >= 160 /\ c[2] \in Nat /\ c[3] \in Nat
    <3>1. Len(c) = 3
      BY <1>1, <2>1
    <3>2. c[1] = s[i + 1] /\ c[2] = s[i + 2]
      BY <1>1, <2>1
    <3>3. c[2] \in 0..255 /\ c[3] \in 0..255
      BY ONLY <1>1, <3>1
    <3>4. c[2] \in Nat /\ c[3] \in Nat
      <4>1. \A b \in 0..255 : b \in Nat
        OBVIOUS
      <4> QED BY ONLY <3>3, <4>1, Zenon
    <3> QED BY <1>6, <3>1, <3>2, <3>4
  <2> QED BY ONLY <1>2, <2>2, SurrogatePoint
<1> QED BY <1>3, <1>5, <1>6

\* The first run of some positions.
LEMMA FirstRunIs ==
  ASSUME NEW m \in Nat, NEW lone \in SUBSET (1..m)
  PROVE  PointsAtFirst(FirstRun(lone), lone)
<1>1. CASE lone = {}
  BY <1>1 DEF PointsAtFirst, FirstRun
<1>2. CASE lone # {}
  <2> DEFINE first == CHOOSE k \in lone : \A j \in lone : k <= j
             LastIn(k) == first..k \subseteq lone /\ k + 1 \notin lone
             last == CHOOSE k \in lone : LastIn(k)
  <2>1. first \in lone /\ \A j \in lone : first <= j
    <3>1. lone \in SUBSET Nat
      OBVIOUS
    <3>2. PICK x \in lone : \A y \in lone : ~(y < x)
      BY <1>2, <3>1, Least
    <3>3. \A y \in lone : x <= y
      BY <3>2
    <3> QED BY <3>3
  <2> HIDE DEF first
  <2>2. \E k \in lone : LastIn(k)
    <3> DEFINE T == {d \in Nat : first + d + 1 \notin lone}
    <3>1. first \in 1..m
      BY <2>1
    <3>2. m \in T
      BY <3>1
    <3>3. PICK d \in T : \A y \in T : ~(y < d)
      <4>1. T \in SUBSET Nat
        OBVIOUS
      <4> HIDE DEF T
      <4> QED BY <3>2, <4>1, Least
    <3>4. d \in Nat /\ first + d + 1 \notin lone
      BY <3>3
    <3>5. \A x \in first..(first + d) : x \in lone
      <4> SUFFICES ASSUME NEW x \in first..(first + d), x # first, x \notin lone PROVE FALSE
        BY <2>1
      <4> DEFINE y == x - first - 1
      <4>1. y \in Nat /\ y < d /\ first + y + 1 = x
        BY <3>1, <3>4
      <4>2. y \in T
        <5> HIDE DEF y
        <5> QED BY <4>1
      <4> HIDE DEF T, y
      <4> QED BY <3>3, <4>1, <4>2
    <3>6. first + d \in first..(first + d)
      BY <3>1, <3>4
    <3> QED BY <3>4, <3>5, <3>6
  <2>3. last \in lone /\ LastIn(last)
    <3> HIDE DEF LastIn
    <3> QED BY <2>2
  <2>4. FirstRun(lone) = <<first - 1, last - 1>>
    BY <1>2 DEF FirstRun, first
  <2> HIDE DEF last
  <2>5. (first - 1) + 1 = first /\ (last - 1) + 1 = last /\ (last - 1) + 2 = last + 1
    BY <2>1, <2>3
  <2>6. /\ FirstRun(lone)[1] + 1 = first /\ FirstRun(lone)[2] + 1 = last /\ FirstRun(lone)[2] + 2 = last + 1
    BY <2>4, <2>5
  <2> QED BY <1>2, <2>1, <2>3, <2>6 DEF PointsAtFirst
<1> QED BY <1>1, <1>2

\* The surrogates are the first run of them among the characters.
LEMMA SurrogatesOfCuts ==
  ASSUME NEW s \in Seq(Byte), NEW lone, NEW m, NEW u, Cuts(s, lone, Len(s), m, u)
  PROVE  PointsAtFirst(SurrogateError(s), LonesOf(Decoded(s).text))
<1> DEFINE chars == PointsOf(s, m, u)
<1>1. m \in Nat /\ chars \in Seq(Nat) /\ Len(chars) = m /\ \A x \in 1..m : chars[x] = Point(s, u[x - 1])
  BY PointsType
<1>2. Decoded(s).text = chars
  BY DecodedOfCuts
<1> HIDE DEF chars
<1>3. LonesOf(chars) \in SUBSET (1..m)
  BY <1>1 DEF LonesOf
<1>4. PointsAtFirst(FirstRun(LonesOf(chars)), LonesOf(chars))
  BY <1>1, <1>3, FirstRunIs
<1>5. \A k \in 0..m : k # m => /\ u[k] \in Nat /\ u[k + 1] \in Nat /\ u[k] < u[k + 1] /\ u[k + 1] <= Len(s)
                               /\ k + 1 \in 1..m /\ (k + 1) - 1 = k
                               /\ Passes(SubSeq(s, u[k] + 1, u[k + 1]), lone)
  <2>1. /\ \A k \in 0..m : u[k] \in Nat /\ u[k] <= Len(s)
        /\ \A k \in 0..m : k # m => /\ k + 1 \in 0..m /\ u[k] < u[k + 1]
                                   /\ Passes(SubSeq(s, u[k] + 1, u[k + 1]), lone)
    BY CutsType
  <2>2. \A k \in 0..m : k # m => k + 1 \in 1..m /\ (k + 1) - 1 = k
    BY <1>1
  <2> QED BY ONLY <2>1, <2>2
<1>6. ASSUME NEW k \in 0..m, k # m
      PROVE  IsSurrogate(Point(s, u[k])) <=> s[u[k] + 1] = 237 /\ u[k] + 2 <= Len(s) /\ s[u[k] + 2] >= 160
  <2> DEFINE i == u[k]
             j == u[k + 1]
  <2>1. i \in Nat /\ j \in Nat /\ i < j /\ j <= Len(s) /\ Passes(SubSeq(s, i + 1, j), lone)
    BY <1>5, <1>6
  <2> HIDE DEF i, j
  <2>2. IsSurrogate(Point(s, i)) <=> s[i + 1] = 237 /\ i + 2 <= Len(s) /\ s[i + 2] >= 160
    BY <2>1, SurrogateIs
  <2> QED BY <2>2 DEF i
<1>7. HasSurrogate(s) <=> LonesOf(chars) # {}
  <2>0. Len(s) \in Nat
    OBVIOUS
  <2>1. ASSUME NEW x \in LonesOf(chars) PROVE HasSurrogate(s)
    <3>1. x \in 1..m /\ IsSurrogate(chars[x])
      BY <1>1, <2>1 DEF LonesOf
    <3>2. x - 1 \in 0..m /\ x - 1 # m /\ chars[x] = Point(s, u[x - 1])
      BY <1>1, <3>1
    <3> DEFINE i == u[x - 1]
    <3>3. i \in Nat /\ s[i + 1] = 237 /\ i + 2 <= Len(s) /\ s[i + 2] >= 160
      BY <1>5, <1>6, <3>1, <3>2
    <3> HIDE DEF i
    <3>4. i + 1 \in 1..(Len(s) - 1) /\ (i + 1) + 1 = i + 2
      BY <2>0, <3>3
    <3> QED BY <3>3, <3>4 DEF HasSurrogate
  <2>2. ASSUME HasSurrogate(s) PROVE LonesOf(chars) # {}
    <3>1. PICK y \in 1..(Len(s) - 1) : s[y] = 237 /\ s[y + 1] >= 160
      BY <2>2 DEF HasSurrogate
    <3> DEFINE i == y - 1
    <3>2. i \in Nat /\ i < Len(s) /\ i + 1 = y /\ i + 2 = y + 1 /\ i + 2 <= Len(s)
      BY <2>0, <3>1
    <3>3. ~Continues(s[i + 1])
      BY <3>1, <3>2 DEF Continues, InRange
    <3> HIDE DEF i
    <3>4. PICK k \in 0..m : k # m /\ u[k] = i
      BY <3>2, <3>3, CutsAreWhere
    <3>5. IsSurrogate(Point(s, u[k]))
      BY <1>6, <3>1, <3>2, <3>4
    <3>6. k + 1 \in 1..m /\ chars[k + 1] = Point(s, u[k])
      BY <1>1, <1>5, <3>4
    <3>7. k + 1 \in LonesOf(chars)
      BY <1>1, <3>5, <3>6 DEF LonesOf
    <3> QED BY <3>7
  <2> QED BY <2>1, <2>2
<1>8. SurrogateError(s) = FirstRun(LonesOf(chars))
  <2>1. SurrogateError(s) = IF HasSurrogate(s) THEN FirstRun(LonesOf(chars)) ELSE <<>>
    BY <1>2 DEF SurrogateError
  <2>2. FirstRun({}) = <<>>
    BY DEF FirstRun
  <2> QED BY <1>7, <2>1, <2>2
<1> QED BY <1>2, <1>4, <1>8

-----------------------------------------------------------------------------
(* Theorems *)

TextInv == /\ bytes \in Seq(0..255)
           /\ taken = "text" => Utf8Error(bytes) = <<>> /\ stripped = Strip(bytes)
           /\ taken = "not text" => error = Utf8Error(bytes) /\ error # <<>>

\* What the step has found of the bytes stays true of them.
LEMMA TextSafe == TextSpec => []TextInv
<1>1. TextInit => TextInv
  BY ReceivedAssumption DEF TextInit, TextInv
<1>2. TextInv /\ [TakeAsText]_textVars => TextInv'
  <2> SUFFICES ASSUME TextInv, [TakeAsText]_textVars PROVE TextInv'
    OBVIOUS
  <2>1. CASE TakeAsText
    <3>1. bytes' = bytes /\ error' = Utf8Error(bytes)
      BY <2>1 DEF TakeAsText
    <3>2. CASE error' = <<>>
      <4>1. taken' = "text" /\ stripped' = Strip(bytes)
        BY <2>1, <3>2 DEF TakeAsText
      <4> QED BY <3>1, <3>2, <4>1 DEF TextInv
    <3>3. CASE error' # <<>>
      <4>1. taken' = "not text"
        BY <2>1, <3>3 DEF TakeAsText
      <4> QED BY <3>1, <3>3, <4>1 DEF TextInv
    <3> QED BY <3>2, <3>3
  <2>2. CASE UNCHANGED textVars
    BY <2>2 DEF TextInv, textVars
  <2> QED BY <2>1, <2>2
<1> QED BY <1>1, <1>2, PTL DEF TextSpec

\* Any bytes that Python's surrogatepass takes as a text are one to decode_utf8,
\* and append_utf8 writes the very bytes again (pyjson.hpp:66-99).
THEOREM TextAlwaysKept == TextSpec => []TextIsKept
<1>1. TextInv => TextIsKept
  <2> SUFFICES ASSUME TextInv, Passing(bytes)
               PROVE  Decoded(bytes).valid /\ Written(Decoded(bytes).text) = bytes
    BY DEF TextIsKept
  <2>1. bytes \in Seq(Byte) /\ Len(bytes) \in Ends(bytes, TRUE)
    BY DEF TextInv, Byte, Passing
  <2>2. PICK m, u : Cuts(bytes, TRUE, Len(bytes), m, u)
    BY <2>1, CutsExist
  <2>3. Decoded(bytes).valid /\ Decoded(bytes).text = PointsOf(bytes, m, u)
    BY <2>1, <2>2, DecodedOfCuts
  <2>4. Written(PointsOf(bytes, m, u)) = bytes
    BY <2>1, <2>2, WrittenOfCuts
  <2> QED BY <2>3, <2>4
<1> QED BY <1>1, TextSafe, PTL

\* Of any bytes, utf8_error refuses those that are not UTF-8 and no others; it
\* points where the first fault is, and counts the longest start of a
\* character there (pyjson.hpp:102-132).
THEOREM ErrorAlwaysExact == TextSpec => []ErrorIsExact
<1>1. TextInv => ErrorIsExact
  <2> SUFFICES ASSUME TextInv PROVE ErrorIsExact
    OBVIOUS
  <2>1. bytes \in Seq(Byte)
    BY DEF TextInv, Byte
  <2>2. ASSUME taken = "text" PROVE Strict(bytes)
    <3>1. Utf8Error(bytes) = <<>>
      BY <2>2 DEF TextInv
    <3> QED BY <2>1, <3>1, Utf8ErrorIsExact DEF Strict
  <2>3. ASSUME taken = "not text"
        PROVE  /\ ~Strict(bytes)
               /\ error[1] \in Ends(bytes, FALSE) /\ \A j \in Ends(bytes, FALSE) : j <= error[1]
               /\ error[2] > 1 => Grows(bytes, error[1], error[2])
               /\ error[1] + error[2] < Len(bytes) => ~Grows(bytes, error[1], error[2] + 1)
    <3>1. error = Utf8Error(bytes) /\ error # <<>>
      BY <2>3 DEF TextInv
    <3>2. error[1] \in Ends(bytes, FALSE) /\ Faulty(bytes, error[1], error[2])
      BY <2>1, <3>1, Utf8ErrorIsExact
    <3> DEFINE e == error[1]
    <3>3. e \in Ends(bytes, FALSE) /\ NoChar(bytes, e) /\ e < Len(bytes) /\ e \in Nat
      BY <3>2 DEF Faulty
    <3> HIDE DEF e
    <3>4. \A j \in Ends(bytes, FALSE) : j <= e
      BY <2>1, <3>3, NoneAfter
    <3>5. ~Strict(bytes)
      <4>1. Len(bytes) \in Nat
        BY <2>1
      <4>2. ~(Len(bytes) <= e)
        BY ONLY <3>3, <4>1
      <4> QED BY ONLY <3>4, <4>2 DEF Strict
    <3> QED BY <3>2, <3>4, <3>5 DEF Faulty, e
  <2> QED BY <2>2, <2>3 DEF ErrorIsExact
<1> QED BY <1>1, TextSafe, PTL

\* Of any text, what text.hpp:10-66 finds by looking at bytes is what Python
\* finds in characters: the spaces around it, its length, its surrogates.
THEOREM BytesAlwaysCharacters == TextSpec => []BytesAreCharacters
<1>1. TextInv => BytesAreCharacters
  <2> SUFFICES ASSUME TextInv PROVE BytesAreCharacters
    OBVIOUS
  <2>1. bytes \in Seq(Byte)
    BY DEF TextInv, Byte
  <2>2. ASSUME taken = "text"
        PROVE  StripsTo(Decoded(bytes).text, Decoded(stripped).text) /\ Decoded(stripped).valid
    <3>1. Utf8Error(bytes) = <<>> /\ stripped = Strip(bytes)
      BY <2>2 DEF TextInv
    <3>2. Len(bytes) \in Ends(bytes, FALSE)
      BY <2>1, <3>1, Utf8ErrorIsExact
    <3>3. PICK m, u : Cuts(bytes, FALSE, Len(bytes), m, u)
      BY <2>1, <3>2, CutsExist
    <3> QED BY <2>1, <3>1, <3>3, StripsCharacters
  <2>3. ASSUME Passing(bytes)
        PROVE  /\ Utf8Length(bytes) = Len(Decoded(bytes).text)
               /\ PointsAtFirst(SurrogateError(bytes), LonesOf(Decoded(bytes).text))
    <3>1. Len(bytes) \in Ends(bytes, TRUE)
      BY <2>3 DEF Passing
    <3>2. PICK m, u : Cuts(bytes, TRUE, Len(bytes), m, u)
      BY <2>1, <3>1, CutsExist
    <3>3. Utf8Length(bytes) = m
      BY <2>1, <3>2, LengthOfCuts
    <3>4. Len(Decoded(bytes).text) = m
      BY <2>1, <3>2, LengthOfDecoded
    <3>5. PointsAtFirst(SurrogateError(bytes), LonesOf(Decoded(bytes).text))
      BY <2>1, <3>2, SurrogatesOfCuts
    <3> QED BY <3>3, <3>4, <3>5
  <2> QED BY <2>2, <2>3 DEF BytesAreCharacters
<1> QED BY <1>1, TextSafe, PTL
=============================================================================
