--------------------------- MODULE SnapshotsProofs ---------------------------
(***************************************************************************)
(* Proofs about Snapshots for any requests, any limits, and a push that    *)
(* may fail or not.                                                        *)
(***************************************************************************)
EXTENDS Snapshots, FiniteSetTheorems, SequenceTheorems, WellFoundedInduction,
        TLAPS

-----------------------------------------------------------------------------
(***************************************************************************)
(* Counting cells: the total of tokens moves by the length of the entry    *)
(* that comes or goes.                                                     *)
(***************************************************************************)

\* An entry takes as many cells as it has tokens.
LEMMA CellsOfOne ==
  ASSUME NEW t \in Seq(Int)
  PROVE  /\ IsFiniteSet({t} \X DOMAIN t)
         /\ Cardinality({t} \X DOMAIN t) = Len(t)
<1>1. DOMAIN t = 1..Len(t) /\ Len(t) \in Nat
  OBVIOUS
<1>2. IsFiniteSet(DOMAIN t) /\ Cardinality(DOMAIN t) = Len(t)
  BY <1>1, FS_Interval
<1>3. IsFiniteSet({t}) /\ Cardinality({t}) = 1
  BY FS_Singleton
<1>4. /\ IsFiniteSet({t} \X DOMAIN t)
      /\ Cardinality({t} \X DOMAIN t) = 1 * Len(t)
  BY <1>2, <1>3, FS_Product
<1>5. \A n \in Nat : 1 * n = n
  OBVIOUS
<1> QED BY <1>1, <1>4, <1>5

\* Adding an entry whose tokens no other entry has.
LEMMA CellsAdd ==
  ASSUME NEW E, NEW e, IsFiniteSet(Cells(E)), e.tokens \in Seq(Int),
         \A f \in E : f.tokens # e.tokens
  PROVE  /\ IsFiniteSet(Cells(E \union {e}))
         /\ Cardinality(Cells(E \union {e})) = Cardinality(Cells(E)) + Len(e.tokens)
<1> DEFINE one == {e.tokens} \X DOMAIN e.tokens
<1>1. Cells(E \union {e}) = Cells(E) \union one
  BY DEF Cells
<1>2. Cells(E) \intersect one = {}
  BY DEF Cells
<1>3. IsFiniteSet(one) /\ Cardinality(one) = Len(e.tokens)
  BY CellsOfOne
<1>4. Cardinality({}) = 0 /\ Cardinality(Cells(E)) \in Nat /\ Len(e.tokens) \in Nat
  BY FS_EmptySet, FS_CardinalityType, LenProperties
<1> DEFINE old == Cells(E)
<1> HIDE DEF one, old
<1>5. /\ IsFiniteSet(old \union one)
      /\ Cardinality(old \union one) =
           Cardinality(old) + Cardinality(one) - Cardinality(old \intersect one)
  BY <1>3, FS_Union DEF old
<1>6. Cardinality(old \intersect one) = 0
  BY <1>2, <1>4 DEF old
<1>7. Cardinality(old) \in Nat
  BY <1>4 DEF old
<1>8. Cardinality(old \union one) = Cardinality(old) + Len(e.tokens)
  BY <1>3, <1>4, <1>5, <1>6, <1>7
<1> QED BY <1>1, <1>5, <1>8 DEF old

\* Removing an entry whose tokens no other entry has.
LEMMA CellsRemove ==
  ASSUME NEW E, NEW e \in E, IsFiniteSet(Cells(E)), e.tokens \in Seq(Int),
         \A f \in E : f.tokens = e.tokens => f = e
  PROVE  /\ IsFiniteSet(Cells(E \ {e}))
         /\ Cardinality(Cells(E \ {e})) = Cardinality(Cells(E)) - Len(e.tokens)
         /\ Len(e.tokens) <= Cardinality(Cells(E))
<1> DEFINE rest == Cells(E \ {e})
<1>1. rest \subseteq Cells(E)
  BY DEF Cells
<1>2. IsFiniteSet(rest)
  BY <1>1, FS_Subset
<1>3. \A f \in E \ {e} : f.tokens # e.tokens
  OBVIOUS
<1>4. Cardinality(Cells((E \ {e}) \union {e})) = Cardinality(rest) + Len(e.tokens)
  BY <1>2, <1>3, CellsAdd
<1>5. (E \ {e}) \union {e} = E
  OBVIOUS
<1>6. Cardinality(rest) \in Nat /\ Len(e.tokens) \in Nat
  BY <1>2, FS_CardinalityType, LenProperties
<1>7. Cardinality(Cells(E)) = Cardinality(rest) + Len(e.tokens)
  BY <1>4, <1>5
<1> HIDE DEF rest
<1>8. /\ Cardinality(rest) = Cardinality(Cells(E)) - Len(e.tokens)
      /\ Len(e.tokens) <= Cardinality(Cells(E))
  BY <1>6, <1>7
<1> QED BY <1>2, <1>8 DEF rest

\* Refreshing an entry leaves the cells as they are.
LEMMA CellsRefresh ==
  ASSUME NEW E, NEW e \in E, NEW f, f.tokens = e.tokens
  PROVE  Cells((E \ {e}) \union {f}) = Cells(E)
BY DEF Cells

-----------------------------------------------------------------------------
(***************************************************************************)
(* Type correctness.                                                       *)
(***************************************************************************)

\* The limits are numbers.
LEMMA LimitsAreNat == max_count \in Nat /\ max_tokens \in Nat
BY LimitsAssumption DEF max_count, max_tokens

\* A state is a sequence of tokens.
LEMMA StatesAreSequences == ASSUME NEW s \in States PROVE s \in Seq(Int)
<1>1. PICK r \in Requests : Boundary(r) /\ s = SubSeq(r.prefix, 1, r.state)
  BY DEF States, State
<1>2. r.prefix \in Seq(Int) /\ r.state \in 0..Len(r.prefix)
  BY RequestsAssumption
<1> QED BY <1>1, <1>2

EntryType == [tokens : States, used : 1..tick, added : 1..tick]

\* Refreshing an entry keeps the types.
LEMMA RefreshType ==
  ASSUME TypeOK, NEW e \in entries, Refresh(e)
  PROVE  /\ entries' \subseteq EntryType'
         /\ tick' \in Nat
         /\ KeptStates' = KeptStates
<1>1. /\ tick' = tick + 1 /\ tick \in Nat
      /\ entries' = (entries \ {e}) \union {[e EXCEPT !.used = tick + 1]}
      /\ entries \subseteq EntryType
  BY DEF Refresh, TypeOK, EntryType
<1>2. \A f \in EntryType : f \in EntryType'
  BY <1>1 DEF EntryType
<1>3. [e EXCEPT !.used = tick + 1] \in EntryType'
  BY <1>1 DEF EntryType
<1>4. [e EXCEPT !.used = tick + 1].tokens = e.tokens
  BY <1>1 DEF EntryType
<1>5. KeptStates' = KeptStates
  BY <1>1, <1>4 DEF KeptStates
<1> QED BY <1>1, <1>2, <1>3, <1>5

\* The loops of a batch: how far each one is where the phase says.
LoopInv ==
  /\ phase = "find" => Len(found) = next - 1
  /\ phase \notin {"idle", "find"} => Len(found) = Len(batch)
  /\ phase \in {"add", "evict", "publish"} => next = Len(batch) + 1
  /\ phase \in {"find", "run"} => fresh = <<>>
  /\ phase = "collect" => Len(fresh) < next
  /\ phase \in {"evict", "publish"} => fresh # <<>>

TypeInv == TypeOK /\ LoopInv

\* The entries' cells are counted right: kept_ is never below their number,
\* so that subtracting an entry's tokens never wraps it.
Totals == /\ IsFiniteSet(entries)
          /\ IsFiniteSet(Cells(entries))
          /\ TotalTokens <= kept
          /\ KeptIsTotal

\* Without an evicted entry the totals fall by one and by its tokens.
LEMMA EvictTotals ==
  ASSUME TypeOK, Totals, NoDuplicates, NEW e \in entries
  PROVE  /\ IsFiniteSet(entries \ {e})
         /\ IsFiniteSet(Cells(entries \ {e}))
         /\ Cardinality(entries \ {e}) = Cardinality(entries) - 1
         /\ Cardinality(Cells(entries \ {e})) = TotalTokens - Len(e.tokens)
         /\ Len(e.tokens) \in Nat
         /\ Len(e.tokens) <= TotalTokens
<1>1. e.tokens \in Seq(Int)
  BY StatesAreSequences DEF TypeOK
<1>2. \A f \in entries : f.tokens = e.tokens => f = e
  BY DEF NoDuplicates
<1> QED
  BY <1>1, <1>2, CellsRemove, FS_RemoveElement DEF Totals, TotalTokens

\* Every step keeps the types.
LEMMA TypeStep == TypeInv /\ Totals /\ NoDuplicates /\ [Next]_vars => TypeInv'
<1> SUFFICES ASSUME TypeInv, Totals, NoDuplicates, [Next]_vars PROVE TypeInv'
  OBVIOUS
<1> USE LimitsAreNat DEF TypeInv, TypeOK, LoopInv, Phases, indexVars, readerVars
<1>1. CASE StartBatch
  <2>1. PICK n \in 1..MaxBatch : batch' \in [1..n -> Requests]
    BY <1>1 DEF StartBatch
  <2>2. n \in Nat
    BY <2>1, LimitsAssumption
  <2>3. batch' \in Seq(Requests) /\ Len(batch') \in Nat
    BY <2>1, <2>2
  <2> QED BY <1>1, <2>3 DEF StartBatch
<1>2. CASE Find
  <2>1. next \in 1..Len(batch) /\ batch[next] \in Requests
    BY <1>2 DEF Find
  <2>2. \/ \E e \in entries : /\ Refresh(e)
                              /\ found' = Append(found, <<e.tokens>>)
        \/ found' = Append(found, <<>>) /\ UNCHANGED <<entries, tick>>
    BY <1>2 DEF Find, Hit, Miss
  <2>3. CASE found' = Append(found, <<>>) /\ UNCHANGED <<entries, tick>>
    <3>1. found' \in Seq({<<>>} \union {<<s>> : s \in States})
      BY <2>3, AppendProperties
    <3>2. Len(found') = Len(found) + 1
      BY <2>3, AppendProperties
    <3> QED BY <1>2, <2>1, <2>3, <3>1, <3>2 DEF Find
  <2>4. ASSUME NEW e \in entries, Refresh(e), found' = Append(found, <<e.tokens>>)
        PROVE  TypeInv'
    <3>1. e.tokens \in States
      OBVIOUS
    <3>2. /\ found' \in Seq({<<>>} \union {<<s>> : s \in States})
          /\ Len(found') = Len(found) + 1
      BY <2>4, <3>1, AppendProperties
    <3>3. entries' \subseteq EntryType' /\ tick' \in Nat
      BY <2>4, RefreshType
    <3> QED BY <1>2, <2>1, <3>2, <3>3 DEF Find, EntryType
  <2> QED BY <2>2, <2>3, <2>4
<1>3. CASE BeginRun \/ RunDone \/ RunFails
  <2>1. CASE BeginRun
    BY <2>1 DEF BeginRun
  <2>2. CASE RunDone
    BY <2>2 DEF RunDone
  <2>3. CASE RunFails
    BY <2>3 DEF RunFails
  <2> QED BY <1>3, <2>1, <2>2, <2>3
<1>4. CASE Collect
  <2> DEFINE s == State(batch[next])
  <2>1. next \in 1..Len(batch) /\ batch[next] \in Requests
    BY <1>4 DEF Collect
  <2>2. \/ /\ Boundary(batch[next])
           /\ fresh' = Append(fresh, s)
           /\ UNCHANGED <<entries, tick>>
        \/ (\E e \in entries : Refresh(e)) /\ UNCHANGED fresh
        \/ UNCHANGED <<entries, tick, fresh>>
    BY <1>4 DEF Collect, Asks
  <2>3. CASE UNCHANGED <<entries, tick, fresh>>
    BY <1>4, <2>1, <2>3 DEF Collect
  <2>4. ASSUME NEW e \in entries, Refresh(e), UNCHANGED fresh PROVE TypeInv'
    <3>1. entries' \subseteq EntryType' /\ tick' \in Nat
      BY <2>4, RefreshType
    <3> QED BY <1>4, <2>1, <2>4, <3>1 DEF Collect, EntryType
  <2>5. CASE /\ Boundary(batch[next])
             /\ fresh' = Append(fresh, s)
             /\ UNCHANGED <<entries, tick>>
    <3>1. s \in States
      BY <2>1, <2>5 DEF States
    <3>2. fresh' \in Seq(States) /\ Len(fresh') = Len(fresh) + 1
      BY <2>5, <3>1, AppendProperties
    <3> QED BY <1>4, <2>1, <2>5, <3>2 DEF Collect
  <2> QED BY <2>2, <2>3, <2>4, <2>5
<1>5. CASE BeginAdds
  <2>1. next = Len(batch) + 1
    BY <1>5, LenProperties DEF BeginAdds, CollectEnds
  <2> QED BY <1>5, <2>1 DEF BeginAdds
<1>6. CASE Add
  BY <1>6 DEF Add
<1>7. CASE Evict
  <2>1. PICK e \in entries : /\ kept' = kept - Len(e.tokens)
                             /\ entries' = entries \ {e}
    BY <1>7 DEF Evict
  <2>2. kept' \in Nat
    <3>1. TotalTokens \in Nat
      BY FS_CardinalityType DEF Totals, TotalTokens
    <3>2. Len(e.tokens) \in Nat /\ Len(e.tokens) <= TotalTokens
      BY EvictTotals
    <3>3. TotalTokens <= kept
      BY DEF Totals
    <3> QED BY <2>1, <3>1, <3>2, <3>3
  <2>3. entries' \subseteq EntryType'
    BY <1>7, <2>1 DEF Evict, EntryType
  <2> QED BY <1>7, <2>2, <2>3 DEF Evict, EntryType
<1>8. CASE Push
  <2> DEFINE e == [tokens |-> Head(fresh), used |-> tick + 1, added |-> tick + 1]
  <2>1. fresh # <<>> /\ phase = "evict"
    BY <1>8 DEF Push, PushReached
  <2>2. Head(fresh) \in States /\ Len(Head(fresh)) \in Nat
    BY <2>1, HeadTailProperties, StatesAreSequences, LenProperties
  <2>3. tick' = tick + 1 /\ kept' = kept + Len(Head(fresh)) /\ entries' = entries \union {e}
    BY <1>8 DEF Push
  <2>4. e \in EntryType' /\ \A f \in EntryType : f \in EntryType'
    BY <2>2, <2>3 DEF EntryType
  <2>5. entries' \subseteq EntryType'
    BY <2>3, <2>4 DEF EntryType
  <2>6. count' \in Nat
    <3>1. IsFiniteSet(entries')
      BY <2>3, FS_AddElement DEF Totals
    <3> QED BY <1>8, <3>1, FS_CardinalityType DEF Push
  <2>7. kept' \in Nat /\ tick' \in Nat
    BY <2>2, <2>3
  <2> HIDE DEF e
  <2> QED BY <1>8, <2>1, <2>5, <2>6, <2>7 DEF Push, EntryType
<1>9. CASE Publish
  <2>1. fresh' \in Seq(States)
    BY <1>9, HeadTailProperties DEF Publish
  <2> QED BY <1>9, <2>1 DEF Publish
<1>10. CASE PushFails
  <2>1. phase = "evict" /\ fresh # <<>>
    BY <1>10 DEF PushFails, PushReached
  <2>2. Len(Head(fresh)) \in Nat
    BY <2>1, HeadTailProperties, StatesAreSequences, LenProperties
  <2>3. \A f \in EntryType : f \in EntryType'
    BY <1>10 DEF EntryType, PushFails
  <2>4. entries' \subseteq EntryType'
    BY <1>10, <2>3 DEF PushFails, EntryType
  <2> QED BY <1>10, <2>2, <2>4 DEF PushFails, EntryType
<1>11. CASE ReadCount \/ ReadTokens
  BY <1>11 DEF ReadCount, ReadTokens
<1>12. CASE UNCHANGED vars
  BY <1>12 DEF vars
<1> QED
  BY <1>1, <1>2, <1>3, <1>4, <1>5, <1>6, <1>7, <1>8, <1>9, <1>10, <1>11, <1>12
  DEF Next, ModelStep

-----------------------------------------------------------------------------
(***************************************************************************)
(* No state is kept twice, and the totals are right.                       *)
(***************************************************************************)

\* The states about to be added are worth keeping, differ from each other and
\* from the entries (the one being published is an entry already).
FreshInv ==
  /\ \A i \in DOMAIN fresh : WorthKeeping(fresh[i])
  /\ \A i, j \in DOMAIN fresh : fresh[i] = fresh[j] => i = j
  /\ phase \in {"collect", "add", "evict"} =>
       \A i \in DOMAIN fresh : fresh[i] \notin KeptStates
  /\ phase = "publish" =>
       \A i \in DOMAIN fresh : i > 1 => fresh[i] \notin KeptStates

EntriesInv == NoDuplicates /\ Totals

\* Refreshing an entry keeps the entries apart and as many.
LEMMA RefreshEntries ==
  ASSUME TypeOK, EntriesInv, NEW e \in entries, Refresh(e), kept' = kept
  PROVE  EntriesInv' /\ Cardinality(entries') = Cardinality(entries)
<1> DEFINE f == [e EXCEPT !.used = tick + 1]
<1>1. entries' = (entries \ {e}) \union {f} /\ f.tokens = e.tokens
  BY DEF Refresh, TypeOK
<1> HIDE DEF f
<1>2. Cells(entries') = Cells(entries)
  BY <1>1, CellsRefresh
<1>3. NoDuplicates'
  BY <1>1 DEF EntriesInv, NoDuplicates
<1>4. \A g \in entries \ {e} : g # f
  BY <1>1 DEF EntriesInv, NoDuplicates
<1>5. /\ IsFiniteSet(entries \ {e})
      /\ Cardinality(entries \ {e}) = Cardinality(entries) - 1
      /\ Cardinality(entries) \in Nat
  BY FS_RemoveElement, FS_CardinalityType DEF EntriesInv, Totals
<1>6. /\ IsFiniteSet(entries')
      /\ Cardinality(entries') = Cardinality(entries \ {e}) + 1
  BY <1>1, <1>4, <1>5, FS_AddElement
<1>7. Cardinality(entries') = Cardinality(entries)
  BY <1>5, <1>6
<1> QED
  BY <1>2, <1>3, <1>6, <1>7 DEF EntriesInv, Totals, TotalTokens, KeptIsTotal

\* A pushed state is one entry more, which is the newest.
LEMMA PushEntries ==
  ASSUME TypeInv, EntriesInv, FreshInv, Push
  PROVE  /\ EntriesInv'
         /\ Cardinality(entries') = Cardinality(entries) + 1
         /\ TotalTokens' = TotalTokens + Len(Head(fresh))
         /\ KeptStates' = KeptStates \union {Head(fresh)}
<1> DEFINE e == [tokens |-> Head(fresh), used |-> tick + 1, added |-> tick + 1]
<1>1. /\ entries' = entries \union {e}
      /\ kept' = kept + Len(Head(fresh))
      /\ fresh # <<>> /\ phase = "evict"
  BY DEF Push, PushReached, TypeInv, LoopInv
<1>2. Head(fresh) = fresh[1] /\ 1 \in DOMAIN fresh /\ Head(fresh) \in States
  BY <1>1, HeadTailProperties DEF TypeInv, TypeOK
<1>3. \A f \in entries : f.tokens # e.tokens
  BY <1>1, <1>2 DEF FreshInv, KeptStates
<1>4. e.tokens = Head(fresh) /\ Head(fresh) \in Seq(Int)
  BY <1>2, StatesAreSequences
<1> HIDE DEF e
<1>5. NoDuplicates'
  BY <1>1, <1>3 DEF EntriesInv, NoDuplicates
<1>6. /\ IsFiniteSet(Cells(entries'))
      /\ Cardinality(Cells(entries')) = Cardinality(Cells(entries)) + Len(Head(fresh))
  BY <1>1, <1>3, <1>4, CellsAdd DEF EntriesInv, Totals
<1>7. /\ IsFiniteSet(entries')
      /\ Cardinality(entries') = Cardinality(entries) + 1
  BY <1>1, <1>3, FS_AddElement DEF EntriesInv, Totals
<1>8. /\ Cardinality(Cells(entries)) \in Nat /\ Len(Head(fresh)) \in Nat
      /\ kept \in Nat
  BY <1>4, LenProperties, FS_CardinalityType
  DEF EntriesInv, Totals, TypeInv, TypeOK
<1>9. Totals'
  BY <1>1, <1>6, <1>7, <1>8 DEF EntriesInv, Totals, TotalTokens, KeptIsTotal
<1>10. KeptStates' = KeptStates \union {Head(fresh)}
  BY <1>1, <1>4 DEF KeptStates
<1> QED BY <1>5, <1>6, <1>7, <1>9, <1>10 DEF EntriesInv, TotalTokens

\* An evicted entry is one less, and no state is new for it.
LEMMA EvictEntries ==
  ASSUME TypeOK, EntriesInv, Evict
  PROVE  /\ EntriesInv'
         /\ Cardinality(entries') = Cardinality(entries) - 1
         /\ TotalTokens' <= TotalTokens
         /\ KeptStates' \subseteq KeptStates
<1>1. PICK e \in entries : /\ kept' = kept - Len(e.tokens)
                           /\ entries' = entries \ {e}
  BY DEF Evict
<1>2. /\ IsFiniteSet(entries')
      /\ IsFiniteSet(Cells(entries'))
      /\ Cardinality(entries') = Cardinality(entries) - 1
      /\ Cardinality(Cells(entries')) = TotalTokens - Len(e.tokens)
      /\ Len(e.tokens) \in Nat
      /\ Len(e.tokens) <= TotalTokens
  BY <1>1, EvictTotals DEF EntriesInv
<1>3. TotalTokens \in Nat /\ kept \in Nat /\ TotalTokens <= kept
  BY FS_CardinalityType DEF EntriesInv, Totals, TotalTokens, TypeOK
<1>4. TotalTokens' = TotalTokens - Len(e.tokens)
  BY <1>2 DEF TotalTokens
<1>5. Totals'
  BY <1>1, <1>2, <1>3, <1>4 DEF EntriesInv, Totals, KeptIsTotal
<1>6. NoDuplicates'
  BY <1>1 DEF EntriesInv, NoDuplicates
<1>7. KeptStates' \subseteq KeptStates
  BY <1>1 DEF KeptStates
<1> QED BY <1>2, <1>3, <1>4, <1>5, <1>6, <1>7 DEF EntriesInv

\* The steps that touch no entry.
LEMMA EntriesUnmoved ==
  ASSUME EntriesInv, UNCHANGED <<entries, kept>>
  PROVE  EntriesInv' /\ KeptStates' = KeptStates /\ TotalTokens' = TotalTokens
BY DEF EntriesInv, Totals, TotalTokens, KeptIsTotal, NoDuplicates, KeptStates

\* A request finds an entry and refreshes it, or leaves the entries alone.
LEMMA FindEntries ==
  ASSUME TypeOK, EntriesInv, Find \/ Collect
  PROVE  /\ EntriesInv'
         /\ KeptStates' = KeptStates
         /\ Cardinality(entries') = Cardinality(entries)
         /\ TotalTokens' = TotalTokens
<1>1. \/ \E e \in entries : Refresh(e)
      \/ UNCHANGED <<entries, tick>>
  BY DEF Find, Hit, Miss, Collect
<1>2. kept' = kept
  BY DEF Find, Collect
<1>3. ASSUME NEW e \in entries, Refresh(e)
      PROVE  /\ EntriesInv'
             /\ KeptStates' = KeptStates
             /\ Cardinality(entries') = Cardinality(entries)
             /\ TotalTokens' = TotalTokens
  <2>1. EntriesInv' /\ Cardinality(entries') = Cardinality(entries)
    BY <1>2, <1>3, RefreshEntries
  <2>2. KeptStates' = KeptStates
    BY <1>3, RefreshType
  <2>3. Cells(entries') = Cells(entries)
    <3> DEFINE f == [e EXCEPT !.used = tick + 1]
    <3>1. entries' = (entries \ {e}) \union {f} /\ f.tokens = e.tokens
      BY <1>3 DEF Refresh, TypeOK
    <3> QED BY <3>1, CellsRefresh
  <2> QED BY <2>1, <2>2, <2>3 DEF TotalTokens
<1> QED BY <1>1, <1>2, <1>3, EntriesUnmoved

\* Every step keeps the entries' invariant.
LEMMA EntriesStep ==
  TypeInv /\ EntriesInv /\ FreshInv /\ [Next]_vars => EntriesInv'
<1> SUFFICES ASSUME TypeInv, EntriesInv, FreshInv, [Next]_vars PROVE EntriesInv'
  OBVIOUS
<1>1. CASE Find \/ Collect
  BY <1>1, FindEntries DEF TypeInv
<1>2. CASE Evict
  BY <1>2, EvictEntries DEF TypeInv
<1>3. CASE Push
  BY <1>3, PushEntries
<1>4. CASE PushFails
  <2>1. Totals'
    <3>1. /\ kept' = kept + Len(Head(fresh)) /\ PushMayFail
          /\ UNCHANGED entries /\ fresh # <<>>
      BY <1>4 DEF PushFails, PushReached, TypeInv, LoopInv
    <3>2. Len(Head(fresh)) \in Nat
      BY <3>1, HeadTailProperties, StatesAreSequences, LenProperties
      DEF TypeInv, TypeOK
    <3>3. TotalTokens \in Nat /\ kept \in Nat /\ TotalTokens <= kept
      BY FS_CardinalityType DEF EntriesInv, Totals, TotalTokens, TypeInv, TypeOK
    <3>4. TotalTokens' = TotalTokens
      BY <3>1 DEF TotalTokens
    <3> QED BY <3>1, <3>2, <3>3, <3>4 DEF EntriesInv, Totals, KeptIsTotal
  <2> QED BY <1>4, <2>1 DEF PushFails, EntriesInv, NoDuplicates
<1>5. CASE Publish
  BY <1>5, EntriesUnmoved DEF Publish
<1>6. CASE StartBatch \/ BeginRun \/ RunDone \/ RunFails \/ BeginAdds \/ Add
  BY <1>6, EntriesUnmoved
  DEF StartBatch, BeginRun, RunDone, RunFails, BeginAdds, Add, indexVars
<1>7. CASE ReadCount \/ ReadTokens
  BY <1>7, EntriesUnmoved DEF ReadCount, ReadTokens, indexVars
<1>8. CASE UNCHANGED vars
  BY <1>8, EntriesUnmoved DEF vars, indexVars
<1> QED
  BY <1>1, <1>2, <1>3, <1>4, <1>5, <1>6, <1>7, <1>8 DEF Next, ModelStep

\* Every step keeps the states still to be pushed apart from those that are kept.
LEMMA FreshStep ==
  TypeInv /\ EntriesInv /\ FreshInv /\ [Next]_vars => FreshInv'
<1> SUFFICES ASSUME TypeInv, EntriesInv, FreshInv, [Next]_vars PROVE FreshInv'
  OBVIOUS
<1>1. CASE StartBatch
  BY <1>1 DEF StartBatch, FreshInv
<1>2. CASE Find
  <2>1. phase = "find" /\ phase' = "find" /\ UNCHANGED fresh
    BY <1>2 DEF Find
  <2> QED BY <2>1 DEF FreshInv
<1>3. CASE BeginRun \/ RunDone \/ RunFails
  <2>1. fresh = <<>> /\ fresh' = <<>>
    BY <1>3 DEF BeginRun, RunDone, RunFails, TypeInv, LoopInv
  <2> QED BY <2>1 DEF FreshInv
<1>4. CASE Collect
  <2> DEFINE s == State(batch[next])
  <2>1. phase = "collect" /\ phase' = "collect"
    BY <1>4 DEF Collect
  <2>2. KeptStates' = KeptStates
    BY <1>4, FindEntries DEF TypeInv
  <2>3. CASE UNCHANGED fresh
    BY <2>1, <2>2, <2>3 DEF FreshInv
  <2>4. CASE /\ Asks(next) /\ WorthKeeping(s) /\ s \notin KeptStates
             /\ fresh' = Append(fresh, s)
    <3>1. \A i \in DOMAIN fresh : fresh[i] # s
      <4>1. CASE Len(batch) = 1
        <5>1. Len(fresh) = 0
          BY <1>4, <2>1, <4>1, LenProperties DEF Collect, TypeInv, TypeOK, LoopInv
        <5> QED BY <5>1 DEF TypeInv, TypeOK
      <4>2. CASE Len(batch) # 1
        BY <2>4, <4>2 DEF Asks, QueuedTwice
      <4> QED BY <4>1, <4>2
    <3>2. /\ DOMAIN fresh' = 1..(Len(fresh) + 1)
          /\ DOMAIN fresh = 1..Len(fresh) /\ Len(fresh) \in Nat
          /\ fresh'[Len(fresh) + 1] = s
          /\ \A i \in 1..Len(fresh) : fresh'[i] = fresh[i]
      BY <2>4, AppendProperties DEF TypeInv, TypeOK
    <3>3. \A i \in DOMAIN fresh' : /\ WorthKeeping(fresh'[i])
                                   /\ fresh'[i] \notin KeptStates
      BY <2>1, <2>4, <3>2 DEF FreshInv
    <3>4. \A i, j \in DOMAIN fresh' : fresh'[i] = fresh'[j] => i = j
      BY <3>1, <3>2 DEF FreshInv
    <3> QED BY <2>1, <2>2, <3>3, <3>4 DEF FreshInv, WorthKeeping
  <2> QED BY <1>4, <2>3, <2>4 DEF Collect
<1>5. CASE BeginAdds \/ Add
  BY <1>5 DEF BeginAdds, Add, FreshInv, indexVars, KeptStates
<1>6. CASE Evict
  <2>1. KeptStates' \subseteq KeptStates
    BY <1>6, EvictEntries DEF TypeInv
  <2> QED BY <1>6, <2>1 DEF Evict, FreshInv
<1>7. CASE Push
  <2>1. KeptStates' = KeptStates \union {Head(fresh)}
    BY <1>7, PushEntries
  <2>2. fresh # <<>> /\ phase = "evict" /\ phase' = "publish" /\ UNCHANGED fresh
    BY <1>7 DEF Push, PushReached, TypeInv, LoopInv
  <2>3. Head(fresh) = fresh[1] /\ 1 \in DOMAIN fresh /\ DOMAIN fresh \subseteq Nat
    BY <2>2, HeadTailProperties DEF TypeInv, TypeOK
  <2>4. \A i \in DOMAIN fresh : i > 1 => fresh[i] \notin KeptStates'
    BY <2>1, <2>2, <2>3 DEF FreshInv
  <2> QED BY <2>2, <2>4 DEF FreshInv
<1>8. CASE Publish
  <2>1. /\ fresh # <<>> /\ fresh' = Tail(fresh)
        /\ phase = "publish" /\ phase' = "add" /\ UNCHANGED entries
    BY <1>8 DEF Publish, TypeInv, LoopInv
  <2>2. /\ DOMAIN fresh = 1..Len(fresh) /\ Len(fresh) \in Nat
        /\ DOMAIN fresh' = 1..(Len(fresh) - 1)
        /\ \A i \in 1..(Len(fresh) - 1) : fresh'[i] = fresh[i + 1]
    BY <2>1, HeadTailProperties DEF TypeInv, TypeOK
  <2>3. \A i \in DOMAIN fresh' : i + 1 \in DOMAIN fresh /\ fresh'[i] = fresh[i + 1]
    BY <2>2
  <2>4. \A i \in DOMAIN fresh' : fresh'[i] \notin KeptStates
    BY <2>1, <2>2, <2>3 DEF FreshInv
  <2>5. \A i \in DOMAIN fresh' : WorthKeeping(fresh'[i])
    BY <2>3 DEF FreshInv
  <2>6. \A i, j \in DOMAIN fresh' : fresh'[i] = fresh'[j] => i = j
    BY <2>2, <2>3 DEF FreshInv
  <2> QED BY <2>1, <2>4, <2>5, <2>6 DEF FreshInv, KeptStates, WorthKeeping
<1>9. CASE PushFails
  BY <1>9 DEF PushFails, FreshInv
<1>10. CASE ReadCount \/ ReadTokens
  BY <1>10 DEF ReadCount, ReadTokens, FreshInv, indexVars, KeptStates
<1>11. CASE UNCHANGED vars
  BY <1>11 DEF vars, FreshInv, indexVars, KeptStates
<1> QED
  BY <1>1, <1>2, <1>3, <1>4, <1>5, <1>6, <1>7, <1>8, <1>9, <1>10, <1>11
  DEF Next, ModelStep

IndexInv == TypeInv /\ EntriesInv /\ FreshInv

\* The index's invariant holds of every state.
LEMMA IndexInvariant == Spec => []IndexInv
<1>1. Init => IndexInv
  <2> SUFFICES ASSUME Init PROVE IndexInv
    OBVIOUS
  <2>1. Cells(entries) = {} /\ entries = {}
    BY DEF Init, Cells
  <2>2. TotalTokens = 0 /\ IsFiniteSet(entries) /\ IsFiniteSet(Cells(entries))
    BY <2>1, FS_EmptySet DEF TotalTokens
  <2>3. EntriesInv
    BY <2>1, <2>2 DEF Init, EntriesInv, NoDuplicates, Totals, KeptIsTotal
  <2>4. TypeInv
    BY DEF Init, TypeInv, TypeOK, LoopInv, Phases
  <2>5. FreshInv
    BY DEF Init, FreshInv
  <2> QED BY <2>3, <2>4, <2>5 DEF IndexInv
<1>2. IndexInv /\ [Next]_vars => IndexInv'
  BY TypeStep, EntriesStep, FreshStep DEF IndexInv, EntriesInv
<1> QED BY <1>1, <1>2, PTL DEF Spec

\* The index and its user keep their types.
THEOREM TypeCorrect == Spec => []TypeOK
<1>1. IndexInv => TypeOK
  BY DEF IndexInv, TypeInv
<1> QED BY <1>1, IndexInvariant, PTL

\* No state is ever kept twice, whatever the requests of a batch share.
THEOREM NoStateTwice == Spec => []NoDuplicates
<1>1. IndexInv => NoDuplicates
  BY DEF IndexInv, EntriesInv
<1> QED BY <1>1, IndexInvariant, PTL

\* kept_ is the number of cells kept, as long as no push throws.
THEOREM KeptCountsCells == Spec => []KeptIsTotal
<1>1. IndexInv => KeptIsTotal
  BY DEF IndexInv, EntriesInv, Totals
<1> QED BY <1>1, IndexInvariant, PTL

-----------------------------------------------------------------------------
(***************************************************************************)
(* The limits, the entries in use and the counters /health reads.          *)
(***************************************************************************)

\* Every step leaves the cache within its limits.
LEMMA LimitsStep ==
  IndexInv /\ WithinLimits /\ [Next]_vars => WithinLimits'
<1> SUFFICES ASSUME IndexInv, WithinLimits, [Next]_vars PROVE WithinLimits'
  OBVIOUS
<1>a. UNCHANGED entries => WithinLimits'
  BY DEF WithinLimits, TotalTokens, max_count, max_tokens
<1>b. /\ Cardinality(entries) \in Nat /\ TotalTokens \in Nat /\ kept \in Nat
      /\ TotalTokens <= kept
  BY FS_CardinalityType
  DEF IndexInv, EntriesInv, Totals, TotalTokens, TypeInv, TypeOK
<1>1. CASE Find \/ Collect
  BY <1>1, FindEntries
  DEF IndexInv, TypeInv, WithinLimits, max_count, max_tokens
<1>2. CASE Evict
  <2>1. /\ Cardinality(entries') = Cardinality(entries) - 1
        /\ TotalTokens' <= TotalTokens /\ EntriesInv'
    BY <1>2, EvictEntries DEF IndexInv, TypeInv
  <2>2. TotalTokens' \in Nat
    BY <2>1, FS_CardinalityType DEF EntriesInv, Totals, TotalTokens
  <2>3. /\ Cardinality(entries) <= max_count /\ TotalTokens <= max_tokens
    BY DEF WithinLimits
  <2>4. /\ Cardinality(entries') <= max_count /\ TotalTokens' <= max_tokens
    BY <1>b, <2>1, <2>2, <2>3, LimitsAreNat
  <2> QED BY <2>4 DEF WithinLimits, max_count, max_tokens
<1>3. CASE Push
  <2>1. /\ Cardinality(entries') = Cardinality(entries) + 1
        /\ TotalTokens' = TotalTokens + Len(Head(fresh))
    BY <1>3, PushEntries DEF IndexInv
  <2>2. fresh # <<>>
    BY <1>3 DEF Push, PushReached, IndexInv, TypeInv, LoopInv
  <2>3. Head(fresh) = fresh[1] /\ 1 \in DOMAIN fresh /\ Head(fresh) \in States
    BY <2>2, HeadTailProperties DEF IndexInv, TypeInv, TypeOK
  <2>4. max_count > 0 /\ Len(Head(fresh)) <= max_tokens /\ Len(Head(fresh)) \in Nat
    BY <2>3, StatesAreSequences, LenProperties, LimitsAreNat, LimitsAssumption
    DEF IndexInv, FreshInv, WorthKeeping
  <2>5. CASE entries = {}
    <3>1. Cardinality(entries) = 0 /\ TotalTokens = 0
      BY <2>5, FS_EmptySet DEF TotalTokens, Cells
    <3>2. Cardinality(entries') <= max_count /\ TotalTokens' <= max_tokens
      BY <2>1, <2>4, <3>1, LimitsAreNat
    <3> QED BY <3>2 DEF WithinLimits, max_count, max_tokens
  <2>6. CASE Fits(Len(Head(fresh)))
    <3>1. Cardinality(entries) < max_count /\ kept + Len(Head(fresh)) <= max_tokens
      BY <2>6 DEF Fits
    <3>2. Cardinality(entries') <= max_count /\ TotalTokens' <= max_tokens
      BY <1>b, <2>1, <2>4, <3>1, LimitsAreNat
    <3> QED BY <3>2 DEF WithinLimits, max_count, max_tokens
  <2> QED BY <1>3, <2>5, <2>6 DEF Push, PushReached
<1>4. CASE StartBatch \/ BeginRun \/ RunDone \/ RunFails \/ BeginAdds \/ Add
  BY <1>4, <1>a
  DEF StartBatch, BeginRun, RunDone, RunFails, BeginAdds, Add, indexVars
<1>5. CASE Publish \/ PushFails \/ ReadCount \/ ReadTokens
  BY <1>5, <1>a DEF Publish, PushFails, ReadCount, ReadTokens, indexVars
<1>6. CASE UNCHANGED vars
  BY <1>6, <1>a DEF vars, indexVars
<1> QED
  BY <1>1, <1>2, <1>3, <1>4, <1>5, <1>6 DEF Next, ModelStep

\* The index never holds more states or more tokens than its limits, even
\* when a push throws.
THEOREM LimitsHold == Spec => []WithinLimits
<1>1. Init => WithinLimits
  <2> SUFFICES ASSUME Init PROVE WithinLimits
    OBVIOUS
  <2>1. entries = {} /\ Cells(entries) = {}
    BY DEF Init, Cells
  <2> QED BY <2>1, FS_EmptySet, LimitsAreNat DEF WithinLimits, TotalTokens
<1> QED BY <1>1, LimitsStep, IndexInvariant, PTL DEF Spec

\* Every step keeps the states in use in the cache.
LEMMA InUseStep ==
  IndexInv /\ InUseAreKept /\ [Next]_vars => InUseAreKept'
<1> SUFFICES ASSUME IndexInv, InUseAreKept, [Next]_vars PROVE InUseAreKept'
  OBVIOUS
<1>a. InUse' \subseteq InUse /\ KeptStates' = KeptStates => InUseAreKept'
  BY DEF InUseAreKept
<1>b. InUse' = {} => InUseAreKept'
  BY DEF InUseAreKept
<1>c. DOMAIN found = 1..Len(found) /\ Len(found) \in Nat /\ next \in Nat
      /\ Len(batch) \in Nat
  BY LenProperties DEF IndexInv, TypeInv, TypeOK
<1>1. CASE StartBatch
  <2>1. found' = <<>>
    BY <1>1 DEF StartBatch
  <2>2. InUse' = {}
    BY <2>1 DEF InUse
  <2> QED BY <2>2, <1>b
<1>2. CASE Find
  <2>1. KeptStates' = KeptStates
    BY <1>2, FindEntries DEF IndexInv, TypeInv
  <2>2. phase = "find" /\ phase' = "find"
    BY <1>2 DEF Find
  <2>3. PICK x : found' = Append(found, x) /\ (x # <<>> => x[1] \in KeptStates)
    BY <1>2 DEF Find, Hit, Miss, KeptStates
  <2>4. /\ DOMAIN found' = 1..(Len(found) + 1)
        /\ \A j \in DOMAIN found : found'[j] = found[j]
        /\ found'[Len(found) + 1] = x
    BY <2>3, <1>c DEF IndexInv, TypeInv, TypeOK
  <2>5. \A j \in DOMAIN found' : found'[j] # <<>> => found'[j][1] \in KeptStates
    <3>1. \A j \in DOMAIN found : found[j] # <<>> => found[j][1] \in KeptStates
      BY <2>2 DEF InUseAreKept, InUse
    <3> QED BY <2>3, <2>4, <3>1, <1>c
  <2> QED BY <2>1, <2>5 DEF InUseAreKept, InUse
<1>3. CASE BeginRun \/ RunFails
  <2>1. InUse' \subseteq InUse /\ KeptStates' = KeptStates
    BY <1>3 DEF BeginRun, RunFails, InUse, KeptStates, indexVars
  <2> QED BY <2>1, <1>a
<1>4. CASE RunDone
  <2>1. InUse' \subseteq InUse /\ KeptStates' = KeptStates
    BY <1>4 DEF RunDone, InUse, KeptStates, indexVars
  <2> QED BY <2>1, <1>a
<1>5. CASE Collect
  <2>1. KeptStates' = KeptStates
    BY <1>5, FindEntries DEF IndexInv, TypeInv
  <2>2. InUse' \subseteq InUse
    BY <1>5, <1>c DEF Collect, InUse
  <2> QED BY <2>1, <2>2, <1>a
<1>6. CASE BeginAdds
  <2>1. InUse' \subseteq InUse /\ KeptStates' = KeptStates
    BY <1>6 DEF BeginAdds, InUse, KeptStates, indexVars
  <2> QED BY <2>1, <1>a
<1>7. CASE Add \/ Evict \/ Push \/ Publish \/ PushFails
  <2>1. /\ phase \in {"add", "evict", "publish"}
        /\ phase' \in {"add", "evict", "publish", "idle"}
        /\ UNCHANGED <<next, found>>
    BY <1>7 DEF Add, Evict, Push, Publish, PushFails, PushReached
  <2>2. next = Len(found) + 1
    BY <2>1 DEF IndexInv, TypeInv, LoopInv
  <2>3. InUse' = {}
    BY <2>1, <2>2, <1>c DEF InUse
  <2> QED BY <2>3, <1>b
<1>8. CASE ReadCount \/ ReadTokens
  <2>1. InUse' \subseteq InUse /\ KeptStates' = KeptStates
    BY <1>8 DEF ReadCount, ReadTokens, InUse, KeptStates, indexVars
  <2> QED BY <2>1, <1>a
<1>9. CASE UNCHANGED vars
  <2>1. InUse' \subseteq InUse /\ KeptStates' = KeptStates
    BY <1>9 DEF vars, InUse, KeptStates, indexVars
  <2> QED BY <2>1, <1>a
<1> QED
  BY <1>1, <1>2, <1>3, <1>4, <1>5, <1>6, <1>7, <1>8, <1>9 DEF Next, ModelStep

\* No entry is evicted while the model holds a pointer to it.
THEOREM NoEntryFreedInUse == Spec => []InUseAreKept
<1>1. Init => InUseAreKept
  BY DEF Init, InUseAreKept, InUse
<1> QED BY <1>1, InUseStep, IndexInvariant, PTL DEF Spec

\* As long as no push throws, an eviction is needed: without it the count or
\* the total of tokens would exceed its limit.
THEOREM EvictionsAreNeeded == ~PushMayFail => (Spec => EvictsOnlyWhenNeeded)
<1> SUFFICES ASSUME ~PushMayFail PROVE Spec => EvictsOnlyWhenNeeded
  OBVIOUS
<1>1. IndexInv /\ [Next]_vars =>
        [Cardinality(entries') < Cardinality(entries) =>
           \/ Cardinality(entries) >= max_count
           \/ TotalTokens + Len(Head(fresh)) > max_tokens]_vars
  <2> SUFFICES ASSUME IndexInv, [Next]_vars,
                      Cardinality(entries') < Cardinality(entries)
               PROVE  \/ Cardinality(entries) >= max_count
                      \/ TotalTokens + Len(Head(fresh)) > max_tokens
    OBVIOUS
  <2>1. Cardinality(entries) \in Nat
    BY FS_CardinalityType DEF IndexInv, EntriesInv, Totals
  <2>2. ~UNCHANGED entries
    BY <2>1
  <2>3. ~(Find \/ Collect)
    BY <2>1, FindEntries DEF IndexInv, TypeInv
  <2>4. ~Push
    BY <2>1, PushEntries DEF IndexInv
  <2>5. Evict
    BY <2>2, <2>3, <2>4
    DEF Next, ModelStep, StartBatch, BeginRun, RunDone, RunFails, BeginAdds,
        Add, Publish, PushFails, ReadCount, ReadTokens, vars, indexVars
  <2>6. ~Fits(Len(Head(fresh))) /\ fresh # <<>>
    BY <2>5 DEF Evict, IndexInv, TypeInv, LoopInv
  <2>7. kept = TotalTokens /\ kept \in Nat
    BY DEF IndexInv, EntriesInv, Totals, KeptIsTotal, TypeInv, TypeOK
  <2>8. Len(Head(fresh)) \in Nat
    BY <2>6, HeadTailProperties, StatesAreSequences, LenProperties
    DEF IndexInv, TypeInv, TypeOK
  <2> QED BY <2>1, <2>6, <2>7, <2>8, LimitsAreNat DEF Fits
<1> QED BY <1>1, IndexInvariant, PTL DEF Spec, EvictsOnlyWhenNeeded

\* Only a failed push moves kept_ away from the entries' tokens, and only up.
LEMMA DriftGrows ==
  ASSUME IndexInv, [Next]_vars
  PROVE  Drift \in Nat /\ Drift' \in Int /\ Drift <= Drift'
<1>1. TotalTokens \in Nat /\ kept \in Nat /\ TotalTokens <= kept
  BY FS_CardinalityType
  DEF IndexInv, EntriesInv, Totals, TotalTokens, TypeInv, TypeOK
<1>2. Drift \in Nat
  BY <1>1 DEF Drift
<1>3. ASSUME UNCHANGED <<entries, kept>> PROVE Drift' = Drift
  BY <1>3 DEF Drift, TotalTokens
<1>4. ASSUME fresh # <<>> PROVE Len(Head(fresh)) \in Nat
  BY <1>4, HeadTailProperties, StatesAreSequences, LenProperties
  DEF IndexInv, TypeInv, TypeOK
<1>5. CASE Find \/ Collect
  <2>1. TotalTokens' = TotalTokens
    BY <1>5, FindEntries DEF IndexInv, TypeInv
  <2>2. kept' = kept
    BY <1>5 DEF Find, Collect
  <2> QED BY <1>2, <2>1, <2>2 DEF Drift
<1>6. CASE Evict
  <2>1. PICK e \in entries : kept' = kept - Len(e.tokens) /\ entries' = entries \ {e}
    BY <1>6 DEF Evict
  <2>2. TotalTokens' = TotalTokens - Len(e.tokens) /\ Len(e.tokens) \in Nat
    BY <2>1, EvictTotals DEF IndexInv, TypeInv, EntriesInv, TotalTokens
  <2> QED BY <1>1, <1>2, <2>1, <2>2 DEF Drift
<1>7. CASE Push
  <2>1. TotalTokens' = TotalTokens + Len(Head(fresh))
    BY <1>7, PushEntries DEF IndexInv
  <2>2. kept' = kept + Len(Head(fresh)) /\ fresh # <<>>
    BY <1>7 DEF Push, PushReached, IndexInv, TypeInv, LoopInv
  <2> QED BY <1>1, <1>2, <1>4, <2>1, <2>2 DEF Drift
<1>8. CASE PushFails
  <2>1. kept' = kept + Len(Head(fresh)) /\ fresh # <<>> /\ entries' = entries
    BY <1>8 DEF PushFails, PushReached, IndexInv, TypeInv, LoopInv
  <2>2. TotalTokens' = TotalTokens
    BY <2>1 DEF TotalTokens
  <2> QED BY <1>1, <1>2, <1>4, <2>1, <2>2 DEF Drift
<1>9. CASE \/ StartBatch \/ BeginRun \/ RunDone \/ RunFails \/ BeginAdds \/ Add
           \/ Publish \/ ReadCount \/ ReadTokens \/ UNCHANGED vars
  <2>1. UNCHANGED <<entries, kept>>
    BY <1>9
    DEF StartBatch, BeginRun, RunDone, RunFails, BeginAdds, Add, Publish,
        ReadCount, ReadTokens, vars, indexVars
  <2> QED BY <1>2, <1>3, <2>1
<1> QED
  BY <1>5, <1>6, <1>7, <1>8, <1>9 DEF Next, ModelStep

\* What /health can read: each counter is set only when an add has ended the
\* evictions, and stays what the entries are until the next one begins.
PublishedInv ==
  /\ count <= max_count
  /\ kept_tokens <= max_tokens + Drift
  /\ ReportWithinLimits
  /\ ~PushMayFail => /\ phase # "evict" => count = Cardinality(entries)
                     /\ phase \notin {"evict", "publish"} => kept_tokens = kept

\* Every step keeps the published counters what the entries were when the evictions ended.
LEMMA PublishedStep ==
  ASSUME IndexInv, WithinLimits, WithinLimits', PublishedInv,
         [Next]_vars
  PROVE  PublishedInv'
<1> USE DEF PublishedInv, ReportWithinLimits, max_count, max_tokens, indexVars,
            readerVars
<1>a. /\ max_tokens \in Nat /\ kept_tokens \in Nat /\ kept \in Nat
      /\ report \in [count : Nat, tokens : Nat]
  BY LimitsAreNat DEF IndexInv, TypeInv, TypeOK
<1>b. Drift \in Nat /\ Drift' \in Int /\ Drift <= Drift'
  BY DriftGrows
<1>c. ASSUME UNCHANGED <<kept_tokens, report>>
      PROVE  /\ kept_tokens' <= max_tokens + Drift'
             /\ report'.tokens <= max_tokens + Drift'
  <2> DEFINE before == Drift
             after == Drift'
  <2>1. /\ before \in Nat /\ after \in Int /\ before <= after
        /\ kept_tokens <= max_tokens + before /\ report.tokens <= max_tokens + before
    BY <1>b
  <2>2. report.tokens \in Nat /\ report' = report /\ kept_tokens' = kept_tokens
    BY <1>a, <1>c
  <2>3. kept_tokens <= max_tokens + after /\ report.tokens <= max_tokens + after
    <3> HIDE DEF before, after
    <3> QED BY <1>a, <2>1, <2>2
  <2> QED BY <2>2, <2>3
<1>1. CASE Find \/ Collect
  <2>1. Cardinality(entries') = Cardinality(entries)
    BY <1>1, FindEntries DEF IndexInv, TypeInv
  <2>2. /\ phase \notin {"evict", "publish"} /\ phase' = phase
        /\ UNCHANGED <<kept, count, kept_tokens, report>>
    BY <1>1 DEF Find, Collect
  <2> QED BY <1>c, <2>1, <2>2
<1>2. CASE Evict
  BY <1>2, <1>c DEF Evict
<1>3. CASE Push
  <2>1. Cardinality(entries') <= max_count
    BY DEF WithinLimits
  <2>2. /\ count' = Cardinality(entries') /\ phase' = "publish"
        /\ UNCHANGED <<kept_tokens, report>>
    BY <1>3 DEF Push
  <2> QED BY <1>c, <2>1, <2>2
<1>4. CASE Publish
  <2>1. /\ phase = "publish" /\ phase' = "add" /\ kept_tokens' = kept
        /\ UNCHANGED <<entries, kept, count, report>>
    BY <1>4 DEF Publish
  <2>2. TotalTokens <= max_tokens /\ TotalTokens \in Nat
    BY FS_CardinalityType
    DEF WithinLimits, IndexInv, EntriesInv, Totals, TotalTokens
  <2>3. kept <= max_tokens + Drift
    BY <1>a, <2>2 DEF Drift
  <2>4. Drift' = Drift
    BY <2>1 DEF Drift, TotalTokens
  <2> QED BY <2>1, <2>3, <2>4
<1>5. CASE StartBatch \/ BeginRun \/ RunDone \/ RunFails \/ BeginAdds \/ Add
  BY <1>5, <1>c DEF StartBatch, BeginRun, RunDone, RunFails, BeginAdds, Add
<1>6. CASE PushFails
  BY <1>6, <1>c DEF PushFails
<1>7. CASE ReadCount \/ ReadTokens
  <2>1. /\ \/ report' = [report EXCEPT !.count = count]
           \/ report' = [report EXCEPT !.tokens = kept_tokens]
        /\ UNCHANGED <<entries, kept, count, kept_tokens, phase>>
    BY <1>7 DEF ReadCount, ReadTokens
  <2>2. Drift' = Drift
    BY <2>1 DEF Drift, TotalTokens
  <2>3. report'.count <= max_count /\ report'.tokens <= max_tokens + Drift
    BY <1>a, <2>1
  <2> QED BY <2>1, <2>2, <2>3
<1>8. CASE UNCHANGED vars
  BY <1>8, <1>c DEF vars
<1> QED
  BY <1>1, <1>2, <1>3, <1>4, <1>5, <1>6, <1>7, <1>8 DEF Next, ModelStep

\* The invariant of what was published holds of every state.
LEMMA PublishedInvariant == Spec => []PublishedInv
<1>1. ASSUME Init PROVE PublishedInv
  <2>1. TotalTokens = 0
    BY <1>1, FS_EmptySet DEF Init, TotalTokens, Cells
  <2>2. Drift = 0
    BY <1>1, <2>1 DEF Init, Drift
  <2> QED
    BY <1>1, <2>2, FS_EmptySet, LimitsAreNat
    DEF Init, PublishedInv, ReportWithinLimits
<1>2. IndexInv /\ WithinLimits /\ WithinLimits' /\ PublishedInv /\ [Next]_vars
        => PublishedInv'
  BY PublishedStep
<1> QED BY <1>1, <1>2, IndexInvariant, LimitsHold, PTL DEF Spec

\* /health never reads more than the limits, but for the tokens that failed
\* pushes have left in kept_.
THEOREM HealthWithinLimits == Spec => []ReportWithinLimits
<1>1. PublishedInv => ReportWithinLimits
  BY DEF PublishedInv
<1> QED BY <1>1, PublishedInvariant, PTL

\* As long as no push throws, the counters are those of the entries between
\* batches.
THEOREM HealthCountsEntries == ~PushMayFail => (Spec => []PublishedWhenIdle)
<1> SUFFICES ASSUME ~PushMayFail PROVE Spec => []PublishedWhenIdle
  OBVIOUS
<1>1. IndexInv /\ PublishedInv => PublishedWhenIdle
  BY DEF PublishedInv, PublishedWhenIdle, IndexInv, EntriesInv, Totals, KeptIsTotal
<1> QED BY <1>1, PublishedInvariant, IndexInvariant, PTL

-----------------------------------------------------------------------------
(***************************************************************************)
(* The index implements LruCache: the entries in the order of their last   *)
(* use.  That there is such an order, and only one, is kept by every step. *)
(***************************************************************************)

\* A set of numbers has a least one.
LEMMA Least ==
  ASSUME NEW T \in SUBSET Nat, T # {}
  PROVE  \E x \in T : \A y \in T : ~ (y < x)
<1>1. IsWellFoundedOn(OpToRel(<, Nat), Nat)
  BY NatLessThanWellFounded
<1>2. \A x, y \in Nat : <<x, y>> \in OpToRel(<, Nat) <=> x < y
  BY DEF OpToRel
<1>3. PICK R : IsWellFoundedOn(R, Nat) /\ \A x, y \in Nat : <<x, y>> \in R <=> x < y
  BY <1>1, <1>2
<1>4. PICK x \in T : \A y \in T : ~ (<<y, x>> \in R)
  <2>1. IsWellFoundedOn(R, Nat) /\ T \subseteq Nat
    BY <1>3
  <2> QED BY <2>1, WFMin, Zenon
<1>5. \A y \in T : <<y, x>> \in R <=> y < x
  BY <1>3
<1> QED BY <1>4, <1>5

\* There is one order at most: two would differ at a first place, and the entry
\* each has there would be used before the other.
LEMMA OrderIsOne ==
  ASSUME NEW E, Cardinality(E) \in Nat, \A e \in E : e.used \in Int,
         NEW q, Ordered(q, E), NEW r, Ordered(r, E)
  PROVE  q = r
<1> DEFINE n == Cardinality(E)
           D == {i \in 1..n : q[i] # r[i]}
<1>1. ASSUME NEW a, Ordered(a, E), NEW b, Ordered(b, E), NEW i \in 1..n,
             \A j \in 1..n : j < i => a[j] = b[j], a[i] # b[i]
      PROVE  b[i].used < a[i].used
  <2>1. a \in [1..n -> E] /\ b \in [1..n -> E]
    BY <1>1 DEF Ordered
  <2>2. PICK m \in 1..n : b[m] = a[i]
    BY <1>1, <2>1 DEF Ordered
  <2>3. ~(m < i)
    <3> SUFFICES ASSUME m < i PROVE FALSE
      OBVIOUS
    <3>1. a[m] = a[i]
      BY <1>1, <2>2
    <3>2. a[m].used < a[i].used /\ a[i].used \in Int
      BY <1>1, <2>1 DEF Ordered
    <3> QED BY <3>1, <3>2
  <2>4. i < m
    BY <1>1, <2>2, <2>3
  <2> QED BY <1>1, <2>1, <2>2, <2>4 DEF Ordered
<1>2. D = {}
  <2> SUFFICES ASSUME D # {} PROVE FALSE
    OBVIOUS
  <2>1. PICK i \in D : \A j \in D : ~(j < i)
    <3>1. D \in SUBSET Nat
      OBVIOUS
    <3> HIDE DEF D
    <3> QED BY <3>1, Least
  <2>2. i \in 1..n /\ q[i] # r[i] /\ \A j \in 1..n : j < i => q[j] = r[j]
    BY <2>1
  <2>3. r[i].used < q[i].used
    BY <1>1, <2>2
  <2>4. q[i].used < r[i].used
    BY <1>1, <2>2
  <2>5. q[i] \in E /\ r[i] \in E
    BY <2>2 DEF Ordered
  <2>6. q[i].used \in Int /\ r[i].used \in Int
    BY <2>5
  <2> QED BY <2>3, <2>4, <2>6
<1>3. q \in [1..n -> E] /\ r \in [1..n -> E] /\ \A i \in 1..n : q[i] = r[i]
  BY <1>2 DEF Ordered
<1> HIDE DEF n
<1>4. q = [i \in 1..n |-> q[i]] /\ r = [i \in 1..n |-> r[i]]
  BY <1>3
<1>5. [i \in 1..n |-> q[i]] = [i \in 1..n |-> r[i]]
  BY <1>3
<1> QED BY <1>4, <1>5

\* Entries that can be put in the order of their use.
Sortable(E) == /\ IsFiniteSet(E)
               /\ \A e \in E : e.used \in Int /\ e.tokens \in States

InOrder(E) == CHOOSE q \in [1..Cardinality(E) -> E] : Ordered(q, E)
TokensOf(q) == [i \in DOMAIN q |-> q[i].tokens]

\* The entries in the order of their use.
LEMMA OrderIs ==
  ASSUME NEW E, Sortable(E), NEW q, Ordered(q, E)
  PROVE  /\ InOrder(E) = q
         /\ Cardinality(E) \in Nat
         /\ q \in Seq(E) /\ Len(q) = Cardinality(E) /\ DOMAIN q = 1..Cardinality(E)
         /\ \A i \in 1..Cardinality(E) :
              q[i] \in E /\ q[i].used \in Int /\ q[i].tokens \in States
<1>1. Cardinality(E) \in Nat
  BY FS_CardinalityType DEF Sortable
<1>2. q \in [1..Cardinality(E) -> E]
  BY DEF Ordered
<1>3. Ordered(InOrder(E), E)
  BY <1>2 DEF InOrder
<1>4. InOrder(E) = q
  BY <1>1, <1>3, OrderIsOne DEF Sortable
<1> DEFINE n == Cardinality(E)
<1> HIDE DEF n
<1>5. n \in Nat /\ q \in [1..n -> E]
  BY <1>1, <1>2 DEF n
<1>6. q \in Seq(E) /\ Len(q) = n /\ DOMAIN q = 1..n
  BY <1>5
<1>7. \A i \in 1..n : q[i] \in E /\ q[i].used \in Int /\ q[i].tokens \in States
  BY <1>5 DEF Sortable
<1> QED BY <1>1, <1>4, <1>6, <1>7 DEF n

\* The states of the entries in that order.
LEMMA TokensType ==
  ASSUME NEW E, Sortable(E), NEW q, Ordered(q, E)
  PROVE  /\ TokensOf(q) \in Seq(States)
         /\ Len(TokensOf(q)) = Len(q) /\ DOMAIN TokensOf(q) = 1..Len(q)
         /\ \A i \in 1..Len(q) : TokensOf(q)[i] = q[i].tokens
         /\ Lru!ToSet(TokensOf(q)) = {e.tokens : e \in E}
<1> DEFINE n == Cardinality(E)
           t == TokensOf(q)
<1>1. /\ n \in Nat /\ Len(q) = n /\ DOMAIN q = 1..n
      /\ \A i \in 1..n : q[i] \in E /\ q[i].tokens \in States
  BY OrderIs
<1>2. t = [i \in 1..n |-> q[i].tokens]
  BY <1>1 DEF TokensOf
<1>3. \A e \in E : \E i \in 1..n : q[i] = e
  BY <1>1 DEF Ordered
<1> HIDE DEF n, t
<1>4. t \in [1..n -> States]
  BY <1>1, <1>2
<1>5. t \in Seq(States) /\ Len(t) = n /\ DOMAIN t = 1..n /\ \A i \in 1..n : t[i] = q[i].tokens
  BY <1>1, <1>2, <1>4
<1>6. Lru!ToSet(t) = {e.tokens : e \in E}
  BY <1>1, <1>3, <1>5 DEF Lru!ToSet
<1> QED BY <1>1, <1>5, <1>6 DEF t

\* A sequence without its i-th element.
LEMMA RemoveAtIs ==
  ASSUME NEW S, NEW s \in Seq(S), NEW i \in 1..Len(s)
  PROVE  /\ Lru!RemoveAt(s, i) \in Seq(S)
         /\ Len(Lru!RemoveAt(s, i)) = Len(s) - 1
         /\ \A j \in 1..(Len(s) - 1) :
              Lru!RemoveAt(s, i)[j] = IF j < i THEN s[j] ELSE s[j + 1]
<1> DEFINE a == SubSeq(s, 1, i - 1)
           b == SubSeq(s, i + 1, Len(s))
           n == Len(s)
<1>1. n \in Nat /\ i \in Nat /\ i >= 1 /\ i <= n
  OBVIOUS
<1>2. a \in Seq(S) /\ Len(a) = i - 1 /\ \A j \in 1..(i - 1) : a[j] = s[j]
  BY <1>1
<1>3. b \in Seq(S) /\ Len(b) = n - i /\ \A j \in 1..(n - i) : b[j] = s[i + j]
  BY <1>1
<1>4. Lru!RemoveAt(s, i) = a \o b
  BY DEF Lru!RemoveAt
<1> HIDE DEF a, b, n
<1>5. /\ a \o b \in Seq(S) /\ Len(a \o b) = Len(a) + Len(b)
      /\ \A j \in 1..(Len(a) + Len(b)) :
           (a \o b)[j] = IF j <= Len(a) THEN a[j] ELSE b[j - Len(a)]
  BY <1>2, <1>3, ConcatProperties
<1>6. Len(a) + Len(b) = n - 1
  BY <1>1, <1>2, <1>3
<1>7. ASSUME NEW j \in 1..(n - 1) PROVE (a \o b)[j] = IF j < i THEN s[j] ELSE s[j + 1]
  <2>0. (a \o b)[j] = IF j <= i - 1 THEN a[j] ELSE b[j - (i - 1)]
    BY <1>2, <1>5, <1>6
  <2>1. CASE j < i
    <3>1. j \in 1..(i - 1) /\ j <= i - 1
      BY <1>1, <2>1
    <3> QED BY <1>2, <2>0, <2>1, <3>1
  <2>2. CASE ~(j < i)
    <3> DEFINE k == j - (i - 1)
    <3>1. k \in 1..(n - i) /\ i + k = j + 1 /\ ~(j <= i - 1)
      BY <1>1, <2>2
    <3>2. (a \o b)[j] = b[k]
      BY <2>0, <3>1
    <3> HIDE DEF k
    <3>3. b[k] = s[i + k]
      BY <1>3, <3>1
    <3> QED BY <2>2, <3>1, <3>2, <3>3
  <2> QED BY <2>1, <2>2
<1>8. Len(a \o b) = n - 1
  BY <1>5, <1>6
<1> QED BY <1>4, <1>5, <1>7, <1>8 DEF n

\* The order of the entries that stay when one goes.
LEMMA OrderWithout ==
  ASSUME NEW E, Sortable(E), NEW q, Ordered(q, E), NEW i \in 1..Cardinality(E)
  PROVE  /\ Sortable(E \ {q[i]})
         /\ Ordered(Lru!RemoveAt(q, i), E \ {q[i]})
         /\ TokensOf(Lru!RemoveAt(q, i)) = Lru!RemoveAt(TokensOf(q), i)
<1> DEFINE n == Cardinality(E)
           r == Lru!RemoveAt(q, i)
           F == E \ {q[i]}
<1>1. /\ n \in Nat /\ q \in Seq(E) /\ Len(q) = n /\ DOMAIN q = 1..n
      /\ \A j \in 1..n : q[j] \in E /\ q[j].used \in Int /\ q[j].tokens \in States
  BY OrderIs
<1>2. /\ r \in Seq(E) /\ Len(r) = n - 1
      /\ \A j \in 1..(n - 1) : r[j] = IF j < i THEN q[j] ELSE q[j + 1]
  <2>1. i \in 1..Len(q)
    BY <1>1
  <2> QED BY <1>1, <2>1, RemoveAtIs
<1>3. Sortable(F) /\ Cardinality(F) = n - 1
  <2>1. q[i] \in E /\ IsFiniteSet(E)
    BY <1>1 DEF Sortable
  <2>2. IsFiniteSet(F) /\ Cardinality(F) = n - 1
    BY <2>1, FS_RemoveElement
  <2> QED BY <2>2 DEF Sortable
<1>4. /\ \A e \in E : \E j \in 1..n : q[j] = e
      /\ \A j, k \in 1..n : j < k => q[j].used < q[k].used
  BY <1>1 DEF Ordered
<1>5. \A j \in 1..n : j # i => q[j] # q[i]
  BY <1>1, <1>4
<1> DEFINE m(j) == IF j < i THEN j ELSE j + 1
<1>6. i \in 1..n
  OBVIOUS
<1> HIDE DEF n, r
<1>7. \A j \in 1..(n - 1) : m(j) \in 1..n /\ m(j) # i /\ r[j] = q[m(j)]
  BY <1>1, <1>2, <1>6
<1>8. \A j, k \in 1..(n - 1) : j < k => m(j) < m(k)
  BY <1>1, <1>6
<1>9. \A j \in 1..n : j # i => \E k \in 1..(n - 1) : m(k) = j
  <2> SUFFICES ASSUME NEW j \in 1..n, j # i PROVE \E k \in 1..(n - 1) : m(k) = j
    OBVIOUS
  <2>1. CASE j < i
    <3>1. j \in 1..(n - 1) /\ m(j) = j
      BY <1>1, <1>6, <2>1
    <3> QED BY <3>1
  <2>2. CASE j > i
    <3>1. j - 1 \in 1..(n - 1) /\ m(j - 1) = j
      BY <1>1, <1>6, <2>2
    <3> QED BY <3>1
  <2> QED BY <1>1, <1>6, <2>1, <2>2
<1> HIDE DEF m
<1>10. DOMAIN r = 1..(n - 1)
  BY <1>2
<1>11. \A j \in 1..(n - 1) : r[j] \in F
  BY <1>1, <1>5, <1>7
<1>12. \A e \in F : \E k \in 1..(n - 1) : r[k] = e
  <2> SUFFICES ASSUME NEW e \in F PROVE \E k \in 1..(n - 1) : r[k] = e
    OBVIOUS
  <2>1. PICK j \in 1..n : q[j] = e /\ j # i
    BY <1>4
  <2>2. PICK k \in 1..(n - 1) : m(k) = j
    BY <1>9, <2>1
  <2> QED BY <1>7, <2>1, <2>2
<1>13. \A j, k \in 1..(n - 1) : j < k => r[j].used < r[k].used
  BY <1>4, <1>7, <1>8
<1>14. r \in [1..(n - 1) -> F]
  <2>1. r = [j \in 1..(n - 1) |-> r[j]]
    BY <1>2, <1>10
  <2> QED BY <1>11, <2>1
<1>15. Ordered(r, F)
  <2> HIDE DEF F
  <2> QED BY <1>3, <1>10, <1>12, <1>13, <1>14 DEF Ordered
<1>16. TokensOf(r) = Lru!RemoveAt(TokensOf(q), i)
  <2> DEFINE t == TokensOf(q)
  <2>1. t \in Seq(States) /\ Len(t) = n /\ \A j \in 1..n : t[j] = q[j].tokens
    BY <1>1, TokensType
  <2>2. i \in 1..Len(t)
    BY <1>6, <2>1
  <2> HIDE DEF t
  <2>3. /\ Lru!RemoveAt(t, i) \in Seq(States) /\ Len(Lru!RemoveAt(t, i)) = n - 1
        /\ \A j \in 1..(n - 1) : Lru!RemoveAt(t, i)[j] = IF j < i THEN t[j] ELSE t[j + 1]
    BY <2>1, <2>2, RemoveAtIs
  <2>4. /\ TokensOf(r) \in Seq(States) /\ Len(TokensOf(r)) = n - 1
        /\ \A j \in 1..(n - 1) : TokensOf(r)[j] = r[j].tokens
    <3> HIDE DEF F
    <3> QED BY <1>2, <1>3, <1>15, TokensType
  <2>5. \A j \in 1..(n - 1) : TokensOf(r)[j] = Lru!RemoveAt(t, i)[j]
    <3> SUFFICES ASSUME NEW j \in 1..(n - 1) PROVE TokensOf(r)[j] = Lru!RemoveAt(t, i)[j]
      OBVIOUS
    <3>1. j \in 1..n /\ j + 1 \in 1..n
      BY <1>1
    <3> QED BY <1>2, <2>1, <2>3, <2>4, <3>1
  <2>6. TokensOf(r) = Lru!RemoveAt(t, i)
    <3> DEFINE u == TokensOf(r)
               v == Lru!RemoveAt(t, i)
    <3>1. /\ u \in Seq(States) /\ v \in Seq(States)
          /\ Len(u) = Len(v) /\ \A j \in 1..Len(u) : u[j] = v[j]
      BY <2>3, <2>4, <2>5
    <3> HIDE DEF u, v
    <3>2. u = v
      BY <3>1, SeqEqual
    <3> QED BY <3>2 DEF u, v
  <2> QED BY <2>6 DEF t
<1> QED BY <1>3, <1>15, <1>16 DEF r

\* The order of the entries when one more is used.
LEMMA OrderWith ==
  ASSUME NEW E, Sortable(E), NEW q, Ordered(q, E), NEW f,
         f.used \in Int, f.tokens \in States, \A e \in E : e.used < f.used
  PROVE  /\ Sortable(E \union {f})
         /\ Ordered(Append(q, f), E \union {f})
         /\ TokensOf(Append(q, f)) = Append(TokensOf(q), f.tokens)
<1> DEFINE n == Cardinality(E)
           r == Append(q, f)
           F == E \union {f}
<1>1. /\ n \in Nat /\ q \in Seq(E) /\ Len(q) = n /\ DOMAIN q = 1..n
      /\ \A j \in 1..n : q[j] \in E /\ q[j].used \in Int /\ q[j].tokens \in States
  BY OrderIs
<1>2. f \notin E
  <2> SUFFICES ASSUME f \in E PROVE FALSE
    OBVIOUS
  <2>1. f.used < f.used
    OBVIOUS
  <2> QED BY <2>1
<1>3. Sortable(F) /\ Cardinality(F) = n + 1
  <2>1. IsFiniteSet(E)
    BY DEF Sortable
  <2>2. IsFiniteSet(F) /\ Cardinality(F) = n + 1
    BY <1>2, <2>1, FS_AddElement
  <2> QED BY <2>2 DEF Sortable
<1>4. /\ \A e \in E : \E j \in 1..n : q[j] = e
      /\ \A j, k \in 1..n : j < k => q[j].used < q[k].used
  BY <1>1 DEF Ordered
<1>5. /\ r \in Seq(F) /\ Len(r) = n + 1 /\ r[n + 1] = f
      /\ \A j \in 1..n : r[j] = q[j]
  <2>1. q \in Seq(F) /\ f \in F
    BY <1>1
  <2> QED BY <1>1, <2>1, AppendProperties
<1> HIDE DEF n, r
<1>6. DOMAIN r = 1..(n + 1) /\ n + 1 \in 1..(n + 1)
      /\ (\A j \in 1..n : j \in 1..(n + 1)) /\ r \in [1..(n + 1) -> F]
  BY <1>1, <1>5
<1>7. \A e \in F : \E j \in 1..(n + 1) : r[j] = e
  <2> SUFFICES ASSUME NEW e \in F PROVE \E j \in 1..(n + 1) : r[j] = e
    OBVIOUS
  <2>1. CASE e = f
    BY <1>5, <1>6, <2>1
  <2>2. CASE e \in E
    BY <1>4, <1>5, <1>6, <2>2
  <2> QED BY <2>1, <2>2
<1>8. \A j, k \in 1..(n + 1) : j < k => r[j].used < r[k].used
  <2> SUFFICES ASSUME NEW j \in 1..(n + 1), NEW k \in 1..(n + 1), j < k
               PROVE  r[j].used < r[k].used
    OBVIOUS
  <2>1. j \in 1..n /\ (k = n + 1 \/ k \in 1..n)
    BY <1>1
  <2> QED BY <1>1, <1>4, <1>5, <2>1
<1>9. Ordered(r, F)
  <2> HIDE DEF F
  <2> QED BY <1>3, <1>6, <1>7, <1>8 DEF Ordered
<1>10. TokensOf(r) = Append(TokensOf(q), f.tokens)
  <2> DEFINE t == TokensOf(q)
             u == TokensOf(r)
             v == Append(t, f.tokens)
  <2>1. t \in Seq(States) /\ Len(t) = n /\ \A j \in 1..n : t[j] = q[j].tokens
    BY <1>1, TokensType
  <2>2. u \in Seq(States) /\ Len(u) = n + 1 /\ \A j \in 1..(n + 1) : u[j] = r[j].tokens
    <3> HIDE DEF F
    <3> QED BY <1>3, <1>5, <1>9, TokensType
  <2> HIDE DEF t, u
  <2>3. /\ v \in Seq(States) /\ Len(v) = n + 1 /\ v[n + 1] = f.tokens
        /\ \A j \in 1..n : v[j] = t[j]
    BY <2>1, AppendProperties
  <2> HIDE DEF v
  <2>4. \A j \in 1..(n + 1) : j \in 1..n \/ j = n + 1
    BY <1>1
  <2>5. \A j \in 1..Len(u) : u[j] = v[j]
    BY <1>5, <1>6, <2>1, <2>2, <2>3, <2>4
  <2>6. u = v
    BY <2>2, <2>3, <2>5, SeqEqual
  <2> QED BY <2>6 DEF t, u, v
<1> QED BY <1>3, <1>9, <1>10 DEF r

-----------------------------------------------------------------------------
\* What LruCache calls kept, incoming and hit (wasted is Drift).
Order == [i \in DOMAIN ByUse |-> ByUse[i].tokens]
Incoming == IF phase = "evict" THEN <<Head(fresh)>> ELSE <<>>
LastHit == IF phase = "find" /\ found # <<>> THEN found[Len(found)] ELSE <<>>

\* The entries can be put in the order of their last use.
OrderInv == \E q : Ordered(q, entries)

\* No two entries were used at once, so that they can be ordered.
LEMMA EntriesSortable ==
  ASSUME TypeOK, EntriesInv
  PROVE  Sortable(entries) /\ \A e \in entries : e.used \in 1..tick /\ tick \in Nat
BY DEF TypeOK, EntriesInv, Totals, Sortable

\* The mapped order is the states from the longest unused on.
LEMMA OrderIsTokens ==
  ASSUME Sortable(entries), NEW q, Ordered(q, entries)
  PROVE  Order = TokensOf(q)
<1>1. ByUse = InOrder(entries)
  BY DEF ByUse, InOrder
<1>2. ByUse = q
  BY <1>1, OrderIs
<1> QED BY <1>2 DEF Order, TokensOf

\* The same after a step.
LEMMA NextOrderIsTokens ==
  ASSUME Sortable(entries'), NEW q, Ordered(q, entries')
  PROVE  OrderInv' /\ Order' = TokensOf(q)
<1>1. ByUse' = InOrder(entries')
  BY DEF ByUse, InOrder, Ordered
<1>2. ByUse' = q
  BY <1>1, OrderIs
<1>3. Order' = TokensOf(q)
  BY <1>2 DEF Order, TokensOf
<1>4. OrderInv'
  BY DEF OrderInv, Ordered
<1> QED BY <1>3, <1>4

\* The mapped order lists each state that is kept once.
LEMMA OrderType ==
  ASSUME TypeOK, EntriesInv, OrderInv
  PROVE  /\ Order \in Seq(States) /\ Len(Order) = Cardinality(entries)
         /\ DOMAIN Order = 1..Len(Order) /\ Cardinality(entries) \in Nat
         /\ Lru!ToSet(Order) = KeptStates
<1>1. PICK q : Ordered(q, entries)
  BY DEF OrderInv
<1>2. Sortable(entries)
  BY EntriesSortable
<1>3. Order = TokensOf(q)
  BY <1>1, <1>2, OrderIsTokens
<1>4. Cardinality(entries) \in Nat /\ Len(q) = Cardinality(entries)
  BY <1>1, <1>2, OrderIs
<1>5. /\ TokensOf(q) \in Seq(States) /\ Len(TokensOf(q)) = Len(q)
      /\ DOMAIN TokensOf(q) = 1..Len(q)
      /\ Lru!ToSet(TokensOf(q)) = {e.tokens : e \in entries}
  BY <1>1, <1>2, TokensType
<1> QED BY <1>3, <1>4, <1>5 DEF KeptStates

\* A state used goes to the end of the order.
LEMMA OrderUse ==
  ASSUME TypeOK, EntriesInv, OrderInv, NEW e \in entries, Refresh(e)
  PROVE  /\ OrderInv'
         /\ \E i \in DOMAIN Order : /\ Order[i] = e.tokens
                                    /\ Order' = Append(Lru!RemoveAt(Order, i), e.tokens)
<1>1. PICK q : Ordered(q, entries)
  BY DEF OrderInv
<1>2. Sortable(entries) /\ \A g \in entries : g.used \in 1..tick /\ tick \in Nat
  BY EntriesSortable
<1>3. Order = TokensOf(q)
  BY <1>1, <1>2, OrderIsTokens
<1>4. DOMAIN q = 1..Cardinality(entries) /\ Len(q) = Cardinality(entries)
  BY <1>1, <1>2, OrderIs
<1>5. PICK i \in 1..Cardinality(entries) : q[i] = e
  BY <1>1, <1>4 DEF Ordered
<1> DEFINE f == [e EXCEPT !.used = tick + 1]
           F == entries \ {e}
           r == Lru!RemoveAt(q, i)
<1>6. entries' = F \union {f} /\ f.tokens = e.tokens /\ f.used = tick + 1
  BY DEF Refresh, TypeOK
<1>7. Sortable(F) /\ Ordered(r, F) /\ TokensOf(r) = Lru!RemoveAt(Order, i)
  BY <1>1, <1>2, <1>3, <1>5, OrderWithout
<1>8. f.used \in Int /\ f.tokens \in States /\ \A g \in F : g.used < f.used
  BY <1>2, <1>6 DEF Sortable
<1> HIDE DEF f, F, r
<1>9. /\ Sortable(F \union {f}) /\ Ordered(Append(r, f), F \union {f})
      /\ TokensOf(Append(r, f)) = Append(TokensOf(r), f.tokens)
  BY <1>7, <1>8, OrderWith
<1>10. OrderInv' /\ Order' = TokensOf(Append(r, f))
  BY <1>6, <1>9, NextOrderIsTokens
<1>11. i \in DOMAIN Order /\ Order[i] = e.tokens
  <2>1. DOMAIN TokensOf(q) = 1..Len(q) /\ \A j \in 1..Len(q) : TokensOf(q)[j] = q[j].tokens
    BY <1>1, <1>2, TokensType
  <2> QED BY <1>3, <1>4, <1>5, <2>1
<1>12. Order' = Append(Lru!RemoveAt(Order, i), e.tokens)
  BY <1>6, <1>7, <1>9, <1>10
<1> QED BY <1>10, <1>11, <1>12

\* The entry evicted is the first of the order.
LEMMA OrderEvict ==
  ASSUME TypeOK, EntriesInv, OrderInv, Evict
  PROVE  OrderInv' /\ Order # <<>> /\ Order' = Tail(Order)
<1>1. PICK q : Ordered(q, entries)
  BY DEF OrderInv
<1>2. Sortable(entries)
  BY EntriesSortable
<1>3. Order = TokensOf(q)
  BY <1>1, <1>2, OrderIsTokens
<1> DEFINE n == Cardinality(entries)
<1>4. /\ n \in Nat /\ q \in Seq(entries) /\ DOMAIN q = 1..n /\ Len(q) = n
      /\ \A j \in 1..n : q[j] \in entries /\ q[j].used \in Int
  BY <1>1, <1>2, OrderIs
<1>5. PICK e \in entries : LeastRecent(e) /\ entries' = entries \ {e}
  BY DEF Evict
<1>6. PICK i \in 1..n : q[i] = e
  BY <1>1, <1>4, <1>5 DEF Ordered
<1>7. i = 1
  <2> SUFFICES ASSUME i # 1 PROVE FALSE
    OBVIOUS
  <2>1. 1 \in 1..n /\ 1 < i
    BY <1>4, <1>6
  <2>2. q[1].used < q[i].used
    BY <1>1, <1>4, <1>6, <2>1 DEF Ordered
  <2>3. q[i].used <= q[1].used
    BY <1>4, <1>5, <1>6, <2>1 DEF LeastRecent
  <2> QED BY <1>4, <1>6, <2>1, <2>2, <2>3
<1>8. 1 \in 1..n /\ n >= 1
  BY <1>4, <1>6, <1>7
<1>9. /\ Sortable(entries \ {q[1]})
      /\ Ordered(Lru!RemoveAt(q, 1), entries \ {q[1]})
      /\ TokensOf(Lru!RemoveAt(q, 1)) = Lru!RemoveAt(Order, 1)
  BY <1>1, <1>2, <1>3, <1>8, OrderWithout
<1>10. OrderInv' /\ Order' = Lru!RemoveAt(Order, 1)
  <2>1. entries' = entries \ {q[1]}
    BY <1>5, <1>6, <1>7
  <2> QED BY <1>9, <2>1, NextOrderIsTokens
<1>11. Order \in Seq(States) /\ Len(Order) = n
  BY OrderType
<1>12. Order # <<>> /\ Lru!RemoveAt(Order, 1) = Tail(Order)
  <2> HIDE DEF n
  <2>1. Order # <<>> /\ 1 \in 1..Len(Order)
    BY <1>8, <1>11, EmptySeq
  <2>2. /\ Lru!RemoveAt(Order, 1) \in Seq(States) /\ Len(Lru!RemoveAt(Order, 1)) = n - 1
        /\ \A j \in 1..(n - 1) :
             Lru!RemoveAt(Order, 1)[j] = IF j < 1 THEN Order[j] ELSE Order[j + 1]
    BY <1>11, <2>1, RemoveAtIs
  <2>3. /\ Tail(Order) \in Seq(States) /\ Len(Tail(Order)) = n - 1
        /\ \A j \in 1..(n - 1) : Tail(Order)[j] = Order[j + 1]
    BY <1>11, <2>1, HeadTailProperties
  <2> DEFINE u == Lru!RemoveAt(Order, 1)
             v == Tail(Order)
  <2>4. /\ u \in Seq(States) /\ v \in Seq(States)
        /\ Len(u) = Len(v) /\ \A j \in 1..Len(u) : u[j] = v[j]
    BY <2>2, <2>3
  <2> HIDE DEF u, v
  <2>5. u = v
    BY <2>4, SeqEqual
  <2> QED BY <2>1, <2>5 DEF u, v
<1> QED BY <1>10, <1>12

\* A new state goes to the end of the order.
LEMMA OrderPush ==
  ASSUME TypeInv, EntriesInv, OrderInv, Push
  PROVE  OrderInv' /\ Order' = Append(Order, Head(fresh))
<1>1. PICK q : Ordered(q, entries)
  BY DEF OrderInv
<1>2. Sortable(entries) /\ \A e \in entries : e.used \in 1..tick /\ tick \in Nat
  BY EntriesSortable DEF TypeInv
<1>3. Order = TokensOf(q)
  BY <1>1, <1>2, OrderIsTokens
<1> DEFINE f == [tokens |-> Head(fresh), used |-> tick + 1, added |-> tick + 1]
<1>4. entries' = entries \union {f} /\ f.used = tick + 1 /\ f.tokens = Head(fresh)
  BY DEF Push
<1>5. Head(fresh) \in States /\ tick \in Nat
  BY HeadTailProperties DEF Push, PushReached, TypeInv, LoopInv, TypeOK
<1>6. f.used \in Int /\ f.tokens \in States /\ \A e \in entries : e.used < f.used
  BY <1>2, <1>5
<1> HIDE DEF f
<1>7. /\ Sortable(entries \union {f}) /\ Ordered(Append(q, f), entries \union {f})
      /\ TokensOf(Append(q, f)) = Append(TokensOf(q), f.tokens)
  BY <1>1, <1>2, <1>6, OrderWith
<1> QED BY <1>3, <1>4, <1>7, NextOrderIsTokens

\* With the same entries the order is the same.
LEMMA OrderUnmoved ==
  ASSUME OrderInv, entries' = entries
  PROVE  OrderInv' /\ Order' = Order
BY DEF OrderInv, Order, ByUse, Ordered

\* The limits are the same ones.
LEMMA LruFits ==
  ASSUME TypeOK, EntriesInv, OrderInv, NEW s \in States
  PROVE  /\ Lru!Total = TotalTokens
         /\ Lru!Fits(s) <=> Fits(Len(s))
         /\ TotalTokens \in Nat /\ kept \in Nat /\ Len(s) \in Nat
<1>1. Lru!ToSet(Order) = KeptStates /\ Len(Order) = Cardinality(entries)
  BY OrderType
<1>3. UNION {{k} \X DOMAIN k : k \in KeptStates} = Cells(entries)
  BY DEF KeptStates, Cells
<1>4. Lru!Total = TotalTokens
  <2>1. \A S : Lru!Cardinality(S) = Cardinality(S)
    BY DEF Lru!Cardinality, Cardinality, Lru!IsFiniteSet, IsFiniteSet
  <2> QED BY <1>1, <1>3, <2>1 DEF Lru!Total, Order, TotalTokens
<1>5. TotalTokens \in Nat /\ kept \in Nat
  BY FS_CardinalityType DEF EntriesInv, Totals, TotalTokens, TypeOK
<1>6. Len(s) \in Nat
  BY StatesAreSequences, LenProperties
<1>7. TotalTokens + (kept - TotalTokens) + Len(s) = kept + Len(s)
  BY <1>5, <1>6
<1>8. Lru!Fits(s) <=> Fits(Len(s))
  BY <1>1, <1>4, <1>7 DEF Lru!Fits, Fits, Order, Drift
<1> QED BY <1>4, <1>5, <1>6, <1>8

\* A step that moves nothing of the mapping is a stutter of the LRU cache.
LEMMA LruStutters ==
  ASSUME Order' = Order, Incoming' = Incoming, LastHit' = LastHit, Drift' = Drift
  PROVE  UNCHANGED Lru!vars
BY DEF Lru!vars, Order, Incoming, LastHit, Drift

\* Every step of the index is one of the specification's, or none.
LEMMA LruStep ==
  IndexInv /\ OrderInv /\ [Next]_vars => OrderInv' /\ [Lru!Next]_(Lru!vars)
<1> SUFFICES ASSUME IndexInv, OrderInv, [Next]_vars
             PROVE  OrderInv' /\ [Lru!Next]_(Lru!vars)
  OBVIOUS
<1>1. TypeInv /\ TypeOK /\ LoopInv /\ EntriesInv /\ FreshInv
  BY DEF IndexInv, TypeInv
<1>2. ASSUME Find \/ Collect
      PROVE  Drift' = Drift
  BY <1>1, <1>2, FindEntries DEF Drift, Find, Collect
<1>3. CASE Find
  <2>1. phase = "find" /\ phase' = "find" /\ Incoming = <<>> /\ Incoming' = <<>>
    BY <1>3 DEF Find, Incoming
  <2>2. ASSUME NEW s, found' = Append(found, s) PROVE LastHit' = s
    <3>1. found' # <<>> /\ found'[Len(found')] = s
      BY <1>1, <2>2 DEF TypeOK
    <3> QED BY <2>1, <3>1 DEF LastHit
  <2>3. ASSUME NEW e \in entries, Refresh(e), found' = Append(found, <<e.tokens>>)
        PROVE  OrderInv' /\ Lru!Find(e.tokens) /\ e.tokens \in States
    <3>1. /\ OrderInv'
          /\ \E i \in DOMAIN Order : /\ Order[i] = e.tokens
                                     /\ Order' = Append(Lru!RemoveAt(Order, i), e.tokens)
      BY <1>1, <2>3, OrderUse
    <3>2. LastHit' = <<e.tokens>>
      BY <2>2, <2>3
    <3>3. Lru!Find(e.tokens)
      BY <1>2, <1>3, <2>1, <3>1, <3>2
      DEF Lru!Find, Lru!Use, Order, Incoming, LastHit, Drift
    <3> QED BY <1>1, <3>1, <3>3 DEF TypeOK
  <2>4. ASSUME entries' = entries, found' = Append(found, <<>>)
        PROVE  OrderInv' /\ Lru!Miss
    <3>1. OrderInv' /\ Order' = Order
      BY <2>4, OrderUnmoved
    <3>2. LastHit' = <<>>
      BY <2>2, <2>4
    <3> QED BY <1>2, <1>3, <2>1, <3>1, <3>2
            DEF Lru!Miss, Order, Incoming, LastHit, Drift
  <2>5. \/ \E e \in entries : Refresh(e) /\ found' = Append(found, <<e.tokens>>)
        \/ entries' = entries /\ found' = Append(found, <<>>)
    BY <1>3 DEF Find, Hit, Miss
  <2>6. CASE \E e \in entries : Refresh(e) /\ found' = Append(found, <<e.tokens>>)
    <3>1. OrderInv' /\ \E s \in States : Lru!Find(s)
      BY <2>3, <2>6
    <3> QED BY <3>1 DEF Lru!Next
  <2>7. CASE entries' = entries /\ found' = Append(found, <<>>)
    BY <2>4, <2>7 DEF Lru!Next
  <2> QED BY <2>5, <2>6, <2>7
<1>4. CASE Collect
  <2>1. /\ phase = "collect" /\ phase' = "collect" /\ Incoming = <<>> /\ Incoming' = <<>>
        /\ LastHit' = LastHit
    BY <1>4 DEF Collect, Incoming, LastHit
  <2>2. CASE entries' = entries
    BY <1>2, <1>4, <2>1, <2>2, OrderUnmoved, LruStutters
  <2>3. ASSUME NEW e \in entries, Refresh(e)
        PROVE  OrderInv' /\ Lru!Ask(e.tokens) /\ e.tokens \in States
    <3>1. /\ OrderInv'
          /\ \E i \in DOMAIN Order : /\ Order[i] = e.tokens
                                     /\ Order' = Append(Lru!RemoveAt(Order, i), e.tokens)
      BY <1>1, <2>3, OrderUse
    <3>2. Lru!Ask(e.tokens)
      BY <1>2, <1>4, <2>1, <3>1
      DEF Lru!Ask, Lru!Use, Order, Incoming, LastHit, Drift
    <3> QED BY <1>1, <3>1, <3>2 DEF TypeOK
  <2>4. CASE \E e \in entries : Refresh(e)
    <3>1. OrderInv' /\ \E s \in States : Lru!Ask(s)
      BY <2>3, <2>4
    <3> QED BY <3>1 DEF Lru!Next
  <2> QED BY <1>4, <2>2, <2>4 DEF Collect
<1>5. CASE Add
  <2>1. OrderInv' /\ Order' = Order /\ Drift' = Drift
    BY <1>5, OrderUnmoved DEF Add, indexVars, Drift, TotalTokens
  <2>2. phase = "add" /\ LastHit = <<>> /\ LastHit' = <<>> /\ Incoming = <<>> /\ fresh' = fresh
    BY <1>5 DEF Add, LastHit, Incoming
  <2>3. CASE fresh = <<>>
    <3>1. Incoming' = <<>>
      BY <1>5, <2>3 DEF Add, Incoming
    <3> QED BY <2>1, <2>2, <3>1, LruStutters
  <2>4. CASE fresh # <<>>
    <3>1. Incoming' = <<Head(fresh)>>
      BY <1>5, <2>2, <2>4 DEF Add, Incoming
    <3>2. Head(fresh) \in States /\ 1 \in DOMAIN fresh /\ Head(fresh) = fresh[1]
      BY <1>1, <2>4, HeadTailProperties DEF TypeOK
    <3>3. Head(fresh) \notin KeptStates /\ WorthKeeping(Head(fresh))
      BY <1>1, <2>2, <3>2 DEF FreshInv
    <3>4. Head(fresh) \notin Lru!ToSet(Order)
      BY <1>1, <3>3, OrderType
    <3>5. Lru!Begin(Head(fresh))
      BY <2>1, <2>2, <3>1, <3>3, <3>4
      DEF Lru!Begin, WorthKeeping, Order, Incoming, LastHit, Drift
    <3> QED BY <2>1, <3>2, <3>5 DEF Lru!Next
  <2> QED BY <2>3, <2>4
<1>6. ASSUME phase = "evict"
      PROVE  /\ Head(fresh) \in States /\ Incoming = <<Head(fresh)>>
             /\ Lru!Fits(Head(fresh)) <=> Fits(Len(Head(fresh)))
             /\ TotalTokens \in Nat /\ kept \in Nat /\ Len(Head(fresh)) \in Nat
  <2>1. fresh # <<>>
    BY <1>1, <1>6 DEF LoopInv
  <2>2. Head(fresh) \in States
    BY <1>1, <2>1, HeadTailProperties DEF TypeOK
  <2>3. Incoming = <<Head(fresh)>>
    BY <1>6 DEF Incoming
  <2> QED BY <1>1, <2>2, <2>3, LruFits
<1>7. CASE Evict
  <2>1. OrderInv' /\ Order # <<>> /\ Order' = Tail(Order)
    BY <1>1, <1>7, OrderEvict
  <2>2. phase = "evict" /\ ~Fits(Len(Head(fresh))) /\ UNCHANGED <<phase, fresh, found>>
    BY <1>7 DEF Evict
  <2>3. Incoming # <<>> /\ Incoming[1] = Head(fresh) /\ ~Lru!Fits(Head(fresh))
    <3>1. Incoming = <<Head(fresh)>>
      BY <1>6, <2>2
    <3>2. Lru!Fits(Head(fresh)) <=> Fits(Len(Head(fresh)))
      BY <1>6, <2>2
    <3> QED BY <2>2, <3>1, <3>2
  <2>4. Incoming' = Incoming /\ LastHit' = LastHit
    BY <2>2 DEF Incoming, LastHit
  <2>5. Drift' = Drift
    <3>1. PICK e \in entries : kept' = kept - Len(e.tokens) /\ entries' = entries \ {e}
      BY <1>7 DEF Evict
    <3>2. TotalTokens' = TotalTokens - Len(e.tokens) /\ Len(e.tokens) \in Nat
      BY <1>1, <3>1, EvictTotals DEF EntriesInv, TotalTokens
    <3>3. TotalTokens \in Nat /\ kept \in Nat
      BY <1>6, <2>2
    <3> QED BY <3>1, <3>2, <3>3 DEF Drift
  <2>6. Lru!Evict
    BY <2>1, <2>3, <2>4, <2>5 DEF Lru!Evict, Order, Incoming, LastHit, Drift
  <2> QED BY <2>1, <2>6 DEF Lru!Next
<1>8. ASSUME PushReached
      PROVE  Lru!Ready /\ Incoming[1] = Head(fresh)
  <2>1. phase = "evict" /\ (entries = {} \/ Fits(Len(Head(fresh))))
    BY <1>8 DEF PushReached
  <2>2. Incoming # <<>> /\ Incoming[1] = Head(fresh)
    BY <1>6, <2>1
  <2>3. entries = {} => Order = <<>>
    <3> SUFFICES ASSUME entries = {} PROVE Order = <<>>
      OBVIOUS
    <3>1. Order \in Seq(States) /\ Len(Order) = Cardinality(entries)
      BY <1>1, OrderType
    <3>2. Cardinality(entries) = 0
      BY FS_EmptySet
    <3> QED BY <3>1, <3>2, EmptySeq
  <2>4. Order = <<>> \/ Lru!Fits(Head(fresh))
    BY <1>6, <2>1, <2>3
  <2> QED BY <2>2, <2>4 DEF Lru!Ready, Order, Incoming
<1>9. CASE Push
  <2>1. OrderInv' /\ Order' = Append(Order, Head(fresh))
    BY <1>1, <1>9, OrderPush
  <2>2. Lru!Ready /\ Incoming[1] = Head(fresh)
    BY <1>8, <1>9 DEF Push
  <2>3. Incoming' = <<>> /\ LastHit = <<>> /\ LastHit' = <<>>
    BY <1>9 DEF Push, PushReached, Incoming, LastHit
  <2>4. Drift' = Drift
    BY <1>1, <1>9, PushEntries, <1>6 DEF Drift, Push, PushReached
  <2>5. Lru!Keep
    BY <2>1, <2>2, <2>3, <2>4 DEF Lru!Keep, Order, Incoming, LastHit, Drift
  <2> QED BY <2>1, <2>5 DEF Lru!Next
<1>10. CASE PushFails
  <2>1. PushReached /\ phase = "evict" /\ entries' = entries
    BY <1>10 DEF PushFails, PushReached
  <2>2. OrderInv' /\ Order' = Order
    BY <2>1, OrderUnmoved
  <2>3. Lru!Ready /\ Incoming[1] = Head(fresh)
    BY <1>8, <2>1
  <2>4. Incoming' = <<>> /\ LastHit = <<>> /\ LastHit' = <<>>
    BY <1>10 DEF PushFails, PushReached, Incoming, LastHit
  <2>5. Drift' = Drift + Len(Head(fresh))
    <3>1. kept' = kept + Len(Head(fresh)) /\ TotalTokens' = TotalTokens
      BY <1>10, <2>1 DEF PushFails, TotalTokens
    <3>2. TotalTokens \in Nat /\ kept \in Nat /\ Len(Head(fresh)) \in Nat
      BY <1>6, <2>1
    <3> QED BY <3>1, <3>2 DEF Drift
  <2>6. Lru!Fail
    BY <2>2, <2>3, <2>4, <2>5 DEF Lru!Fail, Order, Incoming, LastHit, Drift
  <2> QED BY <2>2, <2>6 DEF Lru!Next
<1>11. ASSUME entries' = entries, kept' = kept
       PROVE  OrderInv' /\ Order' = Order /\ Drift' = Drift
  BY <1>11, OrderUnmoved DEF Drift, TotalTokens
<1>12. CASE StartBatch
  <2>1. OrderInv' /\ Order' = Order /\ Drift' = Drift
    BY <1>11, <1>12 DEF StartBatch, indexVars
  <2>2. /\ Incoming = <<>> /\ Incoming' = <<>> /\ LastHit = <<>> /\ LastHit' = <<>>
    BY <1>12 DEF StartBatch, Incoming, LastHit
  <2> QED BY <2>1, <2>2, LruStutters
<1>13. CASE BeginRun
  <2>1. OrderInv' /\ Order' = Order /\ Drift' = Drift
    BY <1>11, <1>13 DEF BeginRun, indexVars
  <2>2. Incoming = <<>> /\ Incoming' = <<>> /\ LastHit' = <<>>
    BY <1>13 DEF BeginRun, Incoming, LastHit
  <2>3. Lru!Miss
    BY <2>1, <2>2 DEF Lru!Miss, Order, Incoming, LastHit, Drift
  <2> QED BY <2>1, <2>3 DEF Lru!Next
<1>14. CASE RunDone \/ RunFails \/ BeginAdds \/ Publish
  <2>1. OrderInv' /\ Order' = Order /\ Drift' = Drift
    BY <1>11, <1>14 DEF RunDone, RunFails, BeginAdds, Publish, indexVars
  <2>2. /\ Incoming = <<>> /\ Incoming' = <<>> /\ LastHit = <<>> /\ LastHit' = <<>>
    BY <1>14 DEF RunDone, RunFails, BeginAdds, Publish, Incoming, LastHit
  <2> QED BY <2>1, <2>2, LruStutters
<1>15. CASE ReadCount \/ ReadTokens \/ UNCHANGED vars
  <2>1. UNCHANGED <<entries, kept, phase, fresh, found>>
    BY <1>15 DEF ReadCount, ReadTokens, vars, indexVars
  <2>2. OrderInv' /\ Order' = Order /\ Drift' = Drift
    BY <1>11, <2>1
  <2>3. Incoming' = Incoming /\ LastHit' = LastHit
    BY <2>1 DEF Incoming, LastHit
  <2> QED BY <2>2, <2>3, LruStutters
<1> QED
  BY <1>3, <1>4, <1>5, <1>7, <1>9, <1>10, <1>12, <1>13, <1>14, <1>15 DEF Next, ModelStep

\* The index implements LruCache, for any requests and limits: whatever find
\* hands out has become the last to go, the entries that go are the least
\* recently used ones, no more of them than the limits require, and what kept_
\* counts beyond the entries' tokens is what failed pushes left in it.
THEOREM ImplementsLruCache == Spec => LruSpec
<1>1. Init => OrderInv /\ Lru!Init
  <2> SUFFICES ASSUME Init PROVE OrderInv /\ Lru!Init
    OBVIOUS
  <2>1. entries = {} /\ kept = 0 /\ phase = "idle"
    BY DEF Init
  <2>2. Cardinality(entries) = 0 /\ IsFiniteSet(entries)
    BY <2>1, FS_EmptySet
  <2>3. Ordered(<<>>, entries)
    BY <2>1, <2>2 DEF Ordered
  <2>4. Sortable(entries)
    BY <2>1, <2>2 DEF Sortable
  <2>5. Order = TokensOf(<<>>)
    BY <2>3, <2>4, OrderIsTokens
  <2>6. Order = <<>>
    BY <2>5 DEF TokensOf
  <2>7. Drift = 0
    <3>1. Cells(entries) = {}
      BY <2>1 DEF Cells
    <3> QED BY <2>1, <3>1, FS_EmptySet DEF Drift, TotalTokens
  <2>8. Incoming = <<>> /\ LastHit = <<>>
    BY <2>1 DEF Incoming, LastHit
  <2> QED BY <2>3, <2>6, <2>7, <2>8
          DEF OrderInv, Lru!Init, Order, Drift, Incoming, LastHit
<1>2. IndexInv /\ OrderInv /\ [Next]_vars => OrderInv' /\ [Lru!Next]_(Lru!vars)
  BY LruStep
<1>3. Spec => Lru!Init /\ [][Lru!Next]_(Lru!vars)
  BY <1>1, <1>2, IndexInvariant, PTL DEF Spec
<1> QED BY <1>3 DEF LruSpec, Lru!Spec
=============================================================================
