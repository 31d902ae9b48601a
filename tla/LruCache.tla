------------------------------ MODULE LruCache ------------------------------
(***************************************************************************)
(* What the snapshot index promises (src/src/snapshots.hpp, first lines):  *)
(* states are kept in the order of their last use; a new one is kept once, *)
(* at the end, after the least recently used ones went - those needed to   *)
(* bring the count and the total of tokens within the limits, no more.     *)
(* Keeping one may fail; its tokens are then counted as if it were there   *)
(* for good, and nothing else about the order or the limits changes.       *)
(***************************************************************************)
EXTENDS Integers, Sequences, FiniteSets, SequencesExt

CONSTANTS States,      \* the states: sequences of tokens
          MaxCount,    \* most states kept
          MaxTokens,   \* most tokens of all of them
          MinTokens    \* fewest tokens of a state worth keeping

VARIABLES kept,        \* the states kept, least recently used first
          incoming,    \* the state being kept: <<>> or <<s>>
          hit,         \* the state last found for a request: <<>> or <<s>>
          wasted       \* tokens counted of states that could not be kept

vars == <<kept, incoming, hit, wasted>>

\* The tokens of the states kept, which are all different.
Total == Cardinality(UNION {{s} \X DOMAIN s : s \in ToSet(kept)})
Fits(s) == Len(kept) < MaxCount /\ Total + wasted + Len(s) <= MaxTokens

Init == kept = <<>> /\ incoming = <<>> /\ hit = <<>> /\ wasted = 0

Use(s) == /\ incoming = <<>>
          /\ \E i \in DOMAIN kept : /\ kept[i] = s
                                    /\ kept' = Append(RemoveAt(kept, i), s)
          /\ UNCHANGED <<incoming, wasted>>
\* A request resumes from a kept state, or asks about one already kept.
Find(s) == Use(s) /\ hit' = <<s>>
Ask(s) == Use(s) /\ UNCHANGED hit

\* The next request finds none, or there is no next one.
Miss == hit' = <<>> /\ UNCHANGED <<kept, incoming, wasted>>

Begin(s) == /\ incoming = <<>>
            /\ s \notin ToSet(kept)
            /\ MaxCount > 0 /\ Len(s) \in MinTokens..MaxTokens
            /\ incoming' = <<s>>
            /\ UNCHANGED <<kept, hit, wasted>>

Evict == /\ incoming # <<>>
         /\ kept # <<>>
         /\ ~Fits(incoming[1])
         /\ kept' = Tail(kept)
         /\ UNCHANGED <<incoming, hit, wasted>>

Ready == incoming # <<>> /\ (kept = <<>> \/ Fits(incoming[1]))
Keep == /\ Ready
        /\ kept' = Append(kept, incoming[1])
        /\ incoming' = <<>>
        /\ UNCHANGED <<hit, wasted>>
Fail == /\ Ready
        /\ wasted' = wasted + Len(incoming[1])
        /\ incoming' = <<>>
        /\ UNCHANGED <<kept, hit>>

Next == \/ \E s \in States : Find(s) \/ Ask(s) \/ Begin(s)
        \/ Miss \/ Evict \/ Keep \/ Fail

Spec == Init /\ [][Next]_vars
=============================================================================
