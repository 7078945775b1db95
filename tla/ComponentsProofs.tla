-------------------------- MODULE ComponentsProofs --------------------------
(***************************************************************************)
(* Proofs about the components that share no state with the others.        *)
(*                                                                         *)
(* SharedObjects, for any number of sessions, of blocks one in the other   *)
(* and of levels of transaction: but for what failed or interrupted calls  *)
(* leave behind, no lock outlives the blocks of its session, and a session *)
(* has as many levels of transaction as it is in nested blocks, and one    *)
(* more; no lock ever lets another session in.                             *)
(*                                                                         *)
(* AsyncSession, for any number of tasks and of cancels: a block that      *)
(* raised or was cancelled is not committed, and leaves nothing behind,    *)
(* but in the known ways; and the session is logged out.                   *)
(*                                                                         *)
(* Computations, for every input: integers, values and converted contents  *)
(* come back as they were, whichever interface writes and reads them;      *)
(* manifests are ordered and planned as they should (by the theorems of    *)
(* MigrationPlanProofs); and mappings, lists and logs do what those of     *)
(* Python do.                                                              *)
(***************************************************************************)
EXTENDS Computations, SharedObjects, AsyncSession, MigrationPlanProofs, FiniteSetTheorems,
        SequenceTheorems, TLAPS

-----------------------------------------------------------------------------
(* SharedObjects.                                                          *)

Kinds == Locks \cup {"nested"}

Flags == BOOLEAN

\* Every session has the outermost level.
SharedTypeOK ==
  /\ blocks \in [Sessions -> Seq(Kinds)]
  /\ raising \in [Sessions -> {"no", "exception", "interrupt"}]
  /\ held \in [Sessions -> Locks \cup {"none"}]
  /\ changes \in [Sessions -> Seq(Flags)]
  /\ \A s \in Sessions : Len(changes[s]) >= 1
  /\ leaked \in [Sessions -> BOOLEAN]
  /\ stuck \in [Sessions -> BOOLEAN]
  /\ unsaved \in [Sessions -> BOOLEAN]

-----------------------------------------------------------------------------
(* Sequences.                                                              *)

\* A sequence without its last element.
LEMMA FrontOf ==
  ASSUME NEW S, NEW q \in Seq(S), Len(q) >= 1
  PROVE  /\ Front(q) \in Seq(S) /\ Len(Front(q)) = Len(q) - 1
         /\ \A i \in 1..(Len(q) - 1) : Front(q)[i] = q[i]
<1>1. Front(q) = SubSeq(q, 1, Len(q) - 1)
  BY DEF Front
<1>2. 1 \in Int /\ Len(q) - 1 \in Int /\ \A i \in 1..(Len(q) - 1) : q[i] \in S
  OBVIOUS
<1>3. /\ SubSeq(q, 1, Len(q) - 1) \in Seq(S)
      /\ Len(SubSeq(q, 1, Len(q) - 1)) = Len(q) - 1
      /\ \A i \in 1..(Len(q) - 1) : SubSeq(q, 1, Len(q) - 1)[i] = q[i]
  <2>1. PICK n \in Int : n = Len(q) - 1
    BY <1>2
  <2>2. /\ SubSeq(q, 1, n) \in Seq(S)
        /\ Len(SubSeq(q, 1, n)) = IF 1 <= n THEN n - 1 + 1 ELSE 0
        /\ \A i \in 1..(n - 1 + 1) : SubSeq(q, 1, n)[i] = q[1 + i - 1]
    BY <1>2, <2>1, SubSeqProperties
  <2>3. n - 1 + 1 = n /\ n >= 0 /\ \A i \in 1..n : 1 + i - 1 = i
    BY <2>1
  <2> QED
    BY <2>1, <2>2, <2>3
<1> QED
  BY <1>1, <1>3

\* The last element of a sequence is one of its own.
LEMMA LastOf ==
  ASSUME NEW S, NEW q \in Seq(S), q # <<>>
  PROVE  Len(q) >= 1 /\ Last(q) = q[Len(q)] /\ Last(q) \in S
BY DEF Last

\* Where the nested blocks are in a sequence of blocks.
At(q) == {i \in DOMAIN q : q[i] = "nested"}

\* The nested blocks are finitely many.
LEMMA AtFinite ==
  ASSUME NEW q \in Seq(Kinds)
  PROVE  /\ IsFiniteSet(At(q)) /\ Cardinality(At(q)) \in Nat
         /\ At(q) \subseteq 1..Len(q)
<1>1. At(q) \subseteq 1..Len(q) /\ IsFiniteSet(1..Len(q))
  BY FS_Interval DEF At
<1> QED
  BY <1>1, FS_Subset, FS_CardinalityType

\* A block that is opened is one more if it is nested.
LEMMA AtAppend ==
  ASSUME NEW q \in Seq(Kinds), NEW k \in Kinds
  PROVE  Cardinality(At(Append(q, k))) =
           IF k = "nested" THEN Cardinality(At(q)) + 1 ELSE Cardinality(At(q))
<1>1. CASE k = "nested"
  <2>1. At(Append(q, k)) = At(q) \cup {Len(q) + 1} /\ Len(q) + 1 \notin At(q)
    BY <1>1 DEF At
  <2> QED
    BY <1>1, <2>1, AtFinite, FS_AddElement
<1>2. CASE k # "nested"
  <2>1. At(Append(q, k)) = At(q)
    BY <1>2 DEF At
  <2> QED
    BY <1>2, <2>1
<1> QED
  BY <1>1, <1>2

\* A block that ends is one less if it was nested.
LEMMA AtFront ==
  ASSUME NEW q \in Seq(Kinds), q # <<>>
  PROVE  /\ Last(q) = "nested" =>
              /\ Cardinality(At(q)) \in Nat \ {0}
              /\ Cardinality(At(Front(q))) = Cardinality(At(q)) - 1
         /\ Last(q) # "nested" => Cardinality(At(Front(q))) = Cardinality(At(q))
<1>1. /\ Front(q) \in Seq(Kinds) /\ Len(q) >= 1 /\ Len(Front(q)) = Len(q) - 1
      /\ \A i \in 1..(Len(q) - 1) : Front(q)[i] = q[i]
      /\ Last(q) = q[Len(q)]
  BY FrontOf, LastOf
<1>2. CASE Last(q) = "nested"
  <2>1. At(Front(q)) = At(q) \ {Len(q)} /\ Len(q) \in At(q)
    <3>1. DOMAIN q = 1..Len(q) /\ DOMAIN Front(q) = 1..(Len(q) - 1)
      BY <1>1
    <3>2. At(q) = {i \in 1..Len(q) : q[i] = "nested"}
      BY <3>1 DEF At
    <3>3. At(Front(q)) = {i \in 1..(Len(q) - 1) : Front(q)[i] = "nested"}
      BY <3>1 DEF At
    <3>4. Len(q) \in Nat /\ Len(q) \in 1..Len(q) /\ q[Len(q)] = "nested"
      BY <1>1, <1>2
    <3>5. ASSUME NEW i
          PROVE  i \in At(Front(q)) <=> i \in At(q) /\ i # Len(q)
      <4>1. i \in 1..(Len(q) - 1) <=> i \in 1..Len(q) /\ i # Len(q)
        BY <3>4
      <4> QED
        BY <3>2, <3>3, <4>1, <1>1
    <3> QED
      BY <3>2, <3>4, <3>5
  <2>2. Cardinality(At(Front(q))) = Cardinality(At(q)) - 1
    BY <2>1, AtFinite, FS_RemoveElement
  <2>3. Cardinality(At(q)) # 0
    BY <2>1, AtFinite, FS_EmptySet
  <2> QED
    BY <1>2, <2>2, <2>3, AtFinite
<1>3. CASE Last(q) # "nested"
  <2>1. At(Front(q)) = At(q)
    BY <1>1, <1>3 DEF At
  <2> QED
    BY <1>3, <2>1
<1> QED
  BY <1>2, <1>3

\* Flags are Booleans, and their disjunctions are.
LEMMA FlagsAre == FALSE \in Flags /\ TRUE \in Flags /\ \A x, y : (x \/ y) \in Flags
BY DEF Flags

\* A commit or an abort of a level that is not the outermost takes it away.
LEMMA LevelEnds ==
  ASSUME NEW levels \in Seq(Flags), NEW n \in Nat, Len(levels) = n, n >= 1,
         NEW rest, rest = Merged(levels) \/ rest = Aborted(levels)
  PROVE  rest \in Seq(Flags) /\ Len(rest) = IF n = 1 THEN 1 ELSE n - 1
<1>1. CASE n = 1
  <2>1. rest = <<FALSE>>
    BY <1>1, Zenon DEF Merged, Aborted
  <2>2. <<FALSE>> \in Seq(Flags) /\ Len(<<FALSE>>) = 1
    BY DEF Flags
  <2> QED
    BY <1>1, <2>1, <2>2
<1>2. CASE n # 1
  <2>1. PICK outer \in Seq(Flags), m \in Nat \ {0} :
          outer = Front(levels) /\ Len(outer) = m /\ m = n - 1
    BY <1>2, FrontOf
  <2>2. PICK flag \in Flags : flag = (outer[Len(outer)] \/ Last(levels))
    BY FlagsAre
  <2>3. rest = outer \/ rest = [outer EXCEPT ![Len(outer)] = flag]
    <3>1. Aborted(levels) = Front(levels)
      BY <1>2, Zenon DEF Aborted
    <3>2. Merged(levels) = [Front(levels) EXCEPT
            ![Len(Front(levels))] = Front(levels)[Len(Front(levels))] \/ Last(levels)]
      BY <1>2, Zenon DEF Merged
    <3> QED
      BY <2>1, <2>2, <3>1, <3>2, Zenon
  <2>4. [outer EXCEPT ![Len(outer)] = flag] \in Seq(Flags)
        /\ Len([outer EXCEPT ![Len(outer)] = flag]) = m
    BY <2>1
  <2> QED
    BY <1>2, <2>1, <2>3, <2>4
<1> QED
  BY <1>1, <1>2

-----------------------------------------------------------------------------
(* The invariant, in its two parts.                                        *)

Locked ==
  \A s \in Sessions : held[s] # "none" =>
    /\ stuck[s] \/ \E i \in DOMAIN blocks[s] : blocks[s][i] = held[s]
    /\ \A other \in Sessions \ {s} :
         held[other] = "none" \/ (held[s] = "read" /\ held[other] = "read")

Levelled ==
  \A s \in Sessions : ~leaked[s] =>
    Len(changes[s]) = 1 + Cardinality(Nested(s)) /\ ~unsaved[s]

SharedIInv == SharedTypeOK /\ Locked /\ Levelled

\* What is wanted follows from the inductive invariant.
LEMMA IInvMatches == SharedIInv => BlocksMatchServer
BY DEF SharedIInv, Locked, Levelled, BlocksMatchServer

\* What a step of one session does to its levels: nothing, a write or a nested
\* block that begins, and the commits and aborts.
LEMMA LevelTypes ==
  ASSUME SharedTypeOK, NEW s \in Sessions,
         \/ changes' = changes
         \/ changes' = [changes EXCEPT ![s][Len(changes[s])] = TRUE]
         \/ changes' = [changes EXCEPT ![s] = Append(@, FALSE)]
         \/ CommitLevel(s) \/ AbortLevel(s)
  PROVE  /\ changes' \in [Sessions -> Seq(Flags)]
         /\ \A r \in Sessions : Len(changes'[r]) >= 1
<1>1. PICK levels \in Seq(Flags), n \in Nat \ {0} :
        levels = changes[s] /\ Len(levels) = n
  BY LenProperties DEF SharedTypeOK
<1>2. ASSUME NEW new \in Seq(Flags), Len(new) >= 1, changes' = [changes EXCEPT ![s] = new]
      PROVE  /\ changes' \in [Sessions -> Seq(Flags)]
             /\ \A r \in Sessions : Len(changes'[r]) >= 1
  BY <1>2 DEF SharedTypeOK
<1>3. CASE changes' = changes
  BY <1>3 DEF SharedTypeOK
<1>4. CASE changes' = [changes EXCEPT ![s][Len(changes[s])] = TRUE]
  <2>1. PICK yes \in Flags : yes = TRUE
    BY FlagsAre, Zenon
  <2>2. PICK new : new = [levels EXCEPT ![n] = yes]
    OBVIOUS
  <2>3. new \in Seq(Flags) /\ Len(new) >= 1
    BY <1>1, <2>2
  <2>4. changes' = [changes EXCEPT ![s] = new]
    BY <1>1, <1>4, <2>1, <2>2, Zenon
  <2> QED
    BY <1>2, <2>3, <2>4
<1>5. CASE changes' = [changes EXCEPT ![s] = Append(@, FALSE)]
  <2>1. PICK no \in Flags : no = FALSE
    BY FlagsAre, Zenon
  <2>2. PICK new : new = Append(levels, no)
    OBVIOUS
  <2>3. new \in Seq(Flags) /\ Len(new) >= 1
    BY <1>1, <2>2
  <2>4. changes' = [changes EXCEPT ![s] = new]
    BY <1>1, <1>5, <2>1, <2>2, Zenon
  <2> QED
    BY <1>2, <2>3, <2>4
<1>6. CASE CommitLevel(s) \/ AbortLevel(s)
  <2>1. PICK rest : /\ rest = Merged(levels) \/ rest = Aborted(levels)
                    /\ changes' = [changes EXCEPT ![s] = rest]
    BY <1>1, <1>6 DEF CommitLevel, AbortLevel
  <2>2. rest \in Seq(Flags) /\ Len(rest) >= 1
    <3>1. n \in Nat /\ n >= 1
      BY <1>1
    <3>2. rest \in Seq(Flags) /\ Len(rest) = IF n = 1 THEN 1 ELSE n - 1
      BY <1>1, <2>1, <3>1, LevelEnds, Zenon
    <3> QED
      BY <3>1, <3>2
  <2> QED
    BY <1>2, <2>1, <2>2
<1> QED
  BY <1>3, <1>4, <1>5, <1>6

\* The blocks of one session after a step of it.
LEMMA BlockTypes ==
  ASSUME SharedTypeOK, NEW s \in Sessions,
         \/ blocks' = blocks
         \/ \E kind \in Kinds : blocks' = [blocks EXCEPT ![s] = Append(@, kind)]
         \/ Inside(s) # "none" /\ blocks' = [blocks EXCEPT ![s] = Front(@)]
  PROVE  blocks' \in [Sessions -> Seq(Kinds)]
<1>1. blocks[s] \in Seq(Kinds)
  BY DEF SharedTypeOK
<1>2. CASE Inside(s) # "none" /\ blocks' = [blocks EXCEPT ![s] = Front(@)]
  <2>1. blocks[s] # <<>>
    BY <1>2 DEF Inside
  <2>2. Len(blocks[s]) >= 1
    BY <1>1, <2>1, LastOf
  <2>3. Front(blocks[s]) \in Seq(Kinds)
    BY <1>1, <2>2, FrontOf
  <2> QED
    BY <1>2, <2>3 DEF SharedTypeOK
<1>3. CASE \E kind \in Kinds : blocks' = [blocks EXCEPT ![s] = Append(@, kind)]
  BY <1>1, <1>3 DEF SharedTypeOK
<1> QED
  BY <1>2, <1>3 DEF SharedTypeOK

Step(s) ==
  \/ Write(s) \/ EnterNested(s) \/ EndNested(s) \/ RaiseThroughNested(s)
  \/ \E mode \in Locks : EnterLock(s, mode)
  \/ LeaveLock(s) \/ Unlock(s) \/ Commit(s) \/ CommitAndReleaseLocks(s)
  \/ Fail(s) \/ Catch(s)

\* No step leaves the types.
LEMMA TypeStep ==
  ASSUME SharedTypeOK, NEW s \in Sessions, Step(s)
  PROVE  SharedTypeOK'
<1>1. \/ blocks' = blocks
      \/ \E kind \in Kinds : blocks' = [blocks EXCEPT ![s] = Append(@, kind)]
      \/ Inside(s) # "none" /\ blocks' = [blocks EXCEPT ![s] = Front(@)]
  BY DEF Step, Write, EnterNested, LeaveNested, EndNested, RaiseThroughNested, EnterLock,
         LeaveLock, Unlock, Commit, CommitAndReleaseLocks, Fail, Catch, Kinds, Locks
<1>2. \/ changes' = changes
      \/ changes' = [changes EXCEPT ![s][Len(changes[s])] = TRUE]
      \/ changes' = [changes EXCEPT ![s] = Append(@, FALSE)]
      \/ CommitLevel(s) \/ AbortLevel(s)
  BY Zenon
     DEF Step, Write, EnterNested, LeaveNested, EndNested, RaiseThroughNested, EnterLock,
         LeaveLock, Unlock, Commit, CommitAndReleaseLocks, Committed, Fail, Catch
<1>3. \E what \in {"no", "exception", "interrupt"} : raising' = raising \/ Raise(s, what)
  BY DEF Step, Write, EnterNested, LeaveNested, EndNested, RaiseThroughNested, EnterLock,
         LeaveLock, Unlock, Commit, CommitAndReleaseLocks, Fail, Catch
<1>4. \E lock \in Locks \cup {"none"} : held' = held \/ held' = [held EXCEPT ![s] = lock]
  BY DEF Step, Write, EnterNested, LeaveNested, EndNested, RaiseThroughNested, EnterLock,
         LeaveLock, Free, Unlock, Commit, CommitAndReleaseLocks, Fail, Catch
<1>5. leaked' = leaked \/ Leak(s)
  BY DEF Step, Write, EnterNested, LeaveNested, EndNested, RaiseThroughNested, EnterLock,
         LeaveLock, Unlock, Commit, CommitAndReleaseLocks, Fail, Catch
<1>6. unsaved' = unsaved \/ Committed(s)
  BY DEF Step, Write, EnterNested, LeaveNested, EndNested, RaiseThroughNested, EnterLock,
         LeaveLock, Unlock, Commit, CommitAndReleaseLocks, Fail, Catch
<1>7. blocks' \in [Sessions -> Seq(Kinds)]
  BY <1>1, BlockTypes
<1>8. /\ changes' \in [Sessions -> Seq(Flags)]
      /\ \A r \in Sessions : Len(changes'[r]) >= 1
  BY <1>2, LevelTypes
<1>9. raising' \in [Sessions -> {"no", "exception", "interrupt"}]
  BY <1>3 DEF SharedTypeOK, Raise
<1>10. held' \in [Sessions -> Locks \cup {"none"}]
  BY <1>4 DEF SharedTypeOK
<1>11. leaked' \in [Sessions -> BOOLEAN]
  BY <1>5 DEF SharedTypeOK, Leak
<1>12. unsaved' \in [Sessions -> BOOLEAN]
  BY <1>6 DEF SharedTypeOK, Committed
<1>13. stuck' \in [Sessions -> BOOLEAN]
  <2>1. \E yes \in BOOLEAN : stuck' = stuck \/ stuck' = [stuck EXCEPT ![s] = yes]
    BY DEF Step, Write, EnterNested, LeaveNested, EndNested, RaiseThroughNested, EnterLock,
           LeaveLock, Free, Unlock, Commit, CommitAndReleaseLocks, Fail, Catch
  <2> QED
    BY <2>1 DEF SharedTypeOK
<1> QED
  BY <1>7, <1>8, <1>9, <1>10, <1>11, <1>12, <1>13 DEF SharedTypeOK

-----------------------------------------------------------------------------
(* Locks.                                                                  *)

\* A step that changes neither the locks nor the locking blocks.
LEMMA LockedStays ==
  ASSUME Locked, UNCHANGED <<held, stuck>>,
         \A s \in Sessions, lock \in Locks :
           (\E i \in DOMAIN blocks[s] : blocks[s][i] = lock)
             => (\E i \in DOMAIN blocks'[s] : blocks'[s][i] = lock),
         SharedTypeOK
  PROVE  Locked'
<1>1. SUFFICES ASSUME NEW s \in Sessions, held[s] # "none"
               PROVE  /\ stuck[s] \/ \E i \in DOMAIN blocks'[s] : blocks'[s][i] = held[s]
                      /\ \A other \in Sessions \ {s} :
                           held[other] = "none" \/ (held[s] = "read" /\ held[other] = "read")
  BY DEF Locked
<1>2. held[s] \in Locks
  BY <1>1 DEF SharedTypeOK
<1> QED
  BY <1>1, <1>2 DEF Locked

\* A step that takes the lock of a session off.
LEMMA LockedFreed ==
  ASSUME Locked, SharedTypeOK, NEW s \in Sessions,
         Free(s), \A r \in Sessions \ {s} : blocks'[r] = blocks[r]
  PROVE  Locked'
<1>1. ASSUME NEW r \in Sessions, held'[r] # "none"
      PROVE  /\ stuck'[r] \/ \E i \in DOMAIN blocks'[r] : blocks'[r][i] = held'[r]
             /\ \A other \in Sessions \ {r} :
                  held'[other] = "none" \/ (held'[r] = "read" /\ held'[other] = "read")
  <2>1. r # s /\ held'[r] = held[r] /\ blocks'[r] = blocks[r] /\ stuck'[r] = stuck[r]
        /\ \A other \in Sessions : held'[other] \in {held[other], "none"}
    BY <1>1 DEF SharedTypeOK, Free
  <2> QED
    BY <1>1, <2>1 DEF Locked
<1> QED
  BY <1>1 DEF Locked

\* No step leaves a lock without a block of its session.
LEMMA LockedStep ==
  ASSUME SharedTypeOK, Locked, NEW s \in Sessions, Step(s)
  PROVE  Locked'
<1>1. blocks[s] \in Seq(Kinds)
  BY DEF SharedTypeOK
<1>2. CASE UNCHANGED <<blocks, held, stuck>>
  BY <1>2, LockedStays
<1>3. CASE UNCHANGED <<held, stuck>> /\ blocks' = [blocks EXCEPT ![s] = Append(@, "nested")]
  <2>1. /\ \A r \in Sessions \ {s} : blocks'[r] = blocks[r]
        /\ blocks'[s] = Append(blocks[s], "nested")
    BY <1>3 DEF SharedTypeOK
  <2>2. \A i \in DOMAIN blocks[s] :
          i \in DOMAIN blocks'[s] /\ blocks'[s][i] = blocks[s][i]
    BY <1>1, <2>1
  <2> QED
    BY <1>3, <2>1, <2>2, LockedStays
<1>4. CASE UNCHANGED <<held, stuck>> /\ LeaveNested(s)
  <2>1. /\ \A r \in Sessions \ {s} : blocks'[r] = blocks[r]
        /\ blocks'[s] = Front(blocks[s])
        /\ blocks[s] # <<>> /\ Last(blocks[s]) = "nested"
    BY <1>4 DEF SharedTypeOK, LeaveNested, Inside
  <2>2. /\ Len(blocks[s]) >= 1 /\ Last(blocks[s]) = blocks[s][Len(blocks[s])]
        /\ Front(blocks[s]) \in Seq(Kinds)
        /\ Len(Front(blocks[s])) = Len(blocks[s]) - 1
        /\ \A i \in 1..(Len(blocks[s]) - 1) : Front(blocks[s])[i] = blocks[s][i]
    BY <1>1, <2>1, FrontOf, LastOf
  <2>3. ASSUME NEW i \in DOMAIN blocks[s], blocks[s][i] \in Locks
        PROVE  i \in DOMAIN blocks'[s] /\ blocks'[s][i] = blocks[s][i]
    <3>1. i # Len(blocks[s]) /\ i \in 1..Len(blocks[s])
      BY <1>1, <2>1, <2>2, <2>3 DEF Locks
    <3> QED
      BY <1>1, <2>1, <2>2, <3>1
  <2> QED
    BY <1>4, <2>1, <2>3, LockedStays
<1>5. ASSUME NEW mode \in Locks, MayLock(s, mode), held' = [held EXCEPT ![s] = mode],
             \/ /\ blocks' = [blocks EXCEPT ![s] = Append(@, mode)]
                /\ UNCHANGED stuck
             \/ UNCHANGED blocks /\ stuck' = [stuck EXCEPT ![s] = TRUE]
      PROVE  Locked'
  <2>1. /\ \A r \in Sessions \ {s} : /\ blocks'[r] = blocks[r] /\ held'[r] = held[r]
                                     /\ stuck'[r] = stuck[r]
        /\ held'[s] = mode
    BY <1>5 DEF SharedTypeOK
  <2>2. stuck'[s] \/ \E i \in DOMAIN blocks'[s] : blocks'[s][i] = held'[s]
    <3>1. CASE blocks' = [blocks EXCEPT ![s] = Append(@, mode)]
      <4>1. blocks'[s] = Append(blocks[s], mode)
        BY <3>1 DEF SharedTypeOK
      <4>2. Len(blocks[s]) + 1 \in DOMAIN blocks'[s]
            /\ blocks'[s][Len(blocks[s]) + 1] = mode
        BY <1>1, <4>1
      <4> QED
        BY <2>1, <4>2
    <3>2. CASE stuck' = [stuck EXCEPT ![s] = TRUE]
      BY <3>2 DEF SharedTypeOK
    <3> QED
      BY <1>5, <3>1, <3>2
  <2>3. \A r \in Sessions : held[r] \in {"none", "read", "write"}
    BY DEF SharedTypeOK, Locks
  <2> QED
    BY <1>5, <2>1, <2>2, <2>3 DEF Locked, MayLock, Locks
<1>6. CASE Free(s) /\ (blocks' = blocks \/ blocks' = [blocks EXCEPT ![s] = Front(@)])
  BY <1>6, LockedFreed DEF SharedTypeOK
\* The lock stays on after its block.
<1>13. CASE /\ UNCHANGED held /\ stuck' = [stuck EXCEPT ![s] = held[s] # "none"]
            /\ blocks' = [blocks EXCEPT ![s] = Front(@)]
  <2>1. \A r \in Sessions \ {s} : blocks'[r] = blocks[r] /\ stuck'[r] = stuck[r]
    BY <1>13 DEF SharedTypeOK
  <2>2. held[s] # "none" => stuck'[s]
    BY <1>13 DEF SharedTypeOK
  <2> QED
    BY <1>13, <2>1, <2>2 DEF Locked
<1>7. CASE EndNested(s) \/ RaiseThroughNested(s)
  BY <1>4, <1>7 DEF EndNested, RaiseThroughNested, LeaveNested
<1>8. CASE EnterNested(s)
  BY <1>2, <1>3, <1>8 DEF EnterNested
<1>9. CASE \E mode \in Locks : EnterLock(s, mode)
  BY <1>2, <1>5, <1>9 DEF EnterLock
<1>10. CASE LeaveLock(s) \/ Unlock(s)
  BY <1>2, <1>6, <1>10, <1>13 DEF LeaveLock, Unlock
<1>11. CASE Commit(s) \/ Write(s) \/ Fail(s) \/ Catch(s)
  BY <1>2, <1>11 DEF Commit, Write, Fail, Catch
<1>12. CASE CommitAndReleaseLocks(s)
  BY <1>2, <1>6, <1>12 DEF CommitAndReleaseLocks
<1> QED
  BY <1>7, <1>8, <1>9, <1>10, <1>11, <1>12 DEF Step

-----------------------------------------------------------------------------
(* Levels.                                                                 *)

\* It is enough to look at the session that takes the step.
LEMMA LevelledOne ==
  ASSUME SharedTypeOK, Levelled, NEW s \in Sessions,
         \A r \in Sessions \ {s} :
           /\ blocks'[r] = blocks[r] /\ changes'[r] = changes[r]
           /\ leaked'[r] = leaked[r] /\ unsaved'[r] = unsaved[r],
         ~leaked'[s] =>
           Len(changes'[s]) = 1 + Cardinality(At(blocks'[s])) /\ ~unsaved'[s]
  PROVE  Levelled'
<1>1. \A r \in Sessions \ {s} : ~leaked[r] =>
        Len(changes[r]) = 1 + Cardinality(At(blocks[r])) /\ ~unsaved[r]
  BY DEF Levelled, Nested, At
<1>2. \A r \in Sessions : ~leaked'[r] =>
        Len(changes'[r]) = 1 + Cardinality(At(blocks'[r])) /\ ~unsaved'[r]
  BY <1>1
<1> QED
  BY <1>2 DEF Levelled, Nested, At

\* No step leaves a session with levels that are not of its blocks.
LEMMA LevelledStep ==
  ASSUME SharedTypeOK, Levelled, NEW s \in Sessions, Step(s)
  PROVE  Levelled'
<1>1. PICK q \in Seq(Kinds), k \in Nat :
        /\ q = blocks[s] /\ k = Cardinality(At(q)) /\ Nested(s) = At(q)
  <2>1. blocks[s] \in Seq(Kinds)
    BY DEF SharedTypeOK
  <2>2. Nested(s) = At(blocks[s])
    BY DEF Nested, At
  <2> QED
    BY <2>1, <2>2, AtFinite
<1>2. PICK levels \in Seq(Flags), n \in Nat : levels = changes[s] /\ n = Len(levels) /\ n >= 1
  BY LenProperties DEF SharedTypeOK
<1>3. ~leaked[s] => n = 1 + k /\ ~unsaved[s]
  BY <1>1, <1>2 DEF Levelled
<1>4. \A r \in Sessions \ {s} :
        /\ blocks'[r] = blocks[r] /\ changes'[r] = changes[r]
        /\ leaked'[r] = leaked[r] /\ unsaved'[r] = unsaved[r]
  BY DEF Step, Write, EnterNested, LeaveNested, EndNested, RaiseThroughNested, EnterLock,
         LeaveLock, Unlock, Commit, CommitAndReleaseLocks, Committed, CommitLevel,
         AbortLevel, Fail, Catch, Leak, SharedTypeOK
<1> DEFINE Same == ~leaked'[s] =>
             Len(changes'[s]) = 1 + Cardinality(At(blocks'[s])) /\ ~unsaved'[s]
<1>5. SUFFICES Same
  BY <1>4, LevelledOne
<1> HIDE DEF Same
<1>6. ASSUME UNCHANGED <<blocks, leaked, unsaved>>, Len(changes'[s]) = n
      PROVE  Same
  BY <1>1, <1>3, <1>6 DEF Same
<1>7. ASSUME UNCHANGED <<changes, leaked, unsaved>>,
             Cardinality(At(blocks'[s])) = k
      PROVE  Same
  BY <1>2, <1>3, <1>7 DEF Same
<1>8. ASSUME CommitLevel(s) \/ AbortLevel(s)
      PROVE  Len(changes'[s]) = IF n = 1 THEN 1 ELSE n - 1
  <2>1. PICK rest : /\ rest = Merged(levels) \/ rest = Aborted(levels)
                    /\ changes' = [changes EXCEPT ![s] = rest]
    BY <1>2, <1>8 DEF CommitLevel, AbortLevel
  <2>2. Len(rest) = IF n = 1 THEN 1 ELSE n - 1
    BY <1>2, <2>1, LevelEnds, Zenon
  <2> QED
    BY <2>1, <2>2 DEF SharedTypeOK
<1>9. CASE Write(s)
  <2>1. PICK yes \in Flags : yes = TRUE
    BY FlagsAre, Zenon
  <2>2. changes'[s] = [levels EXCEPT ![n] = yes]
    BY <1>2, <1>9, <2>1 DEF Write, SharedTypeOK
  <2>3. Len([levels EXCEPT ![n] = yes]) = n
    BY <1>2
  <2> QED
    BY <1>6, <1>9, <2>2, <2>3 DEF Write
<1>10. CASE EnterNested(s)
  <2>1. CASE /\ blocks' = [blocks EXCEPT ![s] = Append(@, "nested")]
             /\ changes' = [changes EXCEPT ![s] = Append(@, FALSE)]
             /\ UNCHANGED <<leaked, unsaved>>
    <3>1. PICK no \in Flags : no = FALSE
      BY FlagsAre, Zenon
    <3>2. blocks'[s] = Append(q, "nested") /\ changes'[s] = Append(levels, no)
      BY <1>1, <1>2, <2>1, <3>1 DEF SharedTypeOK
    <3>3. Len(Append(levels, no)) = n + 1
      BY <1>2
    <3>4. Cardinality(At(Append(q, "nested"))) = k + 1
      BY <1>1, AtAppend DEF Kinds
    <3> QED
      BY <1>1, <1>2, <1>3, <2>1, <3>2, <3>3, <3>4 DEF Same
  <2>2. CASE UNCHANGED <<blocks, changes, leaked, unsaved>>
    BY <1>1, <1>7, <2>2
  <2> QED
    BY <1>10, <2>1, <2>2 DEF EnterNested
<1>11. CASE EndNested(s) \/ RaiseThroughNested(s)
  <2>1. /\ blocks'[s] = Front(q) /\ q # <<>> /\ Last(q) = "nested"
        /\ UNCHANGED unsaved
    BY <1>1, <1>11 DEF EndNested, RaiseThroughNested, LeaveNested, Inside, SharedTypeOK
  <2>2. Cardinality(At(Front(q))) = k - 1 /\ k # 0
    BY <1>1, <2>1, AtFront
  <2>3. \/ leaked'[s]
        \/ (CommitLevel(s) \/ AbortLevel(s)) /\ UNCHANGED leaked
    BY <1>11 DEF EndNested, RaiseThroughNested, Leak, SharedTypeOK
  <2>4. CASE (CommitLevel(s) \/ AbortLevel(s)) /\ UNCHANGED leaked
    BY <1>3, <1>8, <2>1, <2>2, <2>4 DEF Same
  <2> QED
    BY <2>3, <2>4 DEF Same
<1>12. CASE \E mode \in Locks : EnterLock(s, mode)
  <2>1. PICK mode \in Locks : EnterLock(s, mode)
    BY <1>12
  <2>2. blocks'[s] = q \/ blocks'[s] = Append(q, mode)
    BY <1>1, <2>1 DEF EnterLock, SharedTypeOK
  <2>3. Cardinality(At(Append(q, mode))) = k
    BY <1>1, AtAppend DEF Kinds, Locks
  <2> QED
    BY <1>1, <1>7, <2>1, <2>2, <2>3 DEF EnterLock
<1>13. CASE LeaveLock(s)
  <2>1. blocks'[s] = Front(q) /\ q # <<>> /\ Last(q) # "nested"
    BY <1>1, <1>13 DEF LeaveLock, Inside, Locks, SharedTypeOK
  <2>2. Cardinality(At(Front(q))) = k
    BY <1>1, <2>1, AtFront
  <2> QED
    BY <1>7, <1>13, <2>1, <2>2 DEF LeaveLock
<1>14. CASE Unlock(s) \/ Fail(s) \/ Catch(s)
  BY <1>1, <1>7, <1>14 DEF Unlock, Fail, Catch
<1>15. CASE Commit(s) \/ CommitAndReleaseLocks(s)
  <2>1. UNCHANGED <<blocks, leaked>> /\ At(q) = {}
    BY <1>1, <1>15 DEF Commit, CommitAndReleaseLocks
  <2>2. k = 0
    BY <1>1, <2>1, FS_EmptySet
  <2>3. CASE UNCHANGED <<changes, unsaved>>
    BY <1>1, <1>7, <2>1, <2>3
  <2>4. CASE Committed(s)
    <3>1. Len(changes'[s]) = IF n = 1 THEN 1 ELSE n - 1
      BY <1>8, <2>4 DEF Committed
    <3>2. n = 1 => ~unsaved'[s]
      <4>1. n = 1 => ~(Len(changes[s]) > 1)
        BY <1>2
      <4> QED
        BY <2>4, <4>1 DEF Committed, SharedTypeOK
    <3> QED
      BY <1>1, <1>3, <2>1, <2>2, <3>1, <3>2 DEF Same
  <2> QED
    BY <1>15, <2>3, <2>4 DEF Commit, CommitAndReleaseLocks
<1> QED
  BY <1>9, <1>10, <1>11, <1>12, <1>13, <1>14, <1>15 DEF Step

-----------------------------------------------------------------------------
(* The theorems.                                                           *)

\* The invariant holds at first,
LEMMA SharedInitIInv == SharedInit => SharedIInv
<1> SUFFICES ASSUME SharedInit PROVE SharedIInv
  OBVIOUS
<1>1. \A s \in Sessions : blocks[s] = <<>> /\ changes[s] = <<FALSE>>
  BY DEF SharedInit
<1>2. /\ <<>> \in Seq(Kinds) /\ <<FALSE>> \in Seq(Flags) /\ Len(<<FALSE>>) = 1
  BY DEF Flags
<1>3. At(<<>>) = {}
  BY DEF At
<1>4. SharedTypeOK
  <2>1. PICK first \in Seq(Flags) : first = <<FALSE>> /\ Len(first) = 1
    BY <1>2
  <2>2. changes = [s \in Sessions |-> first]
    BY <2>1, Zenon DEF SharedInit
  <2>3. changes \in [Sessions -> Seq(Flags)] /\ \A s \in Sessions : Len(changes[s]) = 1
    BY <2>1, <2>2, Zenon
  <2>4. blocks \in [Sessions -> Seq(Kinds)]
    BY <1>2 DEF SharedInit
  <2> QED
    <3>1. ASSUME NEW s \in Sessions
          PROVE  Len(changes[s]) >= 1
      <4>1. PICK n \in Nat : n = 1 /\ Len(changes[s]) = n
        BY <2>3
      <4> QED
        BY <4>1
    <3>2. /\ raising \in [Sessions -> {"no", "exception", "interrupt"}]
          /\ held \in [Sessions -> Locks \cup {"none"}]
          /\ leaked \in [Sessions -> BOOLEAN]
          /\ stuck \in [Sessions -> BOOLEAN] /\ unsaved \in [Sessions -> BOOLEAN]
      BY DEF SharedInit
    <3> QED
      BY <2>3, <2>4, <3>1, <3>2 DEF SharedTypeOK
<1>5. Locked
  BY DEF SharedInit, Locked
<1>6. \A s \in Sessions : Cardinality(Nested(s)) = 0
  BY <1>1, <1>3, FS_EmptySet DEF Nested, At
<1>7. Levelled
  BY <1>1, <1>2, <1>6 DEF Levelled, SharedInit
<1> QED
  BY <1>4, <1>5, <1>7 DEF SharedIInv

\* and every step keeps it.
LEMMA SharedNextIInv == SharedIInv /\ [SharedNext]_vars => SharedIInv'
<1> SUFFICES ASSUME SharedIInv, [SharedNext]_vars PROVE SharedIInv'
  OBVIOUS
<1>1. CASE UNCHANGED vars
  BY <1>1 DEF vars, SharedIInv, SharedTypeOK, Locked, Levelled, Nested
<1>2. CASE SharedNext
  <2>1. PICK s \in Sessions : Step(s)
    BY <1>2, Zenon DEF SharedNext, Step
  <2> QED
    BY <2>1, TypeStep, LockedStep, LevelledStep DEF SharedIInv
<1> QED
  BY <1>1, <1>2

\* The inductive invariant holds, whichever blocks the sessions enter, leave,
\* fail in and are interrupted in.
THEOREM SharedInvariance == SharedSpec => []SharedIInv
BY SharedInitIInv, SharedNextIInv, PTL DEF SharedSpec

\* The blocks, locks and levels keep their types, and the outermost level of
\* transaction is always there.
THEOREM SharedTypeCorrect == SharedSpec => []SharedTypeOK
BY SharedInvariance, PTL DEF SharedIInv

\* For any sessions, depth of blocks and levels of transaction: no lock lets
\* another session in, none outlives the blocks of its session unless a call that
\* sets or removes it failed, and outside nested blocks a commit that is reported
\* done has saved everything unless the end of such a block failed
\* (concurrency.py).
THEOREM BlocksMatchTheorem == SharedSpec => []BlocksMatchServer
BY SharedInvariance, IInvMatches, PTL

-----------------------------------------------------------------------------
(* AsyncSession.                                                           *)

(* The inductive invariant.                                                *)

CallRecords == [task : Tasks, op : Calls, raised : BOOLEAN, heard : BOOLEAN]
Places == Calls \cup {"new", "ready", "closing", "done"}

Heard(c) == c.heard

AsyncTypeOK ==
  /\ closed \in BOOLEAN /\ running \in BOOLEAN /\ loggedIn \in BOOLEAN
  /\ calls \in Seq(CallRecords)
  /\ writers \subseteq Tasks /\ exported \subseteq Tasks /\ durable \subseteq Tasks
  /\ pc \in [Tasks -> Places]
  /\ answer \in [Tasks -> {"none", "ok", "error"}]
  /\ failing \in [Tasks -> BOOLEAN] /\ holds \in [Tasks -> BOOLEAN]
  /\ ended \in [Tasks -> BOOLEAN]

\* A call that nobody hears of is under way, and a task hears of one call only.
Shape(queue) ==
  /\ queue \in Seq(CallRecords)
  /\ running => queue # <<>>
  /\ \A i \in DOMAIN queue : ~Heard(queue[i]) => i = 1 /\ running
  /\ \A i, j \in DOMAIN queue :
       Heard(queue[i]) /\ Heard(queue[j]) /\ queue[i].task = queue[j].task => i = j

\* The call that a task hears of is the one it waits for.
Answers ==
  /\ \A c \in ToSet(calls) :
       Heard(c) => pc[c.task] = c.op /\ answer[c.task] = "none"
  /\ \A t \in Tasks : answer[t] # "none" => pc[t] \in Calls

\* The owner alone logs in and out, and closes the session last of all.
OwnerOnly ==
  /\ \A t \in Tasks : /\ pc[t] \in {"login", "exit", "closing"} => t = Owner
                      /\ pc[t] \in {"new", "login"} => ~failing[t]
  /\ \A c \in ToSet(calls) : c.op \in {"login", "exit"} => c.task = Owner
  /\ closed => pc[Owner] \in {"closing", "done"}

\* A commit, and an exit that may commit, come of a block that has ended.
CommitsEnded ==
  /\ \A t \in Tasks : /\ pc[t] = "commit" => ended[t]
                      /\ pc[t] = "abort" => failing[t]
  /\ \A c \in ToSet(calls) :
       c.op = "commit" \/ (c.op = "exit" /\ ~c.raised) => ended[c.task]
  /\ \A t \in durable : ended[t] \/ <<"carried", t>> \in excused

Waiting(t, op) == \E c \in ToSet(calls) : c.task = t /\ c.op = op

\* What a task has written, or is writing, has an abort before it.
ChangesEnd ==
  \A t \in Tasks :
    t \in writers \/ Waiting(t, "write") =>
      \/ ended[t] \/ <<"abort", t>> \in excused \/ closed
      \/ pc[t] \in {"ready", "enter", "write", "leave"}
      \/ Waiting(t, "abort")

\* A handle that is open has its end before it.
HandlesEnd ==
  /\ \A t \in exported :
       \/ <<"handle", t>> \in excused \/ closed
       \/ holds[t] /\ pc[t] \in {"ready", "write"}
       \/ pc[t] = "enter" /\ answer[t] = "ok"
       \/ Waiting(t, "leave")
  /\ \A c \in ToSet(calls) :
       c.op = "enter" /\ ~Heard(c) => <<"handle", c.task>> \in excused

\* The session that is open has its logout before it.
LoginEnds ==
  /\ loggedIn =>
       \/ <<"login", Owner>> \in excused
       \/ pc[Owner] = "login" /\ answer[Owner] = "ok"
       \/ pc[Owner] \in {"ready", "enter", "write", "leave", "commit", "abort"}
       \/ Waiting(Owner, "exit")
  /\ \A c \in ToSet(calls) :
       c.op = "login" /\ ~Heard(c) => <<"login", Owner>> \in excused

AsyncIInv == /\ AsyncTypeOK /\ Shape(calls) /\ Answers /\ OwnerOnly /\ CommitsEnded
        /\ ChangesEnd /\ HandlesEnd /\ LoginEnds

-----------------------------------------------------------------------------
(* Queues.                                                                 *)

\* What is in a queue is at one of its places.
LEMMA InQueue ==
  ASSUME NEW S, NEW q \in Seq(S), NEW c
  PROVE  c \in ToSet(q) <=> \E i \in 1..Len(q) : c = q[i]
<1>1. DOMAIN q = 1..Len(q)
  OBVIOUS
<1> QED
  BY <1>1, Zenon DEF ToSet

\* Nothing is in an empty queue.
LEMMA QueueEmpty ==
  ASSUME NEW q, q = <<>>
  PROVE  ToSet(q) = {}
<1>1. DOMAIN q = {}
  OBVIOUS
<1> QED
  BY <1>1, Zenon DEF ToSet

\* A queue with one more behind.
LEMMA QueueAppend ==
  ASSUME NEW S, NEW q \in Seq(S), NEW c \in S
  PROVE  ToSet(Append(q, c)) = ToSet(q) \cup {c}
<1>1. Append(q, c) \in Seq(S) /\ Len(Append(q, c)) = Len(q) + 1
  OBVIOUS
<1>2. /\ \A i \in 1..Len(q) : Append(q, c)[i] = q[i]
      /\ Append(q, c)[Len(q) + 1] = c
      /\ 1..(Len(q) + 1) = 1..Len(q) \cup {Len(q) + 1}
  OBVIOUS
<1>3. ASSUME NEW d
      PROVE  d \in ToSet(Append(q, c)) <=> d \in ToSet(q) \/ d = c
  <2>1. d \in ToSet(Append(q, c)) <=> \E i \in 1..(Len(q) + 1) : d = Append(q, c)[i]
    BY <1>1, InQueue
  <2>2. d \in ToSet(q) <=> \E i \in 1..Len(q) : d = q[i]
    BY InQueue
  <2> QED
    BY <2>1, <2>2, <1>2
<1> QED
  BY <1>3

\* A queue without the first.
LEMMA QueueTail ==
  ASSUME NEW S, NEW q \in Seq(S), q # <<>>
  PROVE  /\ Head(q) \in S /\ Head(q) = q[1] /\ Tail(q) \in Seq(S) /\ Len(q) >= 1
         /\ Len(Tail(q)) = Len(q) - 1
         /\ \A i \in 1..(Len(q) - 1) : Tail(q)[i] = q[i + 1]
         /\ ToSet(q) = ToSet(Tail(q)) \cup {Head(q)}
<1>1. /\ Head(q) \in S /\ Head(q) = q[1] /\ Tail(q) \in Seq(S) /\ Len(q) >= 1
      /\ Len(Tail(q)) = Len(q) - 1
      /\ \A i \in 1..(Len(q) - 1) : Tail(q)[i] = q[i + 1]
  OBVIOUS
<1>2. ASSUME NEW d
      PROVE  d \in ToSet(q) <=> d \in ToSet(Tail(q)) \/ d = Head(q)
  <2>1. d \in ToSet(q) <=> \E i \in 1..Len(q) : d = q[i]
    BY InQueue
  <2>2. d \in ToSet(Tail(q)) <=> \E i \in 1..(Len(q) - 1) : d = q[i + 1]
    <3>1. PICK r \in Seq(S) :
            /\ r = Tail(q) /\ Len(r) = Len(q) - 1
            /\ \A i \in 1..(Len(q) - 1) : r[i] = q[i + 1]
      BY <1>1
    <3>2. d \in ToSet(r) <=> \E i \in 1..Len(r) : d = r[i]
      BY InQueue
    <3> QED
      BY <3>1, <3>2
  <2>3. (\E i \in 1..Len(q) : d = q[i]) <=>
          (d = q[1] \/ \E i \in 1..(Len(q) - 1) : d = q[i + 1])
    <3>1. \A i \in 1..Len(q) : i = 1 \/ (i - 1 \in 1..(Len(q) - 1) /\ (i - 1) + 1 = i)
      OBVIOUS
    <3>2. 1 \in 1..Len(q) /\ \A i \in 1..(Len(q) - 1) : i + 1 \in 1..Len(q)
      BY <1>1
    <3> QED
      BY <3>1, <3>2
  <2> QED
    BY <1>1, <2>1, <2>2, <2>3
<1> QED
  BY <1>1, <1>2

\* A queue without its i-th call.
LEMMA QueueRemove ==
  ASSUME NEW S, NEW q \in Seq(S), NEW i \in 1..Len(q)
  PROVE  /\ RemoveAt(q, i) \in Seq(S) /\ Len(RemoveAt(q, i)) = Len(q) - 1
         /\ \A j \in 1..(Len(q) - 1) :
              RemoveAt(q, i)[j] = IF j < i THEN q[j] ELSE q[j + 1]
<1>1. PICK n \in Nat : n = Len(q)
  OBVIOUS
<1>2. /\ SubSeq(q, 1, i - 1) \in Seq(S) /\ Len(SubSeq(q, 1, i - 1)) = i - 1
      /\ \A j \in 1..(i - 1) : SubSeq(q, 1, i - 1)[j] = q[j]
  OBVIOUS
<1>3. /\ SubSeq(q, i + 1, n) \in Seq(S) /\ Len(SubSeq(q, i + 1, n)) = n - i
      /\ \A j \in 1..(n - i) : SubSeq(q, i + 1, n)[j] = q[j + i]
  BY <1>1
<1>4. PICK a \in Seq(S) : /\ a = SubSeq(q, 1, i - 1) /\ Len(a) = i - 1
                          /\ \A j \in 1..(i - 1) : a[j] = q[j]
  BY <1>2
<1>5. PICK b \in Seq(S) : /\ b = SubSeq(q, i + 1, n) /\ Len(b) = n - i
                          /\ \A j \in 1..(n - i) : b[j] = q[j + i]
  BY <1>3
<1>6. /\ a \o b \in Seq(S) /\ Len(a \o b) = n - 1
      /\ \A j \in 1..(n - 1) : (a \o b)[j] = IF j <= i - 1 THEN a[j] ELSE b[j - (i - 1)]
  <2>1. /\ a \o b \in Seq(S) /\ Len(a \o b) = Len(a) + Len(b)
        /\ \A j \in 1..(Len(a) + Len(b)) :
             (a \o b)[j] = IF j <= Len(a) THEN a[j] ELSE b[j - Len(a)]
    BY ConcatProperties
  <2>2. (i - 1) + (n - i) = n - 1
    BY <1>1
  <2> QED
    BY <1>4, <1>5, <2>1, <2>2
<1>7. ASSUME NEW j \in 1..(n - 1)
      PROVE  (a \o b)[j] = IF j < i THEN q[j] ELSE q[j + 1]
  <2>1. CASE j < i
    <3>1. j <= i - 1 /\ j \in 1..(i - 1)
      BY <1>1, <2>1
    <3> QED
      BY <1>4, <1>6, <2>1, <3>1
  <2>2. CASE ~(j < i)
    <3>1. j - (i - 1) \in 1..(n - i) /\ (j - (i - 1)) + i = j + 1
      BY <1>1, <2>2
    <3>2. (a \o b)[j] = b[j - (i - 1)]
      BY <1>1, <1>6, <2>2
    <3>3. b[j - (i - 1)] = q[(j - (i - 1)) + i]
      BY <1>5, <3>1
    <3> QED
      BY <2>2, <3>1, <3>2, <3>3
  <2> QED
    BY <2>1, <2>2
<1>8. RemoveAt(q, i) = a \o b
  BY <1>1, <1>4, <1>5 DEF RemoveAt
<1> QED
  BY <1>1, <1>6, <1>7, <1>8

-----------------------------------------------------------------------------
(* What a task that goes on leaves on the queue.                           *)

Quieted(t) == running /\ Head(calls).task = t /\ Heard(Head(calls))

\* The queue is that of before, but for the call the task has heard of: it is
\* gone, or goes on unheard.
Kept(t, queue) ==
  /\ Shape(queue)
  /\ \A c \in ToSet(queue) :
       /\ c.task # t => c \in ToSet(calls)
       /\ c.task = t => /\ ~Heard(c)
                        /\ \/ c \in ToSet(calls)
                           \/ /\ Quieted(t)
                              /\ c.op = Head(calls).op /\ c.raised = Head(calls).raised
  /\ \A c \in ToSet(calls) : c.task # t \/ ~Heard(c) => c \in ToSet(queue)
  /\ Quieted(t) => \E c \in ToSet(queue) : c.task = t /\ c.op = Head(calls).op

\* While the worker runs a call, it is the first in the queue.
LEMMA HeadInCalls ==
  ASSUME Shape(calls), running
  PROVE  Head(calls) \in ToSet(calls) /\ Head(calls) \in CallRecords
BY QueueTail DEF Shape

\* A task that does not wait for an answer needs none of the calls.
LEMMA KeptCalls ==
  ASSUME NEW t \in Tasks, Shape(calls), Answers, pc[t] \notin Calls \/ answer[t] # "none"
  PROVE  Kept(t, calls) /\ ~Quieted(t)
<1>1. \A c \in ToSet(calls) : c.task = t => ~Heard(c)
  <2>1. \A c \in ToSet(calls) : c \in CallRecords
    BY InQueue DEF Shape
  <2> QED
    BY <2>1 DEF Answers, CallRecords
<1>2. ~Quieted(t)
  BY <1>1, HeadInCalls DEF Quieted
<1> QED
  BY <1>1, <1>2 DEF Kept

\* Nobody waits for a call that was forgotten; it is the same otherwise.
LEMMA Unheard ==
  ASSUME NEW c \in CallRecords
  PROVE  \E d \in CallRecords : /\ d = [c EXCEPT !.heard = FALSE]
                                /\ d.task = c.task /\ d.op = c.op /\ d.raised = c.raised
                                /\ ~Heard(d)
<1> DEFINE d == [c EXCEPT !.heard = FALSE]
<1>1. d \in CallRecords /\ d.task = c.task /\ d.op = c.op /\ d.raised = c.raised
  BY DEF CallRecords
<1>2. d.heard = FALSE
  BY DEF CallRecords
<1>3. ~Heard(d)
  BY <1>2, Zenon DEF Heard
<1> QED
  BY <1>1, <1>3

\* A task that forgets its call needs none of what is left.
LEMMA KeptForget ==
  ASSUME NEW t \in Tasks, Shape(calls)
  PROVE  Kept(t, Forget(t))
<1> DEFINE mine == {i \in DOMAIN calls : calls[i].task = t /\ calls[i].heard}
<1>1. PICK n \in Nat : /\ n = Len(calls) /\ DOMAIN calls = 1..n
                       /\ \A i \in 1..n : calls[i] \in CallRecords
  BY DEF Shape
<1>8. \A i : i \in mine <=> i \in 1..n /\ calls[i].task = t /\ Heard(calls[i])
  BY <1>1, Zenon DEF Heard
<1> HIDE DEF mine
<1>2. \A c : c \in ToSet(calls) <=> \E i \in 1..n : c = calls[i]
  BY <1>1, InQueue DEF Shape
<1>3. running => n >= 1 /\ Head(calls) = calls[1]
  BY <1>1, QueueTail DEF Shape
<1>4. Quieted(t) => running /\ 1 \in mine
  BY <1>1, <1>3, <1>8 DEF Quieted
<1>5. CASE mine = {}
  <2>1. Forget(t) = calls /\ ~Quieted(t)
    BY <1>4, <1>5, Zenon DEF Forget, mine
  <2>2. \A c \in ToSet(calls) : c.task = t => ~Heard(c)
    BY <1>2, <1>5, <1>8
  <2> QED
    BY <2>1, <2>2 DEF Kept
<1>6. CASE running /\ 1 \in mine
  <2>1. Forget(t) = [calls EXCEPT ![1] = [calls[1] EXCEPT !.heard = FALSE]]
    BY <1>6, Zenon DEF Forget, mine
  <2>2. PICK d \in CallRecords :
          /\ d = [calls[1] EXCEPT !.heard = FALSE] /\ d.task = t /\ ~Heard(d)
          /\ d.op = calls[1].op /\ d.raised = calls[1].raised
    <3>1. calls[1] \in CallRecords /\ calls[1].task = t
      BY <1>1, <1>6, <1>8
    <3> QED
      BY <3>1, Unheard
  <2>3. PICK q \in Seq(CallRecords) :
          /\ q = Forget(t) /\ Len(q) = n /\ DOMAIN q = 1..n /\ q[1] = d
          /\ \A i \in 1..n : i # 1 => q[i] = calls[i]
    <3>1. calls \in Seq(CallRecords) /\ 1 \in 1..n
      BY <1>6, <1>8 DEF Shape
    <3>2. PICK q : q = [calls EXCEPT ![1] = d]
      OBVIOUS
    <3>3. q \in Seq(CallRecords) /\ Len(q) = n /\ DOMAIN q = 1..n
      BY <1>1, <3>1, <3>2
    <3>4. q[1] = d /\ \A i \in 1..n : i # 1 => q[i] = calls[i]
      BY <1>1, <3>1, <3>2
    <3> QED
      BY <2>1, <2>2, <3>2, <3>3, <3>4
  <2>4. \A c : c \in ToSet(q) <=> \E i \in 1..n : c = q[i]
    BY <2>3, InQueue
  <2>5. \A i \in 1..n : i # 1 => Heard(calls[i]) /\ calls[i].task # t
    BY <1>1, <1>6, <1>8 DEF Shape
  <2>6. Shape(q)
    <3>1. q # <<>>
      BY <1>1, <1>6, <1>8, <2>3
    <3>2. \A i \in 1..n : ~Heard(q[i]) => i = 1 /\ running
      BY <1>6, <2>3, <2>5
    <3>3. \A i, j \in 1..n : Heard(q[i]) /\ Heard(q[j]) /\ q[i].task = q[j].task => i = j
      BY <1>1, <2>2, <2>3 DEF Shape
    <3> QED
      BY <2>3, <3>1, <3>2, <3>3 DEF Shape
  <2>7. \A c \in ToSet(q) : c = d \/ (c \in ToSet(calls) /\ c.task # t)
    BY <1>2, <2>3, <2>4, <2>5
  <2>8. \A c \in ToSet(calls) : c.task # t \/ ~Heard(c) => c \in ToSet(q)
    BY <1>1, <1>2, <1>6, <1>8, <2>3, <2>4
  <2>9. Quieted(t) /\ d \in ToSet(q) /\ Head(calls) = calls[1]
    BY <1>1, <1>3, <1>6, <1>8, <2>3, <2>4 DEF Quieted
  <2> QED
    BY <2>2, <2>3, <2>6, <2>7, <2>8, <2>9 DEF Kept
<1>7. CASE mine # {} /\ ~(running /\ 1 \in mine)
  <2>1. PICK k \in mine : Forget(t) = RemoveAt(calls, k)
    BY <1>7, Zenon DEF Forget, mine
  <2>2. k \in 1..n /\ calls[k].task = t /\ Heard(calls[k])
    BY <1>8, <2>1
  <2>3. PICK q \in Seq(CallRecords) :
          /\ q = Forget(t) /\ Len(q) = n - 1 /\ DOMAIN q = 1..(n - 1)
          /\ \A j \in 1..(n - 1) : q[j] = IF j < k THEN calls[j] ELSE calls[j + 1]
    <3>1. k \in 1..Len(calls)
      BY <1>1, <2>2
    <3>2. /\ RemoveAt(calls, k) \in Seq(CallRecords) /\ Len(RemoveAt(calls, k)) = Len(calls) - 1
          /\ \A j \in 1..(Len(calls) - 1) :
               RemoveAt(calls, k)[j] = IF j < k THEN calls[j] ELSE calls[j + 1]
      BY <3>1, QueueRemove DEF Shape
    <3>3. PICK q \in Seq(CallRecords) : q = RemoveAt(calls, k)
      BY <3>2
    <3>4. Len(q) = n - 1 /\ DOMAIN q = 1..(n - 1)
      BY <1>1, <3>2, <3>3
    <3>5. \A j \in 1..(n - 1) : q[j] = IF j < k THEN calls[j] ELSE calls[j + 1]
      BY <1>1, <3>2, <3>3
    <3> QED
      BY <2>1, <3>3, <3>4, <3>5
  <2>4. \A c : c \in ToSet(q) <=> \E j \in 1..(n - 1) : c = q[j]
    BY <2>3, InQueue
  <2>5. \A i \in 1..n : i # k => ~(calls[i].task = t /\ Heard(calls[i]))
    BY <1>1, <2>2 DEF Shape
  <2>6. ~Quieted(t)
    BY <1>4, <1>7
  <2>7. Shape(q)
    <3>1. running => q # <<>>
      BY <1>1, <1>3, <1>7, <1>8, <2>1, <2>2, <2>3
    <3>2. ASSUME NEW j \in 1..(n - 1), ~Heard(q[j])
          PROVE  j = 1 /\ running
      BY <1>1, <2>2, <2>3, <3>2 DEF Shape
    <3>3. ASSUME NEW i \in 1..(n - 1), NEW j \in 1..(n - 1),
                 Heard(q[i]), Heard(q[j]), q[i].task = q[j].task
          PROVE  i = j
      <4>1. \A a, b \in 1..n :
              Heard(calls[a]) /\ Heard(calls[b]) /\ calls[a].task = calls[b].task => a = b
        BY <1>1 DEF Shape
      <4>2. PICK a \in 1..n : q[i] = calls[a] /\ a = IF i < k THEN i ELSE i + 1
        BY <2>2, <2>3
      <4>3. PICK b \in 1..n : q[j] = calls[b] /\ b = IF j < k THEN j ELSE j + 1
        BY <2>2, <2>3
      <4>4. a = b
        BY <3>3, <4>1, <4>2, <4>3
      <4> QED
        BY <2>2, <4>2, <4>3, <4>4
    <3> QED
      BY <2>3, <3>1, <3>2, <3>3 DEF Shape
  <2>8. \A c \in ToSet(q) : c \in ToSet(calls) /\ ~(c.task = t /\ Heard(c))
    <3>1. ASSUME NEW j \in 1..(n - 1)
          PROVE  \E i \in 1..n : i # k /\ q[j] = calls[i]
      BY <2>2, <2>3
    <3> QED
      BY <1>2, <2>4, <2>5, <3>1
  <2>9. ASSUME NEW c \in ToSet(calls), c.task # t \/ ~Heard(c)
        PROVE  c \in ToSet(q)
    <3>1. PICK i \in 1..n : c = calls[i]
      BY <1>2
    <3>2. i # k
      BY <2>2, <2>9, <3>1
    <3>3. \E j \in 1..(n - 1) : c = q[j]
      <4>1. CASE i < k
        BY <2>2, <2>3, <3>1, <4>1
      <4>2. CASE i > k
        <5>1. i - 1 \in 1..(n - 1) /\ ~(i - 1 < k) /\ (i - 1) + 1 = i
          BY <2>2, <4>2
        <5> QED
          BY <2>3, <3>1, <5>1
      <4> QED
        BY <2>2, <3>2, <4>1, <4>2
    <3> QED
      BY <2>4, <3>3
  <2>10. \A c \in ToSet(q) : c.task = t => ~Heard(c)
    BY <2>8
  <2> QED
    BY <2>3, <2>6, <2>7, <2>8, <2>9, <2>10 DEF Kept
<1> QED
  BY <1>5, <1>6, <1>7

-----------------------------------------------------------------------------
(* A step of a task.                                                       *)

\* The task goes to op; what is left of its calls goes on unheard.
Moved(t, op, raised) ==
  /\ op \in Places /\ pc' = [pc EXCEPT ![t] = op]
  /\ closed' = (closed \/ op = "closing")
  /\ Shape(calls)'
  /\ \A c \in ToSet(calls') : c.task # t => c \in ToSet(calls)
  /\ \A c \in ToSet(calls') : c.task = t /\ Heard(c) =>
       op \in Calls /\ c.op = op /\ c.raised = raised
  /\ \A c \in ToSet(calls') : c.task = t /\ ~Heard(c) =>
       \/ c \in ToSet(calls)
       \/ Quieted(t) /\ c.op = Head(calls).op /\ c.raised = Head(calls).raised
  /\ \A c \in ToSet(calls) : c.task # t \/ ~Heard(c) => c \in ToSet(calls')
  /\ Quieted(t) => \E c \in ToSet(calls') : c.task = t /\ c.op = Head(calls).op
  /\ op \in Calls => \E c \in ToSet(calls') : c.task = t /\ c.op = op

\* A task goes where it is sent, or is done if the session is closed.
LEMMA GotoMoves ==
  ASSUME NEW t \in Tasks, NEW next \in Places, NEW queue, NEW raised \in BOOLEAN,
         Kept(t, queue), Goto(t, next, queue, raised), UNCHANGED running
  PROVE  \E op \in Places : /\ op = (IF next \in Calls /\ closed THEN "done" ELSE next)
                            /\ Moved(t, op, raised)
<1>1. PICK op \in Places :
        /\ op = (IF next \in Calls /\ closed THEN "done" ELSE next)
        /\ pc' = [pc EXCEPT ![t] = op]
        /\ calls' = IF op \in Calls
                    THEN Append(queue, [task |-> t, op |-> op, raised |-> raised,
                                        heard |-> TRUE])
                    ELSE queue
        /\ closed' = (closed \/ op = "closing")
  BY DEF Goto, Places
<1>2. CASE op \notin Calls
  <2>1. calls' = queue
    BY <1>1, <1>2
  <2>2. Shape(calls')
    BY <2>1 DEF Kept
  <2>3. Shape(calls)'
    BY <2>2 DEF Shape
  <2> QED
    BY <1>1, <1>2, <2>1, <2>3 DEF Moved, Kept
<1>3. CASE op \in Calls
  <2>1. PICK new \in CallRecords :
          /\ new = [task |-> t, op |-> op, raised |-> raised, heard |-> TRUE]
          /\ new.task = t /\ new.op = op /\ new.raised = raised /\ Heard(new)
    <3> DEFINE new == [task |-> t, op |-> op, raised |-> raised, heard |-> TRUE]
    <3>1. new \in CallRecords /\ new.task = t /\ new.op = op /\ new.raised = raised
      BY <1>3 DEF CallRecords
    <3>2. Heard(new)
      BY DEF Heard
    <3> QED
      BY <3>1, <3>2
  <2>2. calls' = Append(queue, new) /\ queue \in Seq(CallRecords)
    BY <1>1, <1>3, <2>1 DEF Kept, Shape
  <2>3. ToSet(calls') = ToSet(queue) \cup {new}
    <3>1. ToSet(Append(queue, new)) = ToSet(queue) \cup {new}
      BY <2>2, QueueAppend
    <3> QED
      BY <2>2, <3>1
  <2>4. Shape(calls)'
    <3>1. PICK n \in Nat : n = Len(queue) /\ DOMAIN queue = 1..n
      BY <2>2
    <3>2. /\ calls' \in Seq(CallRecords) /\ calls' # <<>> /\ DOMAIN calls' = 1..(n + 1)
          /\ calls'[n + 1] = new /\ \A i \in 1..n : calls'[i] = queue[i]
      BY <2>1, <2>2, <3>1
    <3>3. \A i \in 1..n : queue[i].task = t => ~Heard(queue[i])
      <4>1. \A i \in 1..n : queue[i] \in ToSet(queue)
        BY <2>2, <3>1, InQueue
      <4> QED
        BY <4>1 DEF Kept
    <3>4. \A i \in 1..(n + 1) : ~Heard(calls'[i]) => i = 1 /\ running
      BY <2>1, <3>1, <3>2 DEF Kept, Shape
    <3>5. ASSUME NEW i \in 1..(n + 1), NEW j \in 1..(n + 1),
                 Heard(calls'[i]), Heard(calls'[j]), calls'[i].task = calls'[j].task
          PROVE  i = j
      <4>1. CASE i = n + 1 /\ j # n + 1
        BY <2>1, <3>2, <3>3, <3>5, <4>1
      <4>2. CASE i # n + 1 /\ j = n + 1
        BY <2>1, <3>2, <3>3, <3>5, <4>2
      <4>3. CASE i # n + 1 /\ j # n + 1
        <5>1. i \in 1..n /\ j \in 1..n
          BY <4>3
        <5> QED
          BY <3>1, <3>2, <3>5, <5>1 DEF Kept, Shape
      <4> QED
        BY <4>1, <4>2, <4>3
    <3> QED
      BY <3>2, <3>4, <3>5 DEF Shape
  <2>5. /\ \A c \in ToSet(calls') : c.task # t => c \in ToSet(calls)
        /\ \A c \in ToSet(calls') : c.task = t /\ Heard(c) => c = new
        /\ \A c \in ToSet(calls') : c.task = t /\ ~Heard(c) => c \in ToSet(queue)
    BY <2>1, <2>3 DEF Kept
  <2> QED
    BY <1>1, <1>3, <2>1, <2>3, <2>4, <2>5 DEF Moved, Kept
<1> QED
  BY <1>1, <1>2, <1>3

InBlock == {"ready", "enter", "write", "leave"}

\* What the step owes to the others.
Lawful(t, op, raised) ==
  /\ UNCHANGED executorVars /\ excused \subseteq excused'
  /\ failing' \in [Tasks -> BOOLEAN] /\ holds' \in [Tasks -> BOOLEAN]
  /\ ended' \in [Tasks -> BOOLEAN] /\ answer' \in [Tasks -> {"none", "ok", "error"}]
  /\ \A u \in Tasks : u # t => /\ failing'[u] = failing[u] /\ holds'[u] = holds[u]
                               /\ ended'[u] = ended[u] /\ answer'[u] = answer[u]
  /\ answer'[t] = "none" /\ (ended[t] => ended'[t])
  /\ op \in {"login", "exit", "closing"} => t = Owner
  /\ op \in {"new", "login"} => ~failing'[t]
  /\ t = Owner /\ closed => op \in {"closing", "done"}
  /\ op = "commit" \/ (op = "exit" /\ ~raised) => ended'[t]
  /\ op = "abort" => failing'[t]
  /\ pc[t] \in InBlock => op \in InBlock \cup {"abort"} \/ closed' \/ ended'[t]
  /\ pc[t] = "abort" => \/ Quieted(t) \/ answer[t] # "none"
                        \/ <<"abort", t>> \in excused'
  /\ (holds[t] /\ pc[t] \in {"ready", "write"}) \/ (pc[t] = "enter" /\ answer[t] = "ok") =>
       \/ holds'[t] /\ op \in {"ready", "write"}
       \/ op = "leave" \/ closed' \/ <<"handle", t>> \in excused'
  /\ pc[t] = "leave" => \/ Quieted(t) \/ answer[t] # "none"
                        \/ <<"handle", t>> \in excused'
  /\ pc[t] = "enter" /\ Quieted(t) => <<"handle", t>> \in excused'
  /\ t = Owner /\ (pc[t] = "login" => answer[t] = "ok")
       /\ pc[t] \in InBlock \cup {"commit", "abort", "login"} =>
       op \in InBlock \cup {"commit", "abort", "exit"} \/ <<"login", t>> \in excused'
  /\ pc[t] = "exit" => \/ Quieted(t) \/ answer[t] # "none"
                       \/ <<"login", t>> \in excused'
  /\ pc[t] = "login" /\ Quieted(t) => <<"login", t>> \in excused'

\* A lawful move of one task keeps the invariant.
LEMMA TaskStep ==
  ASSUME AsyncIInv, NEW t \in Tasks, NEW op, NEW raised \in BOOLEAN,
         Moved(t, op, raised), Lawful(t, op, raised)
  PROVE  AsyncIInv'
<1> USE DEF AsyncIInv
<1>1. /\ UNCHANGED <<running, loggedIn, writers, exported, durable>>
      /\ pc'[t] = op /\ \A u \in Tasks : u # t => pc'[u] = pc[u]
  BY DEF Lawful, Moved, executorVars, AsyncTypeOK
<1>2. \A c \in ToSet(calls) : c \in CallRecords /\ c.task \in Tasks /\ c.op \in Calls
  <2>1. calls \in Seq(CallRecords)
    BY DEF Shape
  <2>2. \A c \in ToSet(calls) : c \in CallRecords
    BY <2>1, InQueue
  <2> QED
    BY <2>2 DEF CallRecords
<1>3. \A c \in ToSet(calls') : c \in CallRecords /\ c.task \in Tasks /\ c.op \in Calls
  <2>1. calls' \in Seq(CallRecords)
    BY DEF Moved, Shape
  <2>2. \A c \in ToSet(calls') : c \in CallRecords
    BY <2>1, InQueue
  <2> QED
    BY <2>2 DEF CallRecords
<1>4. Quieted(t) => /\ Head(calls) \in ToSet(calls) /\ Head(calls).task = t
                    /\ Head(calls).op = pc[t] /\ answer[t] = "none"
  BY HeadInCalls DEF Quieted, Answers
<1>5. AsyncTypeOK'
  BY <1>1 DEF AsyncTypeOK, Lawful, Moved, Shape
<1>6. Answers'
  <2>1. ASSUME NEW c \in ToSet(calls'), Heard(c)
        PROVE  pc'[c.task] = c.op /\ answer'[c.task] = "none"
    BY <1>1, <1>3, <2>1 DEF Answers, Moved, Lawful
  <2>2. ASSUME NEW u \in Tasks, answer'[u] # "none"
        PROVE  pc'[u] \in Calls
    BY <1>1, <2>2 DEF Answers, Lawful
  <2> QED
    BY <2>1, <2>2 DEF Answers
<1>7. OwnerOnly'
  <2>1. ASSUME NEW u \in Tasks
        PROVE  /\ pc'[u] \in {"login", "exit", "closing"} => u = Owner
               /\ pc'[u] \in {"new", "login"} => ~failing'[u]
    BY <1>1 DEF OwnerOnly, Lawful
  <2>2. ASSUME NEW c \in ToSet(calls'), c.op \in {"login", "exit"}
        PROVE  c.task = Owner
    BY <1>1, <1>4, <2>2 DEF OwnerOnly, Moved, Lawful
  <2>3. closed' => pc'[Owner] \in {"closing", "done"}
    BY <1>1 DEF OwnerOnly, Moved, Lawful, Tasks
  <2> QED
    BY <2>1, <2>2, <2>3 DEF OwnerOnly
<1>8. CommitsEnded'
  <2>1. ASSUME NEW u \in Tasks
        PROVE  (pc'[u] = "commit" => ended'[u]) /\ (pc'[u] = "abort" => failing'[u])
    BY <1>1 DEF CommitsEnded, Lawful
  <2>2. ASSUME NEW c \in ToSet(calls'), c.op = "commit" \/ (c.op = "exit" /\ ~c.raised)
        PROVE  ended'[c.task]
    <3>1. CASE c.task # t
      BY <1>3, <2>2, <3>1 DEF CommitsEnded, Moved, Lawful
    <3>2. CASE c.task = t /\ Heard(c)
      BY <2>2, <3>2 DEF Moved, Lawful
    <3>3. CASE c.task = t /\ ~Heard(c)
      <4>1. CASE c \in ToSet(calls)
        BY <2>2, <3>3, <4>1 DEF CommitsEnded, Lawful
      <4>2. CASE Quieted(t) /\ c.op = Head(calls).op /\ c.raised = Head(calls).raised
        BY <1>4, <2>2, <3>3, <4>2 DEF CommitsEnded, Lawful
      <4> QED
        BY <3>3, <4>1, <4>2 DEF Moved
    <3> QED
      BY <3>1, <3>2, <3>3
  <2>3. \A u \in durable' : ended'[u] \/ <<"carried", u>> \in excused'
    BY <1>1 DEF CommitsEnded, Lawful, AsyncTypeOK
  <2> QED
    BY <2>1, <2>2, <2>3 DEF CommitsEnded
<1>9. ASSUME NEW u \in Tasks, NEW o \in Calls
      PROVE  /\ Waiting(u, o)' /\ u # t => Waiting(u, o)
             /\ Waiting(t, o)' => Waiting(t, o) \/ op = o
             /\ Waiting(u, o) /\ u # t => Waiting(u, o)'
             /\ Waiting(t, o) /\ (pc[t] = o => Quieted(t) \/ answer[t] # "none")
                  => Waiting(t, o)'
             /\ op = o => Waiting(t, o)'
  <2>1. Waiting(t, o) /\ (pc[t] = o => Quieted(t) \/ answer[t] # "none") => Waiting(t, o)'
    <3>1. SUFFICES ASSUME NEW c \in ToSet(calls), c.task = t, c.op = o,
                          pc[t] = o => Quieted(t) \/ answer[t] # "none"
                   PROVE  \E d \in ToSet(calls') : d.task = t /\ d.op = o
      BY DEF Waiting
    <3>2. CASE Heard(c)
      BY <1>4, <3>1, <3>2 DEF Answers, Moved
    <3>3. CASE ~Heard(c)
      BY <3>1, <3>3 DEF Moved
    <3> QED
      BY <3>2, <3>3
  <2>2. Waiting(t, o)' => Waiting(t, o) \/ op = o
    BY <1>4 DEF Waiting, Moved
  <2> QED
    BY <2>1, <2>2 DEF Waiting, Moved
<1>10. closed => closed'
  BY DEF Moved
<1>11. ChangesEnd'
  <2>1. SUFFICES ASSUME NEW u \in Tasks, u \in writers' \/ Waiting(u, "write")'
                 PROVE  \/ ended'[u] \/ <<"abort", u>> \in excused' \/ closed'
                        \/ pc'[u] \in InBlock
                        \/ Waiting(u, "abort")'
    BY Zenon DEF ChangesEnd, InBlock
  <2>2. CASE u # t
    BY <1>1, <1>9, <1>10, <2>1, <2>2 DEF ChangesEnd, Lawful, Calls, InBlock
  <2>3. CASE u = t /\ op \in InBlock \cup {"abort"}
    BY <1>1, <1>9, <2>3 DEF Calls, InBlock
  <2>4. CASE u = t /\ op \notin InBlock \cup {"abort"}
    <3>1. u \in writers \/ Waiting(u, "write")
      BY <1>1, <1>9, <2>1, <2>4 DEF Calls, InBlock
    <3>2. \/ ended[u] \/ <<"abort", u>> \in excused \/ closed \/ pc[u] \in InBlock
          \/ Waiting(u, "abort")
      BY <3>1 DEF ChangesEnd, InBlock
    <3> QED
      BY <1>9, <1>10, <2>4, <3>2 DEF Lawful, Calls
  <2> QED
    BY <2>2, <2>3, <2>4
<1>12. HandlesEnd'
  <2>1. ASSUME NEW u \in exported'
        PROVE  \/ <<"handle", u>> \in excused' \/ closed'
               \/ holds'[u] /\ pc'[u] \in {"ready", "write"}
               \/ pc'[u] = "enter" /\ answer'[u] = "ok"
               \/ Waiting(u, "leave")'
    <3>1. /\ u \in exported /\ u \in Tasks
          /\ \/ <<"handle", u>> \in excused \/ closed
             \/ holds[u] /\ pc[u] \in {"ready", "write"}
             \/ pc[u] = "enter" /\ answer[u] = "ok"
             \/ Waiting(u, "leave")
      BY <1>1, <2>1 DEF HandlesEnd, AsyncTypeOK
    <3>2. CASE u # t
      BY <1>1, <1>9, <1>10, <3>1, <3>2 DEF Lawful, Calls
    <3>3. CASE u = t
      BY <1>1, <1>9, <1>10, <3>1, <3>3 DEF Lawful, Calls
    <3> QED
      BY <3>2, <3>3
  <2>2. ASSUME NEW c \in ToSet(calls'), c.op = "enter", ~Heard(c)
        PROVE  <<"handle", c.task>> \in excused'
    BY <1>4, <2>2 DEF HandlesEnd, Moved, Lawful
  <2> QED
    BY <2>1, <2>2 DEF HandlesEnd
<1>13. LoginEnds'
  <2>1. ASSUME loggedIn'
        PROVE  \/ <<"login", Owner>> \in excused'
               \/ pc'[Owner] = "login" /\ answer'[Owner] = "ok"
               \/ pc'[Owner] \in {"ready", "enter", "write", "leave", "commit", "abort"}
               \/ Waiting(Owner, "exit")'
    <3>1. \/ <<"login", Owner>> \in excused
          \/ pc[Owner] = "login" /\ answer[Owner] = "ok"
          \/ pc[Owner] \in InBlock \cup {"commit", "abort"}
          \/ Waiting(Owner, "exit")
      BY <1>1, <2>1 DEF LoginEnds, InBlock
    <3>2. CASE Owner # t
      BY <1>1, <1>9, <3>1, <3>2 DEF Lawful, Calls, Tasks, InBlock
    <3>3. CASE Owner = t
      BY <1>1, <1>9, <3>1, <3>3 DEF Lawful, Calls, InBlock
    <3> QED
      BY <3>2, <3>3
  <2>2. ASSUME NEW c \in ToSet(calls'), c.op = "login", ~Heard(c)
        PROVE  <<"login", Owner>> \in excused'
    <3>1. CASE c \in ToSet(calls)
      BY <2>2, <3>1 DEF LoginEnds, Lawful
    <3>2. CASE c \notin ToSet(calls)
      <4>1. Quieted(t) /\ c.op = Head(calls).op
        BY <2>2, <3>2 DEF Moved
      <4>2. pc[t] = "login" /\ t = Owner
        BY <1>4, <2>2, <4>1 DEF OwnerOnly
      <4> QED
        BY <4>1, <4>2 DEF Lawful
    <3> QED
      BY <3>1, <3>2
  <2> QED
    BY <2>1, <2>2 DEF LoginEnds
<1> QED
  BY <1>5, <1>6, <1>7, <1>8, <1>11, <1>12, <1>13 DEF Moved

-----------------------------------------------------------------------------
(* The steps.                                                              *)

\* What the end of a call, or its cancelling, leaves behind.
Owed(t, ok) ==
  /\ pc[t] = "abort" => \/ Quieted(t) \/ answer[t] # "none"
                        \/ <<"abort", t>> \in excused'
  /\ pc[t] = "leave" => \/ Quieted(t) \/ answer[t] # "none"
                        \/ <<"handle", t>> \in excused'
  /\ pc[t] = "exit" => \/ Quieted(t) \/ answer[t] # "none"
                       \/ <<"login", t>> \in excused'
  /\ pc[t] = "enter" /\ (Quieted(t) \/ (answer[t] = "ok" /\ ~ok)) =>
       <<"handle", t>> \in excused'
  /\ pc[t] = "login" /\ (Quieted(t) \/ (answer[t] = "ok" /\ ~ok)) =>
       <<"login", t>> \in excused'

\* When the session is closed its owner is done.
LEMMA OwnerUnclosed ==
  ASSUME AsyncIInv, LoopRuns, closed
  PROVE  pc[Owner] = "done"
BY DEF AsyncIInv, OwnerOnly, LoopRuns, Tasks

\* A task that goes on with its answer keeps the invariant.
LEMMA Proceeds ==
  ASSUME AsyncIInv, LoopRuns, NEW t \in Tasks, NEW ok \in BOOLEAN, NEW queue, pc[t] \in Calls,
         Kept(t, queue), Proceed(t, ok, queue), UNCHANGED <<executorVars, ended>>,
         excused \subseteq excused', Owed(t, ok)
  PROVE  AsyncIInv'
<1>1. PICK failed \in BOOLEAN, holding \in BOOLEAN :
        /\ failed = (failing[t] \/ ~ok)
        /\ holding = ((holds[t] \/ (pc[t] = "enter" /\ ok)) /\ pc[t] # "leave")
        /\ Goto(t, After(t, pc[t], failed, holding), queue, failed)
        /\ failing' = [failing EXCEPT ![t] = failed]
        /\ holds' = [holds EXCEPT ![t] = holding]
        /\ answer' = [answer EXCEPT ![t] = "none"]
  BY DEF Proceed
<1>2. PICK next \in Places : next = After(t, pc[t], failed, holding)
  BY DEF After, Unwind, Places, Calls
<1>3. /\ pc[t] = "login" => next = IF failed THEN "done" ELSE "ready"
      /\ pc[t] \in {"enter", "write", "leave"} =>
           next = IF failed THEN IF holding THEN "leave" ELSE "abort" ELSE "ready"
      /\ pc[t] \in {"commit", "abort"} => next = IF t = Owner THEN "exit" ELSE "done"
      /\ pc[t] = "exit" => next = "closing"
  BY <1>2 DEF After, Unwind
<1>4. PICK op \in Places : /\ op = (IF next \in Calls /\ closed THEN "done" ELSE next)
                           /\ Moved(t, op, failed)
  <2>1. Goto(t, next, queue, failed) /\ running' = running
    BY <1>1, <1>2 DEF executorVars
  <2> QED
    BY <2>1, GotoMoves
<1>5. t = Owner => ~closed
  BY OwnerUnclosed DEF Calls
<1>6. /\ failing' \in [Tasks -> BOOLEAN] /\ holds' \in [Tasks -> BOOLEAN]
      /\ ended' \in [Tasks -> BOOLEAN] /\ answer' \in [Tasks -> {"none", "ok", "error"}]
      /\ \A u \in Tasks : u # t => /\ failing'[u] = failing[u] /\ holds'[u] = holds[u]
                                   /\ ended'[u] = ended[u] /\ answer'[u] = answer[u]
      /\ answer'[t] = "none" /\ ended' = ended /\ failing'[t] = failed /\ holds'[t] = holding
  BY <1>1 DEF AsyncIInv, AsyncTypeOK
<1>7. closed => closed'
  BY <1>4 DEF Moved
<1>8. /\ pc[t] \in {"login", "exit"} => t = Owner
      /\ pc[t] = "login" => ~failing[t]
      /\ pc[t] = "commit" => ended[t]
      /\ pc[t] = "abort" => failing[t]
  BY DEF AsyncIInv, OwnerOnly, CommitsEnded
<1>9. Lawful(t, op, failed)
  <2>1. CASE pc[t] = "login"
    BY <1>1, <1>3, <1>4, <1>5, <1>6, <1>7, <1>8, <2>1 DEF Lawful, Owed, InBlock, Calls
  <2>2. CASE pc[t] \in {"enter", "write", "leave"}
    BY <1>1, <1>3, <1>4, <1>5, <1>6, <1>7, <1>8, <2>2 DEF Lawful, Owed, InBlock, Calls
  <2>3. CASE pc[t] \in {"commit", "abort"}
    BY <1>1, <1>3, <1>4, <1>5, <1>6, <1>7, <1>8, <2>3 DEF Lawful, Owed, InBlock, Calls
  <2>4. CASE pc[t] = "exit"
    BY <1>1, <1>3, <1>4, <1>5, <1>6, <1>7, <1>8, <2>4 DEF Lawful, Owed, InBlock, Calls
  <2> QED
    BY <2>1, <2>2, <2>3, <2>4 DEF Calls
<1> QED
  BY <1>4, <1>9, TaskStep

\* The actions, one by one: a task goes on,
LEMMA ResumeStep ==
  ASSUME AsyncIInv, NEW t \in Tasks, Resume(t)
  PROVE  AsyncIInv'
<1>1. /\ LoopRuns /\ answer[t] # "none" /\ Proceed(t, answer[t] = "ok", calls)
      /\ UNCHANGED <<executorVars, ended>> /\ excused' = excused
  BY DEF Resume
<1>2. PICK ok \in BOOLEAN : ok = (answer[t] = "ok")
  OBVIOUS
<1>3. pc[t] \in Calls
  BY <1>1 DEF AsyncIInv, Answers
<1>4. Kept(t, calls) /\ ~Quieted(t)
  BY <1>1, KeptCalls DEF AsyncIInv
<1>5. Owed(t, ok)
  BY <1>1, <1>2, <1>4 DEF Owed
<1> QED
  BY <1>1, <1>2, <1>3, <1>4, <1>5, Proceeds

\* it is cancelled,
LEMMA CancelStep ==
  ASSUME AsyncIInv, NEW t \in Tasks, Cancel(t)
  PROVE  AsyncIInv'
<1>1. /\ LoopRuns /\ pc[t] \in Calls /\ Proceed(t, FALSE, Forget(t))
      /\ UNCHANGED <<executorVars, ended>> /\ excused' = excused \cup LeftBehind(t)
  BY DEF Cancel
<1>2. Kept(t, Forget(t))
  BY KeptForget DEF AsyncIInv
<1>3. PICK began \in BOOLEAN :
        /\ began = (Quieted(t) \/ answer[t] # "none")
        /\ LeftBehind(t) =
             CASE pc[t] = "abort" /\ ~began -> Excuse("abort", {t})
               [] pc[t] = "leave" /\ ~began -> Excuse("handle", {t})
               [] pc[t] = "enter" /\ began -> Excuse("handle", {t})
               [] pc[t] = "login" /\ began -> Excuse("login", {t})
               [] pc[t] = "exit" /\ ~began -> Excuse("login", {t})
               [] OTHER -> {}
  <2> DEFINE b == Quieted(t) \/ answer[t] # "none"
  <2>1. b \in BOOLEAN
    OBVIOUS
  <2>2. (((running /\ Head(calls).task = t /\ Head(calls).heard) \/ answer[t] # "none")) <=> b
    BY DEF Quieted, Heard
  <2> QED
    BY <2>1, <2>2, Zenon DEF LeftBehind, Quieted, Heard
<1>4. \A why : <<why, t>> \in Excuse(why, {t})
  BY DEF Excuse
<1>5. Owed(t, FALSE)
  <2>1. CASE pc[t] = "abort" /\ ~began
    BY <1>1, <1>3, <1>4, <2>1 DEF Owed
  <2>2. CASE pc[t] = "leave" /\ ~began
    BY <1>1, <1>3, <1>4, <2>2 DEF Owed
  <2>3. CASE pc[t] = "enter" /\ began
    BY <1>1, <1>3, <1>4, <2>3 DEF Owed
  <2>4. CASE pc[t] = "login" /\ began
    BY <1>1, <1>3, <1>4, <2>4 DEF Owed
  <2>5. CASE pc[t] = "exit" /\ ~began
    BY <1>1, <1>3, <1>4, <2>5 DEF Owed
  <2> QED
    BY <1>3, <2>1, <2>2, <2>3, <2>4, <2>5 DEF Owed
<1> QED
  BY <1>1, <1>2, <1>5, Proceeds

\* it opens a block,
LEMMA OpenStep ==
  ASSUME AsyncIInv, Open
  PROVE  AsyncIInv'
<1>1. /\ LoopRuns /\ pc[Owner] = "new" /\ Goto(Owner, "login", calls, FALSE)
      /\ UNCHANGED <<executorVars, answer, failing, holds, ended, excused>>
      /\ Owner \in Tasks
  BY DEF Open, Tasks
<1>2. Kept(Owner, calls) /\ answer[Owner] = "none"
  BY <1>1, KeptCalls DEF AsyncIInv, Calls, Answers
<1>3. ~closed /\ ~failing[Owner]
  BY <1>1, OwnerUnclosed DEF AsyncIInv, OwnerOnly
<1>4. Moved(Owner, "login", FALSE)
  <2>1. PICK op \in Places :
          /\ op = (IF "login" \in Calls /\ closed THEN "done" ELSE "login")
          /\ Moved(Owner, op, FALSE)
    <3>1. running' = running /\ "login" \in Places
      BY <1>1 DEF executorVars, Places, Calls
    <3> QED
      BY <1>1, <1>2, <3>1, GotoMoves
  <2> QED
    BY <1>3, <2>1
<1>5. Lawful(Owner, "login", FALSE)
  BY <1>1, <1>2, <1>3 DEF Lawful, InBlock, AsyncIInv, AsyncTypeOK
<1> QED
  BY <1>1, <1>4, <1>5, TaskStep

\* it joins one,
LEMMA JoinStep ==
  ASSUME AsyncIInv, NEW t \in Tasks, Join(t)
  PROVE  AsyncIInv'
<1>1. /\ t # Owner /\ pc[t] = "new" /\ Goto(t, "ready", calls, FALSE)
      /\ UNCHANGED <<executorVars, answer, failing, holds, ended, excused>>
  BY DEF Join
<1>2. Kept(t, calls) /\ answer[t] = "none"
  BY <1>1, KeptCalls DEF AsyncIInv, Calls, Answers
<1>3. Moved(t, "ready", FALSE)
  <2>1. PICK op \in Places :
          /\ op = (IF "ready" \in Calls /\ closed THEN "done" ELSE "ready")
          /\ Moved(t, op, FALSE)
    <3>1. running' = running /\ "ready" \in Places
      BY <1>1 DEF executorVars, Places
    <3> QED
      BY <1>1, <1>2, <3>1, GotoMoves
  <2> QED
    BY <2>1 DEF Calls
<1>4. Lawful(t, "ready", FALSE)
  BY <1>1, <1>2 DEF Lawful, InBlock, AsyncIInv, AsyncTypeOK
<1> QED
  BY <1>3, <1>4, TaskStep

\* it calls,
LEMMA CallStep ==
  ASSUME AsyncIInv, NEW t \in Tasks, NEW next \in {"enter", "write", "leave"}, Call(t, next)
  PROVE  AsyncIInv'
<1>1. /\ LoopRuns /\ pc[t] = "ready" /\ (next = "enter" => ~holds[t])
      /\ Goto(t, next, calls, FALSE) /\ failing' = [failing EXCEPT ![t] = closed]
      /\ UNCHANGED <<executorVars, answer, holds, ended, excused>>
  BY DEF Call
<1>2. Kept(t, calls) /\ answer[t] = "none"
  BY <1>1, KeptCalls DEF AsyncIInv, Calls, Answers
<1>3. PICK op \in Places : /\ op = (IF next \in Calls /\ closed THEN "done" ELSE next)
                           /\ Moved(t, op, FALSE)
  BY <1>1, <1>2, GotoMoves DEF Places, Calls, executorVars
<1>4. t = Owner => ~closed
  BY <1>1, OwnerUnclosed
<1>5. (closed => closed') /\ (op = "done" => closed)
  BY <1>3 DEF Moved
<1>6. Lawful(t, op, FALSE)
  BY <1>1, <1>2, <1>3, <1>4, <1>5 DEF Lawful, InBlock, AsyncIInv, AsyncTypeOK
<1> QED
  BY <1>3, <1>6, TaskStep

\* it ends its block,
LEMMA EndBlockStep ==
  ASSUME AsyncIInv, NEW t \in Tasks, EndBlock(t)
  PROVE  AsyncIInv'
<1>1. /\ LoopRuns /\ pc[t] = "ready" /\ ~holds[t]
      /\ Goto(t, "commit", calls, FALSE) /\ ended' = [ended EXCEPT ![t] = TRUE]
      /\ UNCHANGED <<executorVars, answer, holds, failing, excused>>
  BY DEF EndBlock
<1>2. Kept(t, calls) /\ answer[t] = "none"
  BY <1>1, KeptCalls DEF AsyncIInv, Calls, Answers
<1>3. PICK op \in Places : /\ op = (IF "commit" \in Calls /\ closed THEN "done" ELSE "commit")
                           /\ Moved(t, op, FALSE)
  BY <1>1, <1>2, GotoMoves DEF Places, Calls, executorVars
<1>4. t = Owner => ~closed
  BY <1>1, OwnerUnclosed
<1>5. (closed => closed') /\ (op = "done" => closed)
  BY <1>3 DEF Moved
<1>6. Lawful(t, op, FALSE)
  BY <1>1, <1>2, <1>3, <1>4, <1>5 DEF Lawful, InBlock, AsyncIInv, AsyncTypeOK
<1> QED
  BY <1>3, <1>6, TaskStep

\* it raises in it,
LEMMA RaiseStep ==
  ASSUME AsyncIInv, NEW t \in Tasks, RaiseInBlock(t)
  PROVE  AsyncIInv'
<1>1. /\ LoopRuns /\ pc[t] = "ready"
      /\ Goto(t, Unwind(t, holds[t]), calls, TRUE)
      /\ failing' = [failing EXCEPT ![t] = TRUE]
      /\ UNCHANGED <<executorVars, answer, holds, ended, excused>>
  BY DEF RaiseInBlock
<1>2. Kept(t, calls) /\ answer[t] = "none"
  BY <1>1, KeptCalls DEF AsyncIInv, Calls, Answers
<1>3. PICK next \in {"leave", "abort"} :
        /\ next = Unwind(t, holds[t]) /\ next = IF holds[t] THEN "leave" ELSE "abort"
  BY DEF Unwind
<1>4. PICK op \in Places : /\ op = (IF next \in Calls /\ closed THEN "done" ELSE next)
                           /\ Moved(t, op, TRUE)
  <2>1. Goto(t, next, calls, TRUE) /\ running' = running /\ next \in Places
    BY <1>1, <1>3 DEF executorVars, Places, Calls
  <2> QED
    BY <1>2, <2>1, GotoMoves
<1>5. t = Owner => ~closed
  BY <1>1, OwnerUnclosed
<1>6. (closed => closed') /\ (op = "done" => closed)
  BY <1>3, <1>4 DEF Moved
<1>7. Lawful(t, op, TRUE)
  BY <1>1, <1>2, <1>3, <1>4, <1>5, <1>6 DEF Lawful, InBlock, AsyncIInv, AsyncTypeOK
<1> QED
  BY <1>4, <1>7, TaskStep

\* the worker begins a call,
LEMMA StartCallStep ==
  ASSUME AsyncIInv, StartCall
  PROVE  AsyncIInv'
<1>1. /\ running' = TRUE /\ calls # <<>> /\ ~running
      /\ UNCHANGED <<closed, calls, loggedIn, writers, exported, durable, pc, answer,
                     failing, holds, ended, excused>>
  BY DEF StartCall
<1>2. Shape(calls)' /\ AsyncTypeOK'
  BY <1>1 DEF AsyncIInv, Shape, AsyncTypeOK
<1>3. /\ Answers' /\ OwnerOnly' /\ CommitsEnded' /\ ChangesEnd' /\ HandlesEnd'
      /\ LoginEnds'
  BY <1>1 DEF AsyncIInv, Answers, OwnerOnly, CommitsEnded, ChangesEnd, HandlesEnd, LoginEnds,
              Waiting
<1> QED
  BY <1>2, <1>3 DEF AsyncIInv

\* the worker is shut down,
LEMMA ShutdownStep ==
  ASSUME AsyncIInv, NEW t \in Tasks, Shutdown(t)
  PROVE  AsyncIInv'
<1>1. /\ pc[t] = "closing" /\ calls = <<>> /\ pc' = [pc EXCEPT ![t] = "done"]
      /\ UNCHANGED <<closed, calls, running, loggedIn, writers, exported, durable, answer,
                     failing, holds, ended, excused>>
  BY DEF Shutdown, executorVars
<1>2. t = Owner /\ pc'[t] = "done" /\ \A u \in Tasks : u # t => pc'[u] = pc[u]
  BY <1>1 DEF AsyncIInv, OwnerOnly, AsyncTypeOK
<1>3. ToSet(calls) = {}
  BY <1>1, QueueEmpty
<1>4. answer[t] = "none"
  BY <1>1 DEF AsyncIInv, Answers, AsyncTypeOK, Calls
<1>5. AsyncTypeOK' /\ Shape(calls)'
  BY <1>1 DEF AsyncIInv, AsyncTypeOK, Shape, Places
<1>6. Answers' /\ OwnerOnly' /\ CommitsEnded'
  BY <1>1, <1>2, <1>3, <1>4 DEF AsyncIInv, Answers, OwnerOnly, CommitsEnded, AsyncTypeOK
<1>7. ChangesEnd'
  BY <1>1, <1>2 DEF AsyncIInv, ChangesEnd, Waiting
<1>8. HandlesEnd'
  BY <1>1, <1>2, <1>3 DEF AsyncIInv, HandlesEnd, Waiting, AsyncTypeOK
<1>9. LoginEnds'
  BY <1>1, <1>2, <1>3 DEF AsyncIInv, LoginEnds, Waiting
<1> QED
  BY <1>5, <1>6, <1>7, <1>8, <1>9 DEF AsyncIInv

\* the worker ends a call.
LEMMA EndCallStep ==
  ASSUME AsyncIInv, EndCall
  PROVE  AsyncIInv'
<1> USE DEF AsyncIInv
<1>1. PICK c \in CallRecords :
        /\ c = Head(calls) /\ c \in ToSet(calls) /\ c.task \in Tasks /\ c.op \in Calls
        /\ c.raised \in BOOLEAN
        /\ running /\ ToSet(calls) = ToSet(calls') \cup {c}
  <2>1. running /\ calls' = Tail(calls)
    BY DEF EndCall
  <2>2. calls \in Seq(CallRecords) /\ calls # <<>>
    BY <2>1 DEF Shape
  <2>3. Head(calls) \in CallRecords /\ ToSet(calls) = ToSet(Tail(calls)) \cup {Head(calls)}
    BY <2>2, QueueTail
  <2>4. PICK c \in CallRecords : c = Head(calls)
    BY <2>3
  <2> QED
    BY <2>1, <2>3, <2>4 DEF CallRecords
<1>2. PICK ok \in BOOLEAN :
        /\ MayAnswer(c, ok)
        /\ c.op = "exit" => ExitSession(c, ok)
        /\ c.op # "exit" /\ ok => Done(c)
        /\ c.op # "exit" /\ ~ok => Refused(c)
        /\ answer' = IF Heard(c)
                     THEN [answer EXCEPT ![c.task] = IF ok THEN "ok" ELSE "error"]
                     ELSE answer
        /\ ~running' /\ running' \in BOOLEAN
        /\ UNCHANGED <<policy, closed, pc, failing, holds, ended>>
  BY <1>1, Zenon DEF EndCall, Heard
<1>3. /\ Shape(calls)'
      /\ \A d \in ToSet(calls') : /\ d \in ToSet(calls) /\ Heard(d) /\ d.task \in Tasks
                                  /\ pc[d.task] = d.op
                                  /\ Heard(c) => d.task # c.task
  <2>1. PICK n \in Nat : n = Len(calls) /\ DOMAIN calls = 1..n
    BY DEF Shape
  <2>2. /\ calls' \in Seq(CallRecords) /\ Len(calls') = n - 1 /\ DOMAIN calls' = 1..(n - 1)
        /\ \A i \in 1..(n - 1) : calls'[i] = calls[i + 1]
        /\ c = calls[1] /\ 1 \in 1..n
    <3>1. calls \in Seq(CallRecords) /\ calls # <<>> /\ calls' = Tail(calls)
      BY <1>1 DEF Shape, EndCall
    <3>2. /\ Head(calls) = calls[1] /\ Tail(calls) \in Seq(CallRecords) /\ Len(calls) >= 1
          /\ Len(Tail(calls)) = Len(calls) - 1
          /\ \A i \in 1..(Len(calls) - 1) : Tail(calls)[i] = calls[i + 1]
      BY <3>1, QueueTail
    <3>3. PICK r \in Seq(CallRecords) :
            /\ r = Tail(calls) /\ Len(r) = n - 1
            /\ \A i \in 1..(n - 1) : r[i] = calls[i + 1]
      BY <2>1, <3>2
    <3> QED
      BY <1>1, <2>1, <3>1, <3>2, <3>3
  <2>3. \A i \in 1..(n - 1) : Heard(calls'[i]) /\ (Heard(c) => calls'[i].task # c.task)
    <3>1. TAKE i \in 1..(n - 1)
    <3>2. i + 1 \in 1..n /\ i + 1 # 1 /\ calls'[i] = calls[i + 1]
      BY <2>2
    <3>3. Heard(calls[i + 1])
      BY <2>1, <3>2 DEF Shape
    <3>4. Heard(calls[1]) => calls[i + 1].task # calls[1].task
      BY <2>1, <2>2, <3>2, <3>3 DEF Shape
    <3> QED
      BY <2>2, <3>2, <3>3, <3>4
  <2>4. \A i, j \in 1..(n - 1) :
          Heard(calls'[i]) /\ Heard(calls'[j]) /\ calls'[i].task = calls'[j].task => i = j
    <3>1. TAKE i, j \in 1..(n - 1)
    <3>2. HAVE Heard(calls'[i]) /\ Heard(calls'[j]) /\ calls'[i].task = calls'[j].task
    <3>3. /\ i + 1 \in 1..n /\ calls'[i] = calls[i + 1]
          /\ j + 1 \in 1..n /\ calls'[j] = calls[j + 1]
      BY <2>2
    <3>4. i + 1 = j + 1
      BY <2>1, <3>2, <3>3 DEF Shape
    <3> QED
      BY <3>4
  <2>5. Shape(calls)'
    BY <1>2, <2>2, <2>3, <2>4 DEF Shape
  <2>6. ASSUME NEW d \in ToSet(calls')
        PROVE  /\ d \in ToSet(calls) /\ Heard(d) /\ d \in CallRecords
               /\ Heard(c) => d.task # c.task
    <3>1. PICK i \in 1..Len(calls') : d = calls'[i]
      BY <2>2, InQueue
    <3> QED
      BY <1>1, <2>2, <2>3, <3>1
  <2> QED
    BY <2>5, <2>6 DEF Answers, CallRecords
<1>4. \A u \in Tasks, o \in Calls : /\ Waiting(u, o)' => Waiting(u, o)
                                    /\ Waiting(u, o) /\ o # c.op => Waiting(u, o)'
                                    /\ Waiting(u, o) /\ u # c.task => Waiting(u, o)'
  BY <1>1 DEF Waiting
<1>5. \A u \in Tasks : answer'[u] = IF Heard(c) /\ u = c.task
                                    THEN IF ok THEN "ok" ELSE "error" ELSE answer[u]
  BY <1>1, <1>2 DEF AsyncTypeOK
<1>6. Heard(c) => pc[c.task] = c.op /\ answer[c.task] = "none"
  BY <1>1 DEF Answers
<1>7. AsyncTypeOK'
  <2>1. answer' \in [Tasks -> {"none", "ok", "error"}]
    BY <1>1, <1>2 DEF AsyncTypeOK
  <2>2. /\ loggedIn' \in BOOLEAN /\ writers' \subseteq Tasks /\ exported' \subseteq Tasks
        /\ durable' \subseteq Tasks
    BY <1>1, <1>2 DEF AsyncTypeOK, ExitSession, Done, Refused, Saved
  <2>3. calls' \in Seq(CallRecords)
    BY <1>3 DEF Shape
  <2> QED
    BY <1>2, <2>1, <2>2, <2>3 DEF AsyncTypeOK
<1>8. Answers'
  BY <1>1, <1>2, <1>3, <1>5, <1>6 DEF Answers
<1>9. OwnerOnly'
  BY <1>2, <1>3 DEF OwnerOnly
<1>10. excused \subseteq excused'
  BY <1>2 DEF ExitSession, Done, Refused, Saved
<1>11. CommitsEnded'
  <2>1. \/ durable' = durable
        \/ /\ durable' = durable \cup writers /\ ended[c.task]
           /\ excused' = excused \cup Excuse("carried", writers \ {c.task})
    BY <1>1, <1>2 DEF ExitSession, Done, Refused, Saved, CommitsEnded
  <2>2. \A u \in durable' : ended[u] \/ <<"carried", u>> \in excused'
    <3>1. \A u \in writers \ {c.task} :
            <<"carried", u>> \in Excuse("carried", writers \ {c.task})
      BY DEF Excuse
    <3> QED
      BY <1>10, <2>1, <3>1 DEF CommitsEnded
  <2> QED
    BY <1>2, <1>3, <2>2 DEF CommitsEnded
<1>12. ChangesEnd'
  <2>1. SUFFICES ASSUME NEW u \in Tasks, u \in writers' \/ Waiting(u, "write")',
                        ~ended[u], <<"abort", u>> \notin excused', ~closed,
                        pc[u] \notin InBlock
                 PROVE  Waiting(u, "abort")'
    BY <1>2, Zenon DEF ChangesEnd, InBlock
  <2>2. ~Waiting(u, "write")'
    BY <1>3, <2>1 DEF Waiting, InBlock
  <2>3. u \in writers \/ Waiting(u, "write")
    BY <1>1, <1>2, <2>1, <2>2 DEF ExitSession, Done, Refused, Saved, Waiting
  <2>4. Waiting(u, "abort")
    BY <1>10, <2>1, <2>3 DEF ChangesEnd, InBlock
  <2>5. ~(c.op = "abort" /\ c.task = u)
    <3>1. ASSUME c.op = "abort", c.task = u
          PROVE  FALSE
      <4>1. CASE ok
        BY <1>2, <2>1, <2>2, <3>1, <4>1 DEF Done
      <4>2. CASE ~ok
        <5>1. Excuse("abort", {c.task}) \subseteq excused'
          BY <1>2, <3>1, <4>2 DEF Refused
        <5> QED
          BY <2>1, <3>1, <5>1 DEF Excuse
      <4> QED
        BY <4>1, <4>2
    <3> QED
      BY <3>1
  <2> QED
    BY <1>4, <2>4, <2>5 DEF Calls
<1>13. HandlesEnd'
  <2>1. SUFFICES ASSUME NEW u \in exported', <<"handle", u>> \notin excused', ~closed,
                        ~(holds[u] /\ pc[u] \in {"ready", "write"}),
                        ~(pc[u] = "enter" /\ answer'[u] = "ok")
                 PROVE  Waiting(u, "leave")'
    BY <1>2, <1>3, Zenon DEF HandlesEnd
  <2>2. u \in Tasks
    BY <1>7 DEF AsyncTypeOK
  <2>3. ~(c.op = "enter" /\ ok /\ u = c.task)
    BY <1>1, <1>5, <1>6, <1>10, <2>1, <2>2 DEF HandlesEnd
  <2>4. u \in exported
    BY <1>1, <1>2, <2>1, <2>3 DEF ExitSession, Done, Refused
  <2>5. Waiting(u, "leave")
    <3>1. ~(pc[u] = "enter" /\ answer[u] = "ok")
      BY <1>5, <1>6, <2>1, <2>2
    <3> QED
      BY <1>10, <2>1, <2>4, <3>1 DEF HandlesEnd
  <2>6. ~(c.op = "leave" /\ c.task = u)
    <3>1. ASSUME c.op = "leave", c.task = u
          PROVE  FALSE
      <4>1. CASE ok
        BY <1>2, <2>1, <3>1, <4>1 DEF Done
      <4>2. CASE ~ok
        <5>1. Excuse("handle", {c.task}) \subseteq excused'
          BY <1>2, <3>1, <4>2 DEF Refused
        <5> QED
          BY <2>1, <3>1, <5>1 DEF Excuse
      <4> QED
        BY <4>1, <4>2
    <3> QED
      BY <3>1
  <2> QED
    BY <1>4, <2>2, <2>5, <2>6 DEF Calls
<1>14. LoginEnds'
  <2>1. Owner \in Tasks
    BY DEF Tasks
  <2>2. SUFFICES ASSUME loggedIn', <<"login", Owner>> \notin excused',
                        ~(pc[Owner] = "login" /\ answer'[Owner] = "ok"),
                        pc[Owner] \notin {"ready", "enter", "write", "leave", "commit",
                                          "abort"}
                 PROVE  Waiting(Owner, "exit")'
    BY <1>2, <1>3, Zenon DEF LoginEnds
  <2>3. c.op # "exit"
    BY <1>2, <2>2 DEF ExitSession
  <2>4. ~(c.op = "login" /\ ok)
    BY <1>1, <1>5, <1>6, <1>10, <2>1, <2>2 DEF LoginEnds, OwnerOnly
  <2>5. loggedIn
    BY <1>2, <2>2, <2>3, <2>4 DEF MayAnswer, Refused
  <2>6. ~(pc[Owner] = "login" /\ answer[Owner] = "ok")
    BY <1>5, <1>6, <2>1, <2>2
  <2>7. Waiting(Owner, "exit")
    BY <1>10, <2>2, <2>5, <2>6 DEF LoginEnds
  <2> QED
    BY <1>4, <2>1, <2>3, <2>7 DEF Calls
<1> QED
  BY <1>3, <1>7, <1>8, <1>9, <1>11, <1>12, <1>13, <1>14

-----------------------------------------------------------------------------
(* The theorems.                                                           *)

\* The invariant holds at first,
LEMMA InitInv == AsyncInit => AsyncIInv
<1> SUFFICES ASSUME AsyncInit
             PROVE  AsyncIInv
  OBVIOUS
<1>1. ToSet(calls) = {}
  BY QueueEmpty DEF AsyncInit
<1>2. AsyncTypeOK
  <2>1. /\ failing \in [Tasks -> BOOLEAN] /\ holds \in [Tasks -> BOOLEAN]
        /\ ended \in [Tasks -> BOOLEAN]
    BY Zenon DEF AsyncInit
  <2>2. /\ closed \in BOOLEAN /\ running \in BOOLEAN /\ loggedIn \in BOOLEAN
        /\ writers \subseteq Tasks /\ exported \subseteq Tasks /\ durable \subseteq Tasks
    BY Zenon DEF AsyncInit
  <2>3. calls \in Seq(CallRecords)
    BY DEF AsyncInit
  <2>4. pc \in [Tasks -> Places] /\ answer \in [Tasks -> {"none", "ok", "error"}]
    BY DEF AsyncInit, Places
  <2> QED
    BY <2>1, <2>2, <2>3, <2>4 DEF AsyncTypeOK
<1>3. Shape(calls)
  BY DEF AsyncInit, Shape
<1>4. Answers /\ OwnerOnly /\ CommitsEnded
  BY <1>1 DEF AsyncInit, Answers, OwnerOnly, CommitsEnded
<1>5. ChangesEnd /\ HandlesEnd /\ LoginEnds
  BY <1>1 DEF AsyncInit, ChangesEnd, HandlesEnd, LoginEnds, Waiting
<1> QED
  BY <1>2, <1>3, <1>4, <1>5 DEF AsyncIInv

\* and every step keeps it.
LEMMA StepInv == AsyncIInv /\ [AsyncNext]_asyncVars => AsyncIInv'
<1> SUFFICES ASSUME AsyncIInv, [AsyncNext]_asyncVars
             PROVE  AsyncIInv'
  OBVIOUS
<1>1. CASE StartCall
  BY <1>1, StartCallStep
<1>2. CASE EndCall
  BY <1>2, EndCallStep
<1>3. CASE Open
  BY <1>3, OpenStep
<1>4. ASSUME NEW t \in Tasks, Resume(t)
      PROVE  AsyncIInv'
  BY <1>4, ResumeStep
<1>5. ASSUME NEW t \in Tasks, Cancel(t)
      PROVE  AsyncIInv'
  BY <1>5, CancelStep
<1>6. ASSUME NEW t \in Tasks, Join(t)
      PROVE  AsyncIInv'
  BY <1>6, JoinStep
<1>7. ASSUME NEW t \in Tasks, EndBlock(t)
      PROVE  AsyncIInv'
  BY <1>7, EndBlockStep
<1>8. ASSUME NEW t \in Tasks, RaiseInBlock(t)
      PROVE  AsyncIInv'
  BY <1>8, RaiseStep
<1>9. ASSUME NEW t \in Tasks, Shutdown(t)
      PROVE  AsyncIInv'
  BY <1>9, ShutdownStep
<1>10. ASSUME NEW t \in Tasks, NEW op \in {"enter", "write", "leave"}, Call(t, op)
       PROVE  AsyncIInv'
  BY <1>10, CallStep
<1>11. CASE UNCHANGED asyncVars
  BY <1>11 DEF asyncVars, AsyncIInv, AsyncTypeOK, Shape, Answers, OwnerOnly, CommitsEnded,
               ChangesEnd, HandlesEnd, LoginEnds, Waiting
<1> QED
  BY <1>1, <1>2, <1>3, <1>4, <1>5, <1>6, <1>7, <1>8, <1>9, <1>10, <1>11 DEF AsyncNext

\* The inductive invariant holds for any set of tasks and however often each
\* is cancelled (aio/__init__.py, AsyncSession.run_sync and its callers).
THEOREM AsyncInvariance == AsyncSpec => []AsyncIInv
<1>1. AsyncInit => AsyncIInv
  BY InitInv
<1>2. AsyncIInv /\ [AsyncNext]_asyncVars => AsyncIInv'
  BY StepInv
<1> QED
  BY <1>1, <1>2, PTL DEF AsyncSpec

\* What is wanted follows from it.
LEMMA BlocksAreApart == AsyncIInv => BlocksStayApart
<1> SUFFICES ASSUME AsyncIInv
             PROVE  BlocksStayApart
  OBVIOUS
<1>1. calls \in Seq(CallRecords)
  BY DEF AsyncIInv, Shape
<1>2. ASSUME NEW t \in Tasks, Over(t)
      PROVE  /\ t \in writers => ended[t] \/ <<"abort", t>> \in excused \/ closed
             /\ t \in exported => <<"handle", t>> \in excused \/ closed
  <2>1. pc[t] = "done"
    BY <1>2 DEF Over
  <2>2. \A c \in ToSet(calls) : c.task # t
    <3>1. \A i \in 1..Len(calls) : calls[i].task # t
      BY <1>1, <1>2 DEF Over
    <3> QED
      BY <1>1, <3>1, InQueue
  <2>3. \A o : ~Waiting(t, o)
    BY <2>2 DEF Waiting
  <2> QED
    BY <2>1, <2>3 DEF AsyncIInv, ChangesEnd, HandlesEnd
<1>3. ASSUME pc[Owner] = "done", calls = <<>>
      PROVE  ~loggedIn \/ <<"login", Owner>> \in excused
  <2>1. ToSet(calls) = {}
    BY <1>3, QueueEmpty
  <2> QED
    BY <1>3, <2>1 DEF AsyncIInv, LoginEnds, Waiting
<1>4. \A t \in durable : ended[t] \/ <<"carried", t>> \in excused
  BY DEF AsyncIInv, CommitsEnded
<1> QED
  BY <1>2, <1>3, <1>4 DEF BlocksStayApart

\* However the tasks of a session interleave and are cancelled, a block that
\* raised is never committed except by another task's commit, and nothing of
\* a task that is done, nor the login, is left over except after the call that
\* was to clear it was itself cancelled or refused (AsyncSession.__aexit__,
\* AsyncTransaction.__aexit__, AsyncOopHandle.__aexit__).
THEOREM BlocksApartTheorem == AsyncSpec => []BlocksStayApart
BY AsyncInvariance, BlocksAreApart, PTL

-----------------------------------------------------------------------------
(* Computations: words.                                                    *)

\* What division gives.
LEMMA DivMod ==
  ASSUME NEW n \in Int, NEW s \in Nat \ {0}
  PROVE  /\ n \div s \in Int /\ n % s \in Int
         /\ n = s * (n \div s) + (n % s)
         /\ 0 <= n % s /\ n % s < s
OBVIOUS

\* A multiple of something is at least as much.
LEMMA Product ==
  ASSUME NEW s \in Nat \ {0}, NEW a \in Int, a >= 1
  PROVE  s * a >= s
<1>1. s * (a - 1) >= 0
  OBVIOUS
<1>2. QED BY <1>1

\* The quotient and the rest are the only ones.
LEMMA ModIs ==
  ASSUME NEW n \in Int, NEW s \in Nat \ {0}, NEW q \in Int, NEW r \in Int,
         n = s * q + r, 0 <= r, r < s
  PROVE  n % s = r /\ n \div s = q
<1> DEFINE d == n \div s
           m == n % s
<1>1. d \in Int /\ m \in Int /\ n = s * d + m /\ 0 <= m /\ m < s
  BY DivMod
<1> HIDE DEF d, m
<1>2. s * (q - d) = m - r /\ s * (d - q) = r - m
  BY <1>1
<1>3. ~ (q - d >= 1)
  BY <1>1, <1>2, Product
<1>4. ~ (d - q >= 1)
  BY <1>1, <1>2, Product
<1>5. q = d
  BY <1>1, <1>3, <1>4
<1>6. QED BY <1>1, <1>5 DEF d, m

Part == Size \div 1024

\* The bounds of Values are multiples of one number.
LEMMA Parts ==
  /\ Part \in Nat \ {0} /\ Size = 1024 * Part
  /\ Size \div 2 = 512 * Part /\ Size \div 16 = 64 * Part /\ Size \div 256 = 4 * Part
<1>1. Size \in Nat /\ Size >= 1024 /\ Size % 1024 = 0
  BY SizeAssumption
<1>2. Part \in Nat \ {0} /\ Size = 1024 * Part
  BY <1>1 DEF Part
<1>3. QED BY <1>1, <1>2

\* i as a word without its tag
Payload(i) == i % (128 * Part)

\* Only as many bits of an integer as are left beside the tag are in its word.
LEMMA TaggedWord ==
  ASSUME NEW i \in Int
  PROVE  /\ SmallInt(i) = <<"word", 8 * Payload(i) + 2>>
         /\ Payload(i) \in 0..(128 * Part - 1)
<1> DEFINE s == 128 * Part
           q == i \div s
           z == i % s
<1>1. Part \in Nat \ {0} /\ Size = 8 * s /\ s \in Nat \ {0}
  BY Parts
<1> HIDE DEF s
<1>2. q \in Int /\ z \in Int /\ i = s * q + z /\ 0 <= z /\ z < s
  BY <1>1, DivMod
<1> HIDE DEF q, z
<1>3. 8 * i + 2 = Size * q + (8 * z + 2)
  BY <1>1, <1>2
<1>4. (8 * i + 2) % Size = 8 * z + 2
  <2>1. 8 * i + 2 \in Int /\ Size \in Nat \ {0} /\ 8 * z + 2 \in Int /\ 0 <= 8 * z + 2 /\ 8 * z + 2 < Size
    BY <1>1, <1>2
  <2>2. QED BY <1>2, <1>3, <2>1, ModIs
<1>5. QED BY <1>1, <1>2, <1>4 DEF SmallInt, Word, Payload, s, z

\* The payload of what fits.
LEMMA PayloadOfFitting ==
  ASSUME NEW i \in Int
  PROVE  /\ i \in 0..(64 * Part - 1) => Payload(i) = i
         /\ i \in -(64 * Part)..(-1) => Payload(i) = i + 128 * Part
<1>1. Part \in Nat \ {0} /\ 128 * Part \in Nat \ {0}
  BY Parts
<1>2. ASSUME i \in 0..(64 * Part - 1) PROVE Payload(i) = i
  <2>1. i = (128 * Part) * 0 + i /\ 0 <= i /\ i < 128 * Part
    BY <1>1, <1>2
  <2>2. QED BY <1>1, <2>1, ModIs DEF Payload
<1>3. ASSUME i \in -(64 * Part)..(-1) PROVE Payload(i) = i + 128 * Part
  <2>1. i = (128 * Part) * (-1) + (i + 128 * Part) /\ 0 <= i + 128 * Part /\ i + 128 * Part < 128 * Part
    BY <1>1, <1>3
  <2>2. i + 128 * Part \in Int /\ -1 \in Int
    BY <1>1
  <2>3. QED BY <1>1, <2>1, <2>2, ModIs DEF Payload
<1>4. QED BY <1>2, <1>3

\* The word as a number gives those bits back, with their sign.
LEMMA UntaggedWord ==
  ASSUME NEW i \in Int
  PROVE  IntOf(SmallInt(i)) = IF Payload(i) < 64 * Part THEN Payload(i) ELSE Payload(i) - 128 * Part
<1> DEFINE z == Payload(i)
<1>1. Part \in Nat \ {0} /\ Size = 1024 * Part /\ Size \div 2 = 512 * Part
  BY Parts
<1>2. SmallInt(i)[2] = 8 * z + 2 /\ z \in Int
  BY <1>1, TaggedWord
<1> HIDE DEF z
<1>3. CASE z < 64 * Part
  <2>1. Signed(8 * z + 2) = 8 * z + 2
    BY <1>1, <1>2, <1>3 DEF Signed
  <2>2. (8 * z + 2) \div 8 = z
    BY <1>2
  <2>3. QED BY <1>2, <1>3, <2>1, <2>2 DEF IntOf, z
<1>4. CASE ~ (z < 64 * Part)
  <2>1. Signed(8 * z + 2) = 8 * (z - 128 * Part) + 2
    BY <1>1, <1>2, <1>4 DEF Signed
  <2>2. (8 * (z - 128 * Part) + 2) \div 8 = z - 128 * Part
    BY <1>1, <1>2
  <2>3. QED BY <1>2, <1>4, <2>1, <2>2 DEF IntOf, z
<1>5. QED BY <1>3, <1>4

Special == {Nil, True, False, Illegal}

\* Words and what they are.
LEMMA SpecialWords ==
  Nil = <<"word", 20>> /\ True = <<"word", 268>> /\ False = <<"word", 12>> /\ Illegal = <<"word", 1>>
<1>1. Part \in Nat \ {0} /\ Size = 1024 * Part
  BY Parts
<1>2. ASSUME NEW n \in 0..1023 PROVE n % Size = n
  <2>1. n = Size * 0 + n /\ 0 <= n /\ n < Size /\ Size \in Nat \ {0}
    BY <1>1
  <2>2. QED BY <2>1, ModIs
<1>3. QED BY <1>2 DEF Nil, True, False, Illegal, Word

\* No integer has the word of a character or of a special object.
LEMMA TaggedIsSmallInt ==
  ASSUME NEW i \in Int
  PROVE  /\ IsSmallInt(SmallInt(i)) /\ ~IsChar(SmallInt(i)) /\ SmallInt(i) \notin Special
         /\ IsWord(SmallInt(i))
<1> DEFINE z == Payload(i)
<1>1. SmallInt(i) = <<"word", 8 * z + 2>> /\ z \in Int
  BY TaggedWord, Parts
<1> HIDE DEF z
<1>2. (8 * z + 2) % 8 = 2 /\ (8 * z + 2) % 256 # 28 /\ 8 * z + 2 \notin {20, 268, 12, 1}
  BY <1>1
<1>3. QED BY <1>1, <1>2, SpecialWords DEF IsSmallInt, IsChar, IsWord, Special

\* What fits comes back, and nothing else does.
LEMMA FittingWord ==
  ASSUME NEW i \in Int
  PROVE  (IntOf(SmallInt(i)) = i) = Fits(i)
<1> DEFINE z == Payload(i)
           k == Part
<1>1. k \in Nat \ {0} /\ Size \div 16 = 64 * k
  BY Parts
<1>2. z \in 0..(128 * k - 1)
  BY TaggedWord
<1>3. IntOf(SmallInt(i)) = IF z < 64 * k THEN z ELSE z - 128 * k
  BY UntaggedWord
<1>4. Fits(i) <=> i \in -(64 * k)..(64 * k - 1)
  BY <1>1 DEF Fits
<1>5. i \in 0..(64 * k - 1) => z = i
  BY PayloadOfFitting
<1>6. i \in -(64 * k)..(-1) => z = i + 128 * k
  BY PayloadOfFitting
<1> HIDE DEF z, k
<1>7. ASSUME IntOf(SmallInt(i)) = i PROVE Fits(i)
  BY <1>1, <1>2, <1>3, <1>4, <1>7
<1>8. ASSUME Fits(i) PROVE IntOf(SmallInt(i)) = i
  BY <1>1, <1>3, <1>4, <1>5, <1>6, <1>8
<1>9. Fits(i) \in BOOLEAN
  BY DEF Fits
<1>10. QED BY <1>7, <1>8, <1>9

\* Rust makes the word that Python makes, or refuses the integer.
LEMMA NativeWord ==
  ASSUME NEW i \in Int
  PROVE  /\ NativeSmallInt(i) \in {SmallInt(i), Raises}
         /\ Fits(i) => NativeSmallInt(i) = SmallInt(i)
<1>1. Part \in Nat \ {0} /\ Size = 1024 * Part /\ Size \div 2 = 512 * Part /\ Size \div 16 = 64 * Part
  BY Parts
<1>2. ASSUME i \in -(512 * Part)..(512 * Part - 1) PROVE Signed(i % Size) = i
  <2>1. CASE i >= 0
    <3>1. i = Size * 0 + i /\ 0 <= i /\ i < Size /\ Size \in Nat \ {0}
      BY <1>1, <1>2, <2>1
    <3>2. i % Size = i
      BY <3>1, ModIs
    <3>3. QED BY <1>1, <1>2, <2>1, <3>2 DEF Signed
  <2>2. CASE i < 0
    <3>1. /\ i = Size * (-1) + (i + Size) /\ 0 <= i + Size /\ i + Size < Size /\ Size \in Nat \ {0}
          /\ i + Size \in Int /\ -1 \in Int
      BY <1>1, <1>2, <2>2
    <3>2. i % Size = i + Size
      BY <3>1, ModIs
    <3>3. QED BY <1>1, <1>2, <2>2, <3>2 DEF Signed
  <2>3. QED BY <2>1, <2>2
<1>3. i \in -(Size \div 2)..(Size \div 2 - 1) <=> i \in -(512 * Part)..(512 * Part - 1)
  BY <1>1
<1>4. CASE i \in -(512 * Part)..(512 * Part - 1)
  <2>1. NativeSmallInt(i) = SmallInt(i)
    BY <1>2, <1>3, <1>4 DEF NativeSmallInt, SmallInt
  <2>2. QED BY <2>1
<1>5. CASE i \notin -(512 * Part)..(512 * Part - 1)
  <2>1. NativeSmallInt(i) = Raises
    BY <1>3, <1>5 DEF NativeSmallInt
  <2>2. ~Fits(i)
    BY <1>1, <1>5 DEF Fits
  <2>3. QED BY <2>1, <2>2
<1>6. QED BY <1>4, <1>5

\* A character comes back and is no other word.
LEMMA CharWord ==
  ASSUME NEW i \in 0..(Size \div 256 - 1)
  PROVE  /\ IsChar(Char(i)) /\ ~Immediate(Char(i))
         /\ (Marshal(Char(i)) = <<"char", i>>) = (i <= MaxChar)
         /\ Marshal(Char(i)) = IF i % CodePoints <= MaxChar THEN <<"char", i % CodePoints>> ELSE Raises
<1>1. Part \in Nat \ {0} /\ Size = 1024 * Part /\ Size \div 256 = 4 * Part
  BY Parts
<1>2. i \in Int /\ 0 <= i /\ i < 4 * Part
  BY <1>1
<1>3. Char(i) = <<"word", 256 * i + 28>>
  <2>1. /\ 256 * i + 28 = Size * 0 + (256 * i + 28) /\ 0 <= 256 * i + 28 /\ 256 * i + 28 < Size
        /\ 256 * i + 28 \in Int /\ Size \in Nat \ {0}
    BY <1>1, <1>2
  <2>2. QED BY <2>1, ModIs DEF Char, Word
<1>4. /\ (256 * i + 28) % 256 = 28 /\ (256 * i + 28) \div 256 = i /\ (256 * i + 28) % 8 # 2
      /\ 256 * i + 28 \notin {20, 268, 12, 1}
  BY <1>2
<1> DEFINE read == i % CodePoints
<1>5. /\ IsWord(Char(i)) /\ IsChar(Char(i))
      /\ CharOf(Char(i)) = IF read <= MaxChar THEN <<"char", read>> ELSE Raises
  BY <1>3, <1>4 DEF IsWord, IsChar, CharOf
<1>6. ~Immediate(Char(i)) /\ Char(i) # Illegal
  BY <1>3, <1>4, SpecialWords DEF Immediate, IsSmallInt
<1>7. Marshal(Char(i)) = CharOf(Char(i))
  BY <1>5, <1>6 DEF Marshal
<1>8. CodePoints \in Nat \ {0} /\ MaxChar \in Nat /\ MaxChar < CodePoints
  BY CharsAssumption
<1>9. read \in Int /\ 0 <= read /\ read < CodePoints
  BY <1>2, <1>8
<1>10. i < CodePoints => read = i
  BY <1>2, <1>8, ModIs, i = CodePoints * 0 + i
<1> HIDE DEF read
<1>11. (CharOf(Char(i)) = <<"char", i>>) = (i <= MaxChar)
  <2>1. CASE i <= MaxChar
    <3>1. read = i
      BY <1>2, <1>8, <1>10, <2>1
    <3>2. QED BY <1>5, <2>1, <3>1
  <2>2. CASE ~(i <= MaxChar)
    <3>1. ~(read <= MaxChar /\ read = i)
      BY <2>2
    <3>2. Raises # <<"char", i>> /\ (<<"char", read>> = <<"char", i>> => read = i)
      BY DEF Raises
    <3>3. QED BY <1>5, <2>2, <3>1, <3>2
  <2>3. QED BY <2>1, <2>2
<1>12. QED BY <1>5, <1>6, <1>7, <1>11 DEF read

(* Every integer, in words of whatever width: it comes back if it has room *)
(* beside the tag, and no word is of two kinds (_gci_ctypes.py, and the    *)
(* Rust helpers).                                                          *)
THEOREM WordsTheorem == \A i \in Int : WordsAreTrue(i)
BY TaggedIsSmallInt, FittingWord, NativeWord, CharWord DEF WordsAreTrue, Special

\* An object is none of the special words.
LEMMA ObjectIsNone ==
  ASSUME NEW class, NEW x
  PROVE  /\ ~IsWord(Object(class, x)) /\ ~Immediate(Object(class, x)) /\ ~IsChar(Object(class, x))
         /\ Object(class, x) # Illegal /\ Object(class, x) # Raises
         /\ Object(class, x)[2] = class /\ Object(class, x)[3] = x
<1>1. ~IsWord(Object(class, x))
  BY DEF Object, IsWord
<1>2. Object(class, x) \notin {Nil, True, False, Illegal, Raises}
  BY SpecialWords DEF Object, Raises
<1>3. QED BY <1>1, <1>2 DEF Immediate, IsSmallInt, IsChar, Object

\* The words that are values themselves.
LEMMA WordIsImmediate ==
  /\ Immediate(Nil) /\ ImmediateValue(Nil) = <<"none">>
  /\ Immediate(True) /\ ImmediateValue(True) = <<"bool", TRUE>>
  /\ Immediate(False) /\ ImmediateValue(False) = <<"bool", FALSE>>
  /\ \A i \in Int : Immediate(SmallInt(i)) /\ ImmediateValue(SmallInt(i)) = <<"int", IntOf(SmallInt(i))>>
<1>1. Nil # True /\ Nil # False /\ True # False
  BY SpecialWords
<1>2. Immediate(Nil) /\ Immediate(True) /\ Immediate(False)
  BY DEF Immediate
<1>3. ImmediateValue(Nil) = <<"none">>
  BY <1>1 DEF ImmediateValue
<1>4. ImmediateValue(True) = <<"bool", TRUE>>
  BY <1>1 DEF ImmediateValue
<1>5. ImmediateValue(False) = <<"bool", FALSE>>
  <2>1. ImmediateValue(False) = <<"bool", False = True>>
    BY <1>1 DEF ImmediateValue
  <2>2. (False = True) = FALSE
    BY <1>1
  <2>3. QED BY <2>1, <2>2, Zenon
<1>6. ASSUME NEW i \in Int
      PROVE  Immediate(SmallInt(i)) /\ ImmediateValue(SmallInt(i)) = <<"int", IntOf(SmallInt(i))>>
  BY TaggedIsSmallInt DEF Immediate, ImmediateValue, Special
<1>7. QED BY <1>2, <1>3, <1>4, <1>5, <1>6

\* The classes with a proxy of their own.
LEMMA ProxyClasses ==
  DOMAIN ProxyOf = {"StringKeyValueDictionary", "OrderedCollection", "RcCounter",
                    "RcKeyValueDictionary", "RcQueue"}
BY DEF ProxyOf

\* What a scalar becomes.
Back(value, oop) ==
  /\ oop # Raises /\ Marshal(oop) = value /\ ItemFromOop(oop) = value
  /\ ~IsWord(oop) => oop[2] # "Array"

\* No other reading takes the word of a value.
LEMMA ImmediateIsNoOther ==
  ASSUME NEW n \in Int, Immediate(<<"word", n>>)
  PROVE  <<"word", n>> # Illegal /\ ~IsChar(<<"word", n>>)
<1>1. n \in {20, 268, 12} \/ n % 8 = 2
  BY SpecialWords DEF Immediate, IsSmallInt
<1>2. n # 1 /\ n % 256 # 28
  BY <1>1
<1>3. QED BY <1>2, SpecialWords DEF IsChar

\* ... so that all interfaces read it alike.
LEMMA ImmediateBack ==
  ASSUME NEW n \in Int, NEW oop, oop = <<"word", n>>, Immediate(oop)
  PROVE  Back(ImmediateValue(oop), oop)
<1>0. IsWord(oop)
  BY DEF IsWord
<1>1. oop # Raises
  BY DEF IsWord, Raises
<1>2. Marshal(oop) = ImmediateValue(oop)
  BY <1>0, ImmediateIsNoOther DEF Marshal
<1>3. ItemFromOop(oop) = ImmediateValue(oop)
  BY <1>0 DEF ItemFromOop
<1>4. QED BY <1>0, <1>1, <1>2, <1>3 DEF Back

\* A scalar that an interface wrote reads back as the same scalar.
LEMMA ScalarBack ==
  ASSUME NEW value \in AnyScalar, Whole(value)
  PROVE  Back(value, ScalarToOop(value))
<1>0. /\ Nil = <<"word", 20>> /\ True = <<"word", 268>> /\ False = <<"word", 12>>
      /\ 20 \in Int /\ 268 \in Int /\ 12 \in Int
  BY SpecialWords
<1>1. CASE value = <<"none">>
  BY <1>0, <1>1, WordIsImmediate, ImmediateBack DEF ScalarToOop, Kind
<1>2. CASE value = <<"bool", TRUE>>
  <2>1. ScalarToOop(value) = True
    BY <1>2 DEF ScalarToOop, Kind
  <2>2. Immediate(True) /\ ImmediateValue(True) = value
    BY <1>2, WordIsImmediate
  <2>3. QED BY <1>0, <2>1, <2>2, ImmediateBack
<1>3. CASE value = <<"bool", FALSE>>
  <2>1. ScalarToOop(value) = False
    BY <1>3 DEF ScalarToOop, Kind
  <2>2. QED  BY <1>0, <1>3, <2>1, WordIsImmediate, ImmediateBack
<1>4. ASSUME NEW i \in Int, value = <<"int", i>>
      PROVE  Back(value, ScalarToOop(value))
  <2>1. ScalarToOop(value) = SmallInt(i) /\ Fits(i)
    BY <1>4 DEF ScalarToOop, Kind, Whole, Room
  <2>2. IntOf(SmallInt(i)) = i
    BY <2>1, FittingWord
  <2>3. Immediate(SmallInt(i)) /\ ImmediateValue(SmallInt(i)) = value
    BY <1>4, <2>2, WordIsImmediate
  <2>4. PICK n \in Int : SmallInt(i) = <<"word", n>>
    BY TaggedWord, Parts
  <2>5. QED BY <2>1, <2>3, <2>4, ImmediateBack
<1>5. ASSUME NEW x \in Contents, value = <<"float", x>>
      PROVE  Back(value, ScalarToOop(value))
  <2>1. ScalarToOop(value) = Object("Float", x)
    BY <1>5 DEF ScalarToOop, Kind
  <2>2. Marshal(Object("Float", x)) = value
    BY <1>5, ObjectIsNone DEF Marshal, TextClasses
  <2>3. ItemFromOop(Object("Float", x)) = value
    BY <1>5, ObjectIsNone, ProxyClasses DEF ItemFromOop, TextClasses
  <2>4. QED BY <2>1, <2>2, <2>3, ObjectIsNone DEF Back
<1>6. ASSUME NEW x \in Contents, value = <<"str", x>>
      PROVE  Back(value, ScalarToOop(value))
  <2>1. ScalarToOop(value) = Object("String", x)
    BY <1>6 DEF ScalarToOop, Kind
  <2>2. Marshal(Object("String", x)) = value
    BY <1>6, ObjectIsNone DEF Marshal, TextClasses
  <2>3. ItemFromOop(Object("String", x)) = value
    BY <1>6, ObjectIsNone, ProxyClasses DEF ItemFromOop, TextClasses
  <2>4. QED BY <2>1, <2>2, <2>3, ObjectIsNone DEF Back
<1>7. CASE value \in {"float", "str"} \X Contents
  <2>1. PICK x \in Contents : value = <<"float", x>> \/ value = <<"str", x>>
    BY <1>7
  <2>2. QED BY <2>1, <1>5, <1>6
<1>8. CASE value \in {<<"bool", b>> : b \in BOOLEAN}
  BY <1>8, <1>2, <1>3
<1>9. QED BY <1>1, <1>4, <1>7, <1>8 DEF AnyScalar

\* An integer with the tag of a small integer is another OOP than its own.
LEMMA TaggedIsAnother ==
  ASSUME NEW i \in Int, Fits(i)
  PROVE  Word(i) # SmallInt(i)
<1>1. Part \in Nat \ {0} /\ Size = 1024 * Part /\ Size \div 16 = 64 * Part /\ Size \in Nat \ {0}
  BY Parts
<1>2. SUFFICES ASSUME i % Size = (8 * i + 2) % Size PROVE FALSE
  BY DEF Word, SmallInt
<1> DEFINE j == 8 * i + 2
           a == i \div Size
           b == j \div Size
           r == i % Size
<1>3. j \in Int /\ a \in Int /\ b \in Int /\ r \in Int /\ i = Size * a + r /\ j = Size * b + r
  <2>0. Size \in Nat \ {0}
    BY <1>1
  <2>1. j \in Int
    OBVIOUS
  <2>2. /\ i \div Size \in Int /\ i % Size \in Int
        /\ i = Size * (i \div Size) + (i % Size)
    BY <2>0, DivMod, Zenon
  <2> HIDE DEF j
  <2>3. /\ j \div Size \in Int /\ j % Size \in Int
        /\ j = Size * (j \div Size) + (j % Size)
    BY <2>0, <2>1, DivMod, Zenon
  <2>4. j % Size = r
    BY <1>2 DEF j
  <2>5. QED BY <2>1, <2>2, <2>3, <2>4 DEF a, b, r
<1>4. 7 * i + 2 = j - i
  OBVIOUS
<1> HIDE DEF a, b, r, j
<1>5. 7 * i + 2 = Size * (b - a) /\ -(7 * i + 2) = Size * (a - b)
  BY <1>1, <1>3, <1>4
<1>6. 7 * i + 2 < Size /\ -(7 * i + 2) < Size /\ 7 * i + 2 # 0
  BY <1>1 DEF Fits
<1>7. ~ (b - a >= 1)
  BY <1>1, <1>3, <1>5, <1>6, Product
<1>8. ~ (a - b >= 1)
  BY <1>1, <1>3, <1>5, <1>6, Product
<1>9. b - a = 0
  BY <1>3, <1>7, <1>8
<1>10. QED BY <1>1, <1>5, <1>6, <1>9

\* The small integers 0 and 1 are not the booleans.
LEMMA SmallBools == SmallInt(1) # True /\ SmallInt(0) # False /\ 1 % 8 # 2 /\ 0 % 8 # 2
<1>1. Size \in Nat /\ Size >= 1024
  BY SizeAssumption
<1>2. SmallInt(1) = <<"word", 10>> /\ SmallInt(0) = <<"word", 2>>
  BY <1>1 DEF SmallInt, Word
<1>3. QED BY <1>2, SpecialWords

\* All that ValuesComeBack says of a scalar,
LEMMA ScalarsComeBack ==
  ASSUME NEW value \in AnyScalar
  PROVE  ValuesComeBack(value)
<1> SUFFICES ASSUME Whole(value) PROVE ValuesComeBack(value)
  BY DEF ValuesComeBack
<1> DEFINE oop == ScalarToOop(value)
<1>1. Back(value, oop)
  BY ScalarBack
<1>2. Kind(value) \in Scalars /\ Kind(value) \notin {"list", "dict", "proxy"}
  BY DEF AnyScalar, Kind, Scalars
<1>3. PersistentToOop(value) = oop /\ ClientToOop(value) = oop /\ GeneratedArgument(value) = oop
      /\ SharedToOop(value) \in {oop, Raises}
  BY <1>2 DEF PersistentToOop, ClientToOop, SharedToOop, GeneratedArgument
<1>4. ASSUME Kind(value) = "int"
      PROVE  (RefArgument(value) = oop) = (value[2] % 8 # 2) /\ HandleArgument(value) # oop
  <2>0. IsInt(value) /\ Number(value) = value[2]
    BY <1>4 DEF IsInt, Number
  <2>1. PICK i \in Int : value = <<"int", i>>
    BY <1>4 DEF AnyScalar, Kind
  <2>2. oop = SmallInt(i) /\ Fits(i)
    BY <2>1 DEF ScalarToOop, Kind, Whole, Room
  <2>3. ASSUME i % 8 = 2 PROVE (RefArgument(value) = oop) = (value[2] % 8 # 2)
    <3>1. RefArgument(value) = Word(i)
      BY <2>0, <2>1, <2>3 DEF RefArgument, Kind
    <3>2. RefArgument(value) # oop
      BY <2>2, <3>1, TaggedIsAnother
    <3>3. QED BY <2>1, <2>3, <3>2
  <2>4. ASSUME i % 8 # 2 PROVE (RefArgument(value) = oop) = (value[2] % 8 # 2)
    <3>1. RefArgument(value) = SmallInt(i)
      BY <2>0, <2>1, <2>4 DEF RefArgument, Kind
    <3>2. QED BY <2>1, <2>2, <2>4, <3>1
  <2>5. HandleArgument(value) # oop
    <3>1. HandleArgument(value) = Word(i)
      BY <2>0, <2>1 DEF HandleArgument, Kind
    <3>2. QED BY <2>2, <3>1, TaggedIsAnother
  <2>6. QED BY <2>3, <2>4, <2>5
<1>8. ASSUME Kind(value) \in {"none", "str", "float"}
      PROVE  RefArgument(value) = Raises /\ HandleArgument(value) = Raises
  BY <1>8 DEF RefArgument, HandleArgument, IsInt
<1>9. ASSUME Kind(value) = "bool"
      PROVE  /\ RefArgument(value) = SmallInt(Number(value)) /\ RefArgument(value) # oop
             /\ HandleArgument(value) = (IF value[2] THEN Illegal ELSE Word(0))
  <2>1. PICK b \in BOOLEAN : value = <<"bool", b>>
    BY <1>9 DEF AnyScalar, Kind
  <2>2. CASE b = TRUE
    BY <1>9, <2>1, <2>2, SmallBools DEF RefArgument, HandleArgument, IsInt, Number, ScalarToOop, Illegal
  <2>3. CASE b = FALSE
    BY <1>9, <2>1, <2>3, SmallBools DEF RefArgument, HandleArgument, IsInt, Number, ScalarToOop
  <2>4. QED BY <2>1, <2>2, <2>3
<1> HIDE DEF oop
<1>5. PersistentFromOop(oop) = value
  BY <1>1 DEF Back, PersistentFromOop
<1>6. BridgeFromOop(oop) = value
  BY <1>2, <1>5 DEF BridgeFromOop
<1>7. QED BY <1>1, <1>2, <1>3, <1>4, <1>5, <1>6, <1>8, <1>9 DEF ValuesComeBack, Back

\* A scalar is never refused.
LEMMA SomeOop ==
  ASSUME NEW value \in AnyScalar
  PROVE  ScalarToOop(value) # Raises
<1>1. Nil # Raises /\ True # Raises /\ False # Raises
  BY SpecialWords DEF Raises
<1>2. \A i \in Int : SmallInt(i) # Raises
  BY DEF SmallInt, Word, Raises
<1>3. CASE value = <<"none">>
  BY <1>1, <1>3 DEF ScalarToOop, Kind
<1>4. CASE value \in {<<"bool", b>> : b \in BOOLEAN}
  BY <1>1, <1>4 DEF ScalarToOop, Kind
<1>5. CASE value \in {<<"int", i>> : i \in Int}
  BY <1>2, <1>5 DEF ScalarToOop, Kind
<1>6. CASE value \in {"float", "str"} \X Contents
  <2>1. PICK x \in Contents : value = <<"float", x>> \/ value = <<"str", x>>
    BY <1>6
  <2>2. ScalarToOop(value) \in {Object("Float", x), Object("String", x)}
    BY <2>1 DEF ScalarToOop, Kind
  <2>3. QED BY <2>2, ObjectIsNone
<1>7. QED BY <1>3, <1>4, <1>5, <1>6 DEF AnyScalar

\* of a list,
LEMMA ListsComeBack ==
  ASSUME NEW items \in Seq(AnyScalar)
  PROVE  ValuesComeBack(<<"list", items>>)
<1> DEFINE value == <<"list", items>>
           oops == [i \in DOMAIN items |-> ScalarToOop(items[i])]
           oop == Object("Array", oops)
<1> SUFFICES ASSUME Whole(value) PROVE ValuesComeBack(value)
  BY DEF ValuesComeBack
<1>1. \A i \in DOMAIN items : items[i] \in AnyScalar
  OBVIOUS
<1>2. \A i \in DOMAIN items : Whole(items[i])
  <2>1. \A i \in DOMAIN items : Room(items[i])
    BY DEF Whole, Kind
  <2>2. \A x \in AnyScalar : Kind(x) # "list"
    BY DEF AnyScalar, Kind
  <2>3. QED BY <1>1, <2>1, <2>2 DEF Whole
<1>3. \A i \in DOMAIN items : ItemFromOop(oops[i]) = items[i]
  BY <1>1, <1>2, ScalarBack DEF Back
<1>4. Kind(value) = "list" /\ value[2] = items
  BY DEF Kind
<1>5. PersistentToOop(value) = oop
  BY <1>1, <1>4, SomeOop DEF PersistentToOop
<1>6. ClientToOop(value) = Raises /\ GeneratedArgument(value) = Raises
  BY <1>4 DEF ClientToOop, GeneratedArgument, ScalarToOop
<1>7. SharedToOop(value) = Raises
  BY <1>4 DEF SharedToOop
<1>8. /\ oop # Raises /\ ~IsWord(oop) /\ oop[2] = "Array" /\ oop[3] = oops
  BY ObjectIsNone
<1>9. PersistentFromOop(oop) = value
  <2>1. PersistentFromOop(oop) = <<"list", [i \in DOMAIN oops |-> ItemFromOop(oops[i])]>>
    BY <1>8 DEF PersistentFromOop
  <2>2. [i \in DOMAIN oops |-> ItemFromOop(oops[i])] = items
    BY <1>3
  <2>3. QED BY <2>1, <2>2
<1> HIDE DEF oop, value
<1>10. QED BY <1>4, <1>5, <1>6, <1>7, <1>8, <1>9 DEF ValuesComeBack, Scalars

\* of a dictionary
LEMMA DictsComeBack ==
  ASSUME NEW pairs \in Seq(Contents \X AnyScalar)
  PROVE  ValuesComeBack(<<"dict", pairs>>)
<1> DEFINE value == <<"dict", pairs>>
           oops == [i \in DOMAIN pairs |-> <<pairs[i][1], ScalarToOop(pairs[i][2])>>]
           oop == Object("StringKeyValueDictionary", oops)
<1>1. \A i \in DOMAIN pairs : pairs[i][2] \in AnyScalar
  OBVIOUS
<1>2. Kind(value) = "dict" /\ value[2] = pairs
  BY DEF Kind
<1>3. ClientToOop(value) = oop
  BY <1>1, <1>2, SomeOop DEF ClientToOop
<1>4. PersistentToOop(value) = oop
  BY <1>2, <1>3 DEF PersistentToOop
<1>5. GeneratedArgument(value) = Raises /\ SharedToOop(value) = Raises
  BY <1>2 DEF GeneratedArgument, ScalarToOop, SharedToOop
<1>6. /\ oop # Raises /\ ~IsWord(oop) /\ ~Immediate(oop)
      /\ oop[2] = "StringKeyValueDictionary"
  BY ObjectIsNone
<1>7. ProxyOf["StringKeyValueDictionary"] = "GsDict"
  BY DEF ProxyOf
<1> HIDE DEF oop, value
<1>8. ItemFromOop(oop) = <<"proxy", "GsDict", oop>>
  BY <1>6, <1>7, ProxyClasses DEF ItemFromOop, TextClasses
<1>9. PersistentFromOop(oop) = <<"proxy", "GsDict", oop>>
  BY <1>6, <1>8 DEF PersistentFromOop
<1>10. ValuesComeBack(value)
  BY <1>2, <1>3, <1>4, <1>5, <1>6, <1>9 DEF ValuesComeBack, Scalars
<1>11. QED BY <1>10 DEF value

\* What is passed as the object it stands for.
LEMMA PassedBack ==
  ASSUME NEW class \in Referred, NEW x, NEW value,
         value \in {<<"str", x>>, <<"float", x>>, <<"proxy", value[2], Object(class, x)>>},
         Kind(value) = "str" => class = "String",
         Kind(value) = "float" => class = "Float"
  PROVE  PersistentToOop(value) = Object(class, x)
<1>1. CASE value = <<"str", x>>
  BY <1>1 DEF PersistentToOop, ClientToOop, ScalarToOop, Kind
<1>2. CASE value = <<"float", x>>
  BY <1>2 DEF PersistentToOop, ClientToOop, ScalarToOop, Kind
<1>3. CASE value = <<"proxy", value[2], Object(class, x)>>
  <2>1. Kind(value) = "proxy" /\ value[3] = Object(class, x)
    BY <1>3 DEF Kind
  <2>2. QED BY <2>1 DEF PersistentToOop, ClientToOop, ScalarToOop
<1>4. QED BY <1>1, <1>2, <1>3

\* and of a proxy,
LEMMA ProxiesComeBack ==
  ASSUME NEW type \in STRING, NEW class \in Referred, NEW x \in Contents
  PROVE  ValuesComeBack(<<"proxy", type, Object(class, x)>>)
<1> DEFINE oop == Object(class, x)
           value == <<"proxy", type, oop>>
           Suits(v) == /\ v \in {<<"str", x>>, <<"float", x>>, <<"proxy", v[2], oop>>}
                       /\ Kind(v) = "str" => class = "String"
                       /\ Kind(v) = "float" => class = "Float"
<1>1. /\ ~IsWord(oop) /\ ~Immediate(oop) /\ ~IsChar(oop) /\ oop # Illegal /\ oop # Raises
      /\ oop[2] = class /\ oop[3] = x
  BY ObjectIsNone
<1>2. Kind(value) = "proxy" /\ value[2] = type /\ value[3] = oop
  BY DEF Kind
<1>3. class # "Symbol" /\ class # "Array"
  BY DEF Referred
<1>4. ASSUME NEW v, Suits(v) PROVE PersistentToOop(v) = oop
  BY <1>4, PassedBack
<1>6. \A t : Suits(<<"proxy", t, oop>>)
  BY DEF Kind
<1>7. class = "String" => Suits(<<"str", x>>)
  BY DEF Kind
<1>8. class = "Float" => Suits(<<"float", x>>)
  BY DEF Kind
<1> HIDE DEF oop, value, Suits
<1>9. Suits(ItemFromOop(oop))
  <2>1. CASE class = "String"
    BY <1>1, <1>7, <2>1, ProxyClasses DEF ItemFromOop, TextClasses
  <2>2. CASE class = "Float"
    BY <1>1, <1>8, <2>2, ProxyClasses DEF ItemFromOop, TextClasses
  <2>3. CASE class \in DOMAIN ProxyOf
    <3>1. ItemFromOop(oop) = <<"proxy", ProxyOf[class], oop>>
      BY <1>1, <2>3, ProxyClasses DEF ItemFromOop, TextClasses
    <3>2. QED BY <1>6, <3>1
  <2>4. CASE class \notin {"String", "Float"} \cup DOMAIN ProxyOf
    <3>1. ItemFromOop(oop) = <<"proxy", "GsObject", oop>>
      BY <1>1, <1>3, <2>4 DEF ItemFromOop, TextClasses
    <3>2. QED BY <1>6, <3>1
  <2>5. QED BY <2>1, <2>2, <2>3, <2>4
<1>10. Suits(PersistentFromOop(oop))
  BY <1>1, <1>3, <1>9 DEF PersistentFromOop
<1>11. Suits(BridgeFromOop(oop))
  <2>1. CASE Kind(PersistentFromOop(oop)) = "proxy" /\ PersistentFromOop(oop)[2] = "GsObject"
    <3>1. BridgeFromOop(oop) = <<"proxy", "SmalltalkObject", oop>>
      BY <2>1 DEF BridgeFromOop
    <3>2. QED BY <1>6, <3>1
  <2>2. CASE ~(Kind(PersistentFromOop(oop)) = "proxy" /\ PersistentFromOop(oop)[2] = "GsObject")
    <3>1. BridgeFromOop(oop) = PersistentFromOop(oop)
      BY <2>2 DEF BridgeFromOop
    <3>2. QED BY <1>10, <3>1
  <2>3. QED BY <2>1, <2>2
<1>12. Suits(Marshal(oop))
  <2>1. CASE class = "String"
    BY <1>1, <1>7, <2>1 DEF Marshal, TextClasses
  <2>2. CASE class = "Float"
    BY <1>1, <1>8, <2>2 DEF Marshal, TextClasses
  <2>3. CASE class \notin {"String", "Float"}
    <3>1. Marshal(oop) = <<"proxy", "OopRef", oop>>
      BY <1>1, <1>3, <2>3 DEF Marshal, TextClasses
    <3>2. QED BY <1>6, <3>1
  <2>4. QED BY <2>1, <2>2, <2>3
<1>13. /\ PersistentToOop(value) = oop /\ ClientToOop(value) = oop
       /\ GeneratedArgument(value) = oop /\ HandleArgument(value) = oop
       /\ SharedToOop(value) \in {oop, Raises}
  BY <1>2 DEF PersistentToOop, ClientToOop, GeneratedArgument, HandleArgument, IsInt, SharedToOop,
             ScalarToOop
<1>14. ValuesComeBack(value)
  BY <1>1, <1>2, <1>4, <1>10, <1>11, <1>12, <1>13 DEF ValuesComeBack, Scalars
<1>15. QED BY <1>14 DEF value, oop

\* so that it holds of every value.
LEMMA AllComeBack == \A value \in AnyValue : ValuesComeBack(value)
BY ScalarsComeBack, ListsComeBack, DictsComeBack, ProxiesComeBack DEF AnyValue

\* At most one of the converters takes a value, and reads what it wrote.
LEMMA AllConvert ==
  ASSUME NEW kind, NEW value, kind = Kind(value),
         \/ kind # "datetime" /\ value = <<kind, value[2]>>
         \/ kind = "datetime" /\ value \in Datetimes(Int, Int)
  PROVE  ConvertersAgree(value)
<1> DEFINE Only(i) == Matching(Converters, value) = {i}
<1>1. /\ DOMAIN Converters = 1..4
      /\ Converters[1] = [name |-> "datetime", type |-> "datetime", exact |-> FALSE]
      /\ Converters[2] = [name |-> "date_iso_string", type |-> "date", exact |-> TRUE]
      /\ Converters[3] = [name |-> "decimal_string", type |-> "decimal", exact |-> FALSE]
      /\ Converters[4] = [name |-> "uuid_string", type |-> "uuid", exact |-> FALSE]
  BY DEF Converters
<1>2. \A i \in 1..4 : i = 1 \/ i = 2 \/ i = 3 \/ i = 4
  OBVIOUS
<1>3. \A i \in 1..4 : Matches(Converters[i], value) <=> kind = Converters[i].type
  BY <1>1, <1>2 DEF Matches, IsA
<1>4. ASSUME Matching(Converters, value) # {}
      PROVE  \E i \in 1..4 : Only(i) /\ Converters[i].type = kind
  <2>1. PICK i \in 1..4 : kind = Converters[i].type
    BY <1>1, <1>3, <1>4 DEF Matching
  <2>2. \A j \in 1..4 : kind = Converters[j].type => j = i
    <3>1. /\ Converters[1].type = "datetime" /\ Converters[2].type = "date"
          /\ Converters[3].type = "decimal" /\ Converters[4].type = "uuid"
      BY <1>1
    <3>2. ASSUME NEW j \in 1..4, Converters[j].type = Converters[i].type PROVE j = i
      BY <3>1, <3>2, <1>2
    <3>3. QED BY <2>1, <3>2
  <2>3. QED BY <1>1, <1>3, <2>1, <2>2 DEF Matching
<1>5. ASSUME NEW i \in 1..4, Only(i), Converters[i].type = kind
      PROVE  ConvertersAgree(value)
  <2>1. ConverterFor(Converters, value) = Converters[i]
    BY <1>5 DEF ConverterFor
  <2>2. (CHOOSE j \in DOMAIN Converters : Converters[j].name = Converters[i].name) = i
    BY <1>1, <1>2
  <2>3. CASE kind = "datetime"
    <3>1. Converted(Converters, value) = Object("DateAndTime", Moment(value))
      BY <1>5, <2>1, <2>3 DEF Converted
    <3>2. ConvertedBack(Converters, Converters[i].name, Converted(Converters, value))
            = <<"datetime", Moment(value), <<0>>>>
      <4>1. Converted(Converters, value)[3] = Moment(value)
        BY <3>1, ObjectIsNone
      <4>2. QED BY <1>5, <2>2, <2>3, <4>1 DEF ConvertedBack
    <3>3. PICK hour \in Int, zone \in {<<>>} \cup {<<o>> : o \in Int} : value = <<"datetime", hour, zone>>
      BY <2>3 DEF Datetimes
    <3>4. CASE zone = <<>>
      BY <2>1, <2>3, <3>2, <3>3, <3>4 DEF ConvertersAgree, Moment, Offset
    <3>5. CASE zone # <<>>
      BY <2>1, <2>3, <3>2, <3>3, <3>5 DEF ConvertersAgree, Moment, Offset
    <3>6. QED BY <3>4, <3>5
  <2>4. CASE kind # "datetime"
    <3>1. Converted(Converters, value) = Object("String", value[2])
      BY <1>5, <2>1, <2>4 DEF Converted
    <3>2. ConvertedBack(Converters, Converters[i].name, Converted(Converters, value)) = <<kind, value[2]>>
      <4>1. Converted(Converters, value)[3] = value[2]
        BY <3>1, ObjectIsNone
      <4>2. QED BY <1>5, <2>2, <2>4, <4>1 DEF ConvertedBack
    <3>3. QED BY <2>1, <2>4, <3>2 DEF ConvertersAgree
  <2>5. QED BY <2>3, <2>4
<1>6. CASE Matching(Converters, value) = {}
  BY <1>6 DEF ConvertersAgree
<1>7. QED BY <1>4, <1>5, <1>6

-----------------------------------------------------------------------------
(* Collections.                                                            *)

\* g is the recursive function over 0..n that starts with c and has the body H.
Recurs(g, n, c, H) == \A i \in 0..n : g[i] = IF i = 0 THEN c ELSE H[i][g[i - 1]]

\* There is one, if every step stays in a set T.
LEMMA Recursion ==
  ASSUME NEW T, NEW c \in T, NEW n \in Nat, NEW H \in [1..n -> [T -> T]]
  PROVE  \E g \in [0..n -> T] : Recurs(g, n, c, H)
<1>1. PICK g \in [0..n -> T] : Loops(g, n, c, H)
  BY Loop
<1>2. ASSUME NEW i \in 0..n
      PROVE  g[i] = IF i = 0 THEN c ELSE H[i][g[i - 1]]
  <2>1. CASE i = 0
    BY <2>1, <1>1 DEF Loops
  <2>2. CASE i # 0
    <3>1. i \in 1..n
      BY <2>2
    <3>2. QED BY <2>2, <3>1, <1>1 DEF Loops
  <2>3. QED BY <2>1, <2>2
<1>3. QED BY <1>2 DEF Recurs

\* Two functions over 0..n that start alike and go on alike are the same.
Alike(g, h, n) ==
  /\ g = [i \in 0..n |-> g[i]] /\ h = [i \in 0..n |-> h[i]]
  /\ h[0] = g[0] /\ \A i \in 1..n : h[i - 1] = g[i - 1] => h[i] = g[i]

\* By induction over i.
LEMMA OneRecursion ==
  ASSUME NEW n \in Nat, NEW g, NEW h, Alike(g, h, n)
  PROVE  h = g
<1> USE DEF Alike
<1> DEFINE S == {i \in 0..n : h[i] = g[i]}
<1>1. 0 \in S
  OBVIOUS
<1>2. ASSUME NEW i \in 1..n, i - 1 \in S PROVE i \in S
  <2>1. i \in 0..n
    OBVIOUS
  <2>2. QED BY <1>2, <2>1
<1> HIDE DEF S
<1>3. \A i \in 0..n : i \in S
  BY <1>1, <1>2, Stepwise
<1>4. \A i \in 0..n : h[i] = g[i]
  BY <1>3 DEF S
<1>5. QED BY <1>4

\* What is bounded has a greatest element.
LEMMA Greatest ==
  ASSUME NEW n \in Nat, NEW W \in SUBSET (1..n), W # {}
  PROVE  \E m \in W : \A l \in W : l <= m
<1> DEFINE B == {n - w : w \in W}
<1>0. \A w \in W : w \in Int /\ n - w \in Nat
  OBVIOUS
<1>1. B \in SUBSET Nat /\ B # {}
  BY <1>0
<1>2. PICK m \in B : \A l \in B : m <= l
  BY <1>1, Smallest
<1>3. PICK w \in W : m = n - w
  BY <1>2
<1>4. ASSUME NEW l \in W PROVE l <= w
  <2>1. n - l \in B
    OBVIOUS
  <2>2. m <= n - l
    BY <1>2, <2>1
  <2>3. l \in Int /\ w \in Int
    BY <1>0, <1>4
  <2> HIDE DEF B
  <2>4. QED BY <1>3, <2>2, <2>3
<1>5. QED BY <1>4

-----------------------------------------------------------------------------
(* Mappings.                                                               *)

States == [contents : Mappings(Keys), answer : {"none", Raised}]
UpdateOne(st, item) ==
  IF st.answer = Raised THEN st ELSE SetItem(st.contents, item[1], item[2])

\* One write of update keeps a mapping a mapping.
LEMMA OneState ==
  ASSUME NEW st \in States, NEW item \in Keys \X Written
  PROVE  UpdateOne(st, item) \in States
<1>1. item[1] \in Keys /\ item[2] \in Written /\ st.contents \in Mappings(Keys)
  BY DEF States
<1>2. ASSUME NEW x \in Mappings(Keys), NEW a \in {"none", Raised}
      PROVE  Result(x, a) \in States
  BY DEF Result, States
<1>3. item[2] # Unstorable => [st.contents EXCEPT ![item[1]] = item[2]] \in Mappings(Keys)
  BY <1>1 DEF Mappings, Written
<1>4. QED BY <1>1, <1>2, <1>3 DEF UpdateOne, SetItem

\* What update does, one write after the other.
LEMMA UpdateSteps ==
  ASSUME NEW d \in Mappings(Keys), NEW items \in Seq(Keys \X Written)
  PROVE  \E after \in [0..Len(items) -> States] :
           /\ Update(d, items) = after[Len(items)]
           /\ after[0] = Result(d, "none")
           /\ \A i \in 1..Len(items) : after[i] = UpdateOne(after[i - 1], items[i])
<1> DEFINE n == Len(items)
           c == Result(d, "none")
           H == [i \in 1..n |-> [st \in States |-> UpdateOne(st, items[i])]]
           Body(g) == [i \in 0..n |->
                        IF i = 0 THEN Result(d, "none")
                        ELSE IF g[i - 1].answer = Raised THEN g[i - 1]
                        ELSE SetItem(g[i - 1].contents, items[i][1], items[i][2])]
           after == CHOOSE g : g = Body(g)
<1>1. Update(d, items) = after[n] /\ n \in Nat
  BY DEF Update
<1>2. c \in States
  BY DEF Result, States
<1>3. H \in [1..n -> [States -> States]]
  <2>1. \A i \in 1..n, st \in States : UpdateOne(st, items[i]) \in States
    BY OneState
  <2>2. QED BY <2>1
<1>4. \A i \in 1..n, st \in States : H[i][st] = UpdateOne(st, items[i])
  OBVIOUS
<1>0. n \in Nat
  OBVIOUS
<1> HIDE DEF c, H, n
<1>5. PICK g \in [0..n -> States] : Recurs(g, n, c, H)
  BY <1>0, <1>2, <1>3, Recursion
<1>6. \A i \in 0..n : i # 0 => i \in 1..n /\ i - 1 \in 0..n
  BY <1>1
<1>7. \A i \in 0..n : g[i] = IF i = 0 THEN c ELSE UpdateOne(g[i - 1], items[i])
  BY <1>4, <1>5, <1>6 DEF Recurs
<1>8. g = Body(g)
  BY <1>5, <1>7 DEF UpdateOne, c
<1>9. after = Body(after)
  BY <1>8
<1> HIDE DEF after
<1>10. \A i \in 0..n : after[i] = IF i = 0 THEN c ELSE UpdateOne(after[i - 1], items[i])
  <2>1. \A i \in 0..n : Body(after)[i] = IF i = 0 THEN c ELSE UpdateOne(after[i - 1], items[i])
    BY DEF UpdateOne, c
  <2> HIDE DEF Body
  <2>2. QED BY <1>9, <2>1
<1>11. 0 \in 0..n
  BY <1>0
<1>12. after = [i \in 0..n |-> after[i]]
  BY <1>9
<1>13. g = [i \in 0..n |-> g[i]]
  BY <1>5
<1>14. \A i \in 1..n : after[i - 1] = g[i - 1] => after[i] = g[i]
  BY <1>0, <1>7, <1>10
<1>15. after[0] = g[0]
  BY <1>7, <1>10, <1>11
<1>16. Alike(g, after, n)
  BY <1>12, <1>13, <1>14, <1>15 DEF Alike
<1>17. after = g
  BY <1>0, <1>16, OneRecursion
<1>18. QED BY <1>1, <1>5, <1>6, <1>7, <1>17 DEF n, c

\* The mapping with the first i writes.
WritesTo(items, i, k) == {j \in 1..i : items[j][1] = k}
Latest(d, items, i) ==
  [k \in DOMAIN d |-> IF WritesTo(items, i, k) = {} THEN d[k]
                      ELSE items[Max(WritesTo(items, i, k))][2]]

\* The dict after the first i writes is Latest.
LEMMA PyUpdateIs ==
  ASSUME NEW d \in Mappings(Keys), NEW items \in Seq(Keys \X Written), NEW i \in 0..Len(items)
  PROVE  PyUpdate(d, SubSeq(items, 1, i)) = Latest(d, items, i)
<1> DEFINE q == SubSeq(items, 1, i)
<1>1. i \in Int /\ 1 \in Int /\ \A j \in 1..i : items[j] \in Keys \X Written
  OBVIOUS
<1>2. q \in Seq(Keys \X Written) /\ Len(q) = i /\ \A j \in 1..i : q[j] = items[j]
  <2>1. /\ q \in Seq(Keys \X Written) /\ Len(q) = IF 1 <= i THEN i - 1 + 1 ELSE 0
        /\ \A j \in 1..(i - 1 + 1) : q[j] = items[1 + j - 1]
    BY <1>1, SubSeqProperties
  <2>2. i - 1 + 1 = i /\ \A j \in 1..i : 1 + j - 1 = j
    BY <1>1
  <2> HIDE DEF q
  <2>3. QED BY <1>1, <2>1, <2>2
<1> HIDE DEF q
<1>3. DOMAIN q = 1..i
  BY <1>2
<1>4. \A k : {j \in DOMAIN q : q[j][1] = k} = WritesTo(items, i, k)
  BY <1>2, <1>3 DEF WritesTo
<1>5. \A k : WritesTo(items, i, k) # {} => Max(WritesTo(items, i, k)) \in 1..i
  <2>1. SUFFICES ASSUME NEW k, WritesTo(items, i, k) # {}
                 PROVE  Max(WritesTo(items, i, k)) \in WritesTo(items, i, k)
    BY DEF WritesTo
  <2>2. WritesTo(items, i, k) \subseteq 1..i
    BY DEF WritesTo
  <2>3. \E m \in WritesTo(items, i, k) : \A l \in WritesTo(items, i, k) : l <= m
    <3>1. WritesTo(items, i, k) \in SUBSET (1..i) /\ WritesTo(items, i, k) # {} /\ i \in Nat
      BY <2>1, <2>2
    <3>2. QED BY <3>1, Greatest
  <2>4. \A x \in WritesTo(items, i, k) : x \in Int
    BY <2>2
  <2>5. QED BY <2>3, <2>4 DEF Max
<1>6. PyUpdate(d, q) =
        [k \in DOMAIN d |-> IF WritesTo(items, i, k) = {} THEN d[k]
                            ELSE q[Max(WritesTo(items, i, k))][2]]
  BY <1>4 DEF PyUpdate
<1>7. \A k : WritesTo(items, i, k) # {} =>
        q[Max(WritesTo(items, i, k))] = items[Max(WritesTo(items, i, k))]
  BY <1>2, <1>5
<1>8. QED BY <1>6, <1>7 DEF q, Latest

\* One write more is one assignment.
LEMMA LatestOne ==
  ASSUME NEW d \in Mappings(Keys), NEW items \in Seq(Keys \X Written)
  PROVE  /\ Latest(d, items, 0) = d
         /\ \A i \in 1..Len(items) :
              Latest(d, items, i) = [Latest(d, items, i - 1) EXCEPT ![items[i][1]] = items[i][2]]
<1>1. DOMAIN d = Keys
  BY DEF Mappings
<1>2. Latest(d, items, 0) = d
  <2>1. \A k : WritesTo(items, 0, k) = {}
    BY DEF WritesTo
  <2>2. Latest(d, items, 0) = [k \in DOMAIN d |-> d[k]]
    BY <2>1 DEF Latest
  <2>3. QED BY <2>2 DEF Mappings
<1>3. ASSUME NEW i \in 1..Len(items)
      PROVE  Latest(d, items, i) = [Latest(d, items, i - 1) EXCEPT ![items[i][1]] = items[i][2]]
  <2> DEFINE k == items[i][1]
  <2>1. k \in Keys /\ i \in Int
    OBVIOUS
  <2>2. \A x : x # k => WritesTo(items, i, x) = WritesTo(items, i - 1, x)
    BY <2>1 DEF WritesTo
  <2>3. i \in WritesTo(items, i, k) /\ \A l \in WritesTo(items, i, k) : l \in Int /\ l <= i
    BY <2>1 DEF WritesTo
  <2> HIDE DEF k
  <2>4. Max(WritesTo(items, i, k)) = i
    <3> DEFINE W == WritesTo(items, i, k)
               m == Max(W)
    <3> HIDE DEF W
    <3>1. i \in W /\ \A l \in W : l \in Int /\ l <= i
      BY <2>3 DEF W
    <3>2. m \in W /\ \A l \in W : m >= l
      BY <3>1 DEF Max
    <3> HIDE DEF m
    <3>3. m = i
      BY <2>1, <3>1, <3>2
    <3>4. QED BY <3>3 DEF m, W
  <2>5. ASSUME NEW x \in Keys
        PROVE  Latest(d, items, i)[x] = IF x = k THEN items[i][2] ELSE Latest(d, items, i - 1)[x]
    <3>1. CASE x = k
      BY <1>1, <2>3, <2>4, <3>1 DEF Latest
    <3>2. CASE x # k
      BY <1>1, <2>2, <3>2 DEF Latest
    <3>3. QED BY <3>1, <3>2
  <2>6. /\ Latest(d, items, i) = [x \in Keys |-> Latest(d, items, i)[x]]
        /\ Latest(d, items, i - 1) = [x \in Keys |-> Latest(d, items, i - 1)[x]]
    BY <1>1 DEF Latest
  <2>7. QED BY <2>1, <2>5, <2>6 DEF k
<1>4. QED BY <1>2, <1>3

\* update writes what comes before the first value that cannot be stored, at b.
LEMMA UpdateIs ==
  ASSUME NEW d \in Mappings(Keys), NEW items \in Seq(Keys \X Written),
         NEW b \in 1..(Len(items) + 1),
         \A i \in 1..(b - 1) : items[i][2] # Unstorable,
         b <= Len(items) => items[b][2] = Unstorable
  PROVE  Update(d, items) = Result(PyUpdate(d, SubSeq(items, 1, b - 1)),
                                   IF b <= Len(items) THEN Raised ELSE "none")
<1> DEFINE n == Len(items)
           Upto(i) == IF i < b THEN Result(Latest(d, items, i), "none")
                      ELSE Result(Latest(d, items, b - 1), Raised)
<1>1. PICK after \in [0..n -> States] :
        /\ Update(d, items) = after[n]
        /\ after[0] = Result(d, "none")
        /\ \A i \in 1..n : after[i] = UpdateOne(after[i - 1], items[i])
  BY UpdateSteps
<1>2. n \in Nat /\ b \in Nat /\ 0 < b /\ b <= n + 1
  OBVIOUS
<1> DEFINE S == {i \in 0..n : after[i] = Upto(i)}
<1>3. 0 \in S
  BY <1>1, <1>2, LatestOne
<1>4. ASSUME NEW i \in 1..n, i - 1 \in S
      PROVE  i \in S
  <2>1. after[i] = UpdateOne(Upto(i - 1), items[i]) /\ i \in 0..n /\ i - 1 \in Int /\ i \in Int
    BY <1>1, <1>2, <1>4
  <2>2. CASE i < b
    <3>1. Upto(i - 1) = Result(Latest(d, items, i - 1), "none") /\ items[i][2] # Unstorable
      BY <1>2, <2>1, <2>2
    <3>2. UpdateOne(Upto(i - 1), items[i]) = Result([Latest(d, items, i - 1) EXCEPT ![items[i][1]] = items[i][2]], "none")
      BY <3>1 DEF UpdateOne, SetItem, Result, Raised
    <3>3. UpdateOne(Upto(i - 1), items[i]) = Result(Latest(d, items, i), "none")
      <4>1. Latest(d, items, i) = [Latest(d, items, i - 1) EXCEPT ![items[i][1]] = items[i][2]]
        BY LatestOne
      <4>2. QED BY <3>2, <4>1, Zenon
    <3>4. QED BY <2>1, <2>2, <3>3
  <2>3. CASE i = b
    <3>1. Upto(i - 1) = Result(Latest(d, items, i - 1), "none") /\ items[i][2] = Unstorable
      BY <1>2, <2>1, <2>3
    <3>2. UpdateOne(Upto(i - 1), items[i]) = Result(Latest(d, items, i - 1), Raised)
      BY <3>1 DEF UpdateOne, SetItem, Result, Raised
    <3>3. QED BY <1>2, <2>1, <2>3, <3>2
  <2>4. CASE i > b
    <3>1. Upto(i - 1) = Result(Latest(d, items, b - 1), Raised)
      BY <1>2, <2>1, <2>4
    <3>2. UpdateOne(Upto(i - 1), items[i]) = Result(Latest(d, items, b - 1), Raised)
      BY <3>1 DEF UpdateOne, Result
    <3>3. QED BY <1>2, <2>1, <2>4, <3>2
  <2>5. QED BY <1>2, <2>1, <2>2, <2>3, <2>4
<1> HIDE DEF S
<1>5. \A i \in 0..n : i \in S
  BY <1>2, <1>3, <1>4, Stepwise
<1>6. n \in S
  BY <1>2, <1>5
<1>7. Update(d, items) = Upto(n)
  BY <1>1, <1>6 DEF S
<1>8. b - 1 \in 0..n
  BY <1>2
<1>9. PyUpdate(d, SubSeq(items, 1, b - 1)) = Latest(d, items, b - 1)
  BY <1>8, PyUpdateIs
<1>10. CASE b <= n
  <2>1. ~ (n < b)
    BY <1>2, <1>10
  <2>2. QED BY <1>7, <1>9, <1>10, <2>1
<1>11. CASE ~(b <= n)
  <2>1. n < b /\ n = b - 1
    BY <1>2, <1>11
  <2>2. QED BY <1>7, <1>9, <1>11, <2>1
<1>12. QED BY <1>10, <1>11

\* All of a sequence is the sequence.
LEMMA SubSeqAll ==
  ASSUME NEW X, NEW s \in Seq(X)
  PROVE  SubSeq(s, 1, Len(s)) = s
<1>1. 1 \in Int /\ Len(s) \in Int /\ \A i \in 1..Len(s) : s[i] \in X
  OBVIOUS
<1>2. /\ SubSeq(s, 1, Len(s)) \in Seq(X)
      /\ Len(SubSeq(s, 1, Len(s))) = IF 1 <= Len(s) THEN Len(s) - 1 + 1 ELSE 0
      /\ \A i \in 1..(Len(s) - 1 + 1) : SubSeq(s, 1, Len(s))[i] = s[1 + i - 1]
  BY <1>1, SubSeqProperties
<1> DEFINE q == SubSeq(s, 1, Len(s))
<1> HIDE DEF q
<1>3. q \in Seq(X) /\ Len(q) = Len(s) /\ \A i \in 1..Len(s) : q[i] = s[i]
  BY <1>1, <1>2 DEF q
<1>4. q = s
  BY <1>3, SeqEqual
<1>5. QED BY <1>4 DEF q

\* All that MappingsLikeDict says.
LEMMA DictsAlike ==
  ASSUME NEW d \in Mappings(Keys), NEW k \in Keys, NEW v \in Written,
         NEW items \in Seq(Keys \X Written)
  PROVE  MappingsLikeDict(d, k, v, items)
<1> DEFINE gone == [d EXCEPT ![k] = Absent]
           bad == {i \in DOMAIN items : items[i][2] = Unstorable}
<1>1. /\ d[k] \in Stored \cup {Absent} /\ Raised \notin Stored /\ Absent \notin Stored
      /\ Unstorable \notin Stored /\ d[k] # Raised
  BY StoredAssumption DEF Mappings, Absent, Raised
<1>2. GetItem(d, k) = IF PyHas(d, k) THEN d[k] ELSE Raised
  BY DEF GetItem, PyHas
<1>3. Has(d, k) <=> PyHas(d, k)
  BY <1>1, <1>2 DEF Has, PyHas
<1>4. HashGetItem(d, k) = GetItem(d, k) /\ (v # Unstorable => HashGet(d, k, v) = Get(d, k, v))
  BY <1>1, <1>2, <1>3 DEF HashGetItem, HashGet, GetItem, Get, PyHas, Absent
<1>5. PyHas(d, k) => DelItem(d, k) = Result(gone, "none")
  BY <1>3 DEF DelItem
<1>6. PyHas(d, k) => HashDelItem(d, k) = DelItem(d, k)
  BY <1>5 DEF HashDelItem
<1>7. Pop(d, k, v) = IF PyHas(d, k) THEN Result(gone, d[k]) ELSE Result(d, v)
  <2>1. v # Absent
    BY <1>1 DEF Written, Absent, Unstorable
  <2>2. Result(gone, "none").contents = gone
    BY DEF Result
  <2>3. QED BY <1>2, <1>3, <1>5, <2>1, <2>2 DEF Pop
<1>8. Pop(d, k, Absent) = IF PyHas(d, k) THEN Result(gone, d[k]) ELSE Result(d, Raised)
  <2>1. Result(gone, "none").contents = gone
    BY DEF Result
  <2>2. QED BY <1>2, <1>3, <1>5, <2>1 DEF Pop
<1>9. v # Unstorable =>
        SetDefault(d, k, v) = IF PyHas(d, k) THEN Result(d, d[k])
                              ELSE Result([d EXCEPT ![k] = v], v)
  <2>1. \A x, y : Result(x, y).contents = x
    BY DEF Result
  <2>2. QED BY <1>2, <1>3, <2>1 DEF SetDefault, SetItem
<1>10. GetMany(d, <<k>>, v)[k] = IF PyHas(d, k) THEN d[k] ELSE v
  <2>1. k \in ToSet(<<k>>)
    BY DEF ToSet
  <2>2. GetMany(d, <<k>>, v)[k] = Get(d, k, v)
    BY <2>1 DEF GetMany
  <2>3. QED BY <1>3, <2>2 DEF Get
<1>11. Len(items) \in Nat /\ DOMAIN items = 1..Len(items)
  OBVIOUS
<1>12. ASSUME bad = {}
       PROVE  /\ Update(d, items) = Result(PyUpdate(d, items), "none")
              /\ UpdateMany(d, items) = Update(d, items)
  <2>1. Update(d, items) = Result(PyUpdate(d, SubSeq(items, 1, Len(items))), "none")
    <3>1. PICK b \in 1..(Len(items) + 1) : b = Len(items) + 1
      BY <1>11
    <3>2. b - 1 = Len(items) /\ ~(b <= Len(items)) /\ \A i \in 1..(b - 1) : items[i][2] # Unstorable
      BY <1>11, <1>12, <3>1
    <3>3. Update(d, items) = Result(PyUpdate(d, SubSeq(items, 1, b - 1)),
                                    IF b <= Len(items) THEN Raised ELSE "none")
      BY <3>2, UpdateIs
    <3>4. QED BY <3>2, <3>3
  <2>2. SubSeq(items, 1, Len(items)) = items
    BY SubSeqAll
  <2>3. UpdateMany(d, items) = Update(d, items)
    BY <1>12 DEF UpdateMany
  <2>4. QED BY <2>1, <2>2, <2>3
<1>13. ASSUME bad # {}
       PROVE  /\ UpdateMany(d, items) = Result(d, Raised)
              /\ Update(d, items) = Result(PyUpdate(d, SubSeq(items, 1, Min(bad) - 1)), Raised)
  <2>1. UpdateMany(d, items) = Result(d, Raised)
    BY <1>13 DEF UpdateMany
  <2>2. bad \in SUBSET Nat /\ \A i \in bad : i \in 1..Len(items)
    BY <1>11
  <2>3. \E m \in bad : \A j \in bad : m <= j
    <3> HIDE DEF bad
    <3>1. QED BY <1>13, <2>2, Smallest
  <2>4. PICK b \in bad : b = Min(bad) /\ \A j \in bad : b <= j
    BY <2>3 DEF Min
  <2>5. /\ b \in 1..(Len(items) + 1) /\ b <= Len(items) /\ items[b][2] = Unstorable
        /\ \A i \in 1..(b - 1) : items[i][2] # Unstorable
    <3>1. b \in 1..Len(items) /\ b \in Int
      BY <2>2
    <3>2. ASSUME NEW i \in 1..(b - 1) PROVE items[i][2] # Unstorable
      <4>1. i \in DOMAIN items /\ ~(b <= i)
        BY <1>11, <3>1
      <4>2. QED BY <2>4, <4>1
    <3>3. QED BY <1>11, <3>1, <3>2
  <2>6. Update(d, items) = Result(PyUpdate(d, SubSeq(items, 1, b - 1)),
                                  IF b <= Len(items) THEN Raised ELSE "none")
    BY <2>5, UpdateIs
  <2>7. QED BY <2>1, <2>4, <2>5, <2>6
<1> HIDE DEF bad, gone
<1>14. QED BY <1>2, <1>4, <1>6, <1>7, <1>8, <1>9, <1>10, <1>12, <1>13
           DEF MappingsLikeDict, bad, gone

-----------------------------------------------------------------------------
(* Lists.                                                                  *)

\* A sequence without one of its elements.
LEMMA Removed ==
  ASSUME NEW X, NEW s \in Seq(X), NEW f \in 1..Len(s)
  PROVE  /\ RemoveAt(s, f) \in Seq(X) /\ Len(RemoveAt(s, f)) = Len(s) - 1
         /\ \A i \in 1..(Len(s) - 1) : RemoveAt(s, f)[i] = IF i < f THEN s[i] ELSE s[i + 1]
<1> DEFINE a == SubSeq(s, 1, f - 1)
           b == SubSeq(s, f + 1, Len(s))
           n == Len(s)
<1>1. /\ n \in Nat /\ f \in Int /\ 1 <= f /\ f <= n /\ f - 1 \in Int /\ f + 1 \in Int /\ n \in Int
      /\ \A i \in 1..n : s[i] \in X
  OBVIOUS
<1>2. /\ a \in Seq(X) /\ Len(a) = f - 1 /\ \A i \in 1..(f - 1) : a[i] = s[i]
  <2>1. 1 \in Int /\ f - 1 \in Int /\ \A i \in 1..(f - 1) : s[i] \in X
    BY <1>1
  <2>2. /\ a \in Seq(X) /\ Len(a) = IF 1 <= f - 1 THEN f - 1 - 1 + 1 ELSE 0
        /\ \A i \in 1..(f - 1 - 1 + 1) : a[i] = s[1 + i - 1]
    BY <2>1, SubSeqProperties
  <2> HIDE DEF a
  <2>3. f - 1 - 1 + 1 = f - 1 /\ \A i \in 1..(f - 1) : 1 + i - 1 = i
    BY <1>1
  <2>4. QED BY <1>1, <2>2, <2>3
<1>3. /\ b \in Seq(X) /\ Len(b) = n - f /\ \A i \in 1..(n - f) : b[i] = s[f + i]
  <2>1. f + 1 \in Int /\ n \in Int /\ \A i \in (f + 1)..n : s[i] \in X
    BY <1>1
  <2>2. /\ b \in Seq(X) /\ Len(b) = IF f + 1 <= n THEN n - (f + 1) + 1 ELSE 0
        /\ \A i \in 1..(n - (f + 1) + 1) : b[i] = s[f + 1 + i - 1]
    BY <2>1, SubSeqProperties
  <2> HIDE DEF b, n
  <2>3. n - (f + 1) + 1 = n - f /\ \A i \in 1..(n - f) : f + 1 + i - 1 = f + i
    BY <1>1
  <2>4. QED BY <1>1, <2>2, <2>3
<1>4. RemoveAt(s, f) = a \o b
  BY DEF RemoveAt
<1> HIDE DEF a, b, n
<1>5. /\ a \o b \in Seq(X) /\ Len(a \o b) = Len(a) + Len(b)
      /\ \A i \in 1..(Len(a) + Len(b)) :
           (a \o b)[i] = IF i <= Len(a) THEN a[i] ELSE b[i - Len(a)]
  BY <1>2, <1>3, ConcatProperties
<1>6. Len(a) + Len(b) = n - 1
  BY <1>1, <1>2, <1>3
<1>7. ASSUME NEW i \in 1..(n - 1)
      PROVE  (a \o b)[i] = IF i < f THEN s[i] ELSE s[i + 1]
  <2>1. i \in Int
    OBVIOUS
  <2>2. CASE i < f
    <3>1. i \in 1..(f - 1) /\ i <= Len(a)
      BY <1>1, <1>2, <2>1, <2>2
    <3>2. QED BY <1>2, <1>5, <1>6, <2>2, <3>1
  <2>3. CASE ~(i < f)
    <3>1. /\ ~(i <= Len(a)) /\ i - Len(a) = i - (f - 1) /\ i - (f - 1) \in 1..(n - f)
          /\ f + (i - (f - 1)) = i + 1
      BY <1>1, <1>2, <2>1, <2>3
    <3>2. (a \o b)[i] = b[i - (f - 1)]
      BY <1>5, <1>6, <3>1
    <3>3. QED BY <1>3, <2>3, <3>1, <3>2
  <2>4. QED BY <2>2, <2>3
<1>8. QED BY <1>4, <1>5, <1>6, <1>7 DEF n

\* delete raises where there is nothing to delete, and for the only nil.
LEMMA DeleteAnswers ==
  ASSUME NEW s \in Seq(Stored), NEW v \in Stored
  PROVE  (Delete(s, v).answer = Raised) =
           (~Includes(s, v) \/ (v = "none" /\ Cardinality({i \in DOMAIN s : s[i] = v}) = 1))
<1> DEFINE P == {i \in DOMAIN s : s[i] = v}
           f == First(s, v)
<1>1. v # Raised
  BY StoredAssumption
<1>2. \A c, a : Result(c, a).contents = c /\ Result(c, a).answer = a
  BY DEF Result
<1>3. CASE ~Includes(s, v)
  <2>1. Discard(s, v) = Result(s, "none")
    BY <1>3 DEF Discard
  <2>2. Delete(s, v) = Result(s, Raised)
    BY <1>2, <1>3, <2>1 DEF Delete
  <2>3. QED BY <1>2, <1>3, <2>2
<1>4. CASE Includes(s, v)
  <2>1. Len(s) \in Nat /\ DOMAIN s = 1..Len(s)
    OBVIOUS
  <2>2. P \in SUBSET Nat /\ P # {} /\ P \subseteq 1..Len(s)
    BY <1>4, <2>1 DEF Includes
  <2>3. f \in P
    <3>1. PICK m \in P : \A k \in P : m <= k
      <4> HIDE DEF P
      <4>1. QED BY <2>2, Smallest
    <3>2. m \in DOMAIN s /\ s[m] = v /\ \A j \in 1..(m - 1) : s[j] # v
      <4>1. ASSUME NEW j \in 1..(m - 1) PROVE s[j] # v
        <5>1. m \in 1..Len(s)
          BY <2>1, <3>1
        <5>2. j \in DOMAIN s /\ ~(m <= j)
          BY <2>1, <5>1
        <5>3. QED BY <3>1, <5>2
      <4>2. QED BY <3>1, <4>1
    <3>3. QED BY <3>2 DEF First
  <2>4. Discard(s, v) = Result(RemoveAt(s, f), v)
    BY <1>4 DEF Discard
  <2>5. Includes(RemoveAt(s, f), v) <=> P # {f}
    <3> HIDE DEF f
    <3>1. f \in 1..Len(s) /\ f \in Int
      BY <2>1, <2>3
    <3> DEFINE r == RemoveAt(s, f)
    <3>2. /\ DOMAIN r = 1..(Len(s) - 1)
          /\ \A i \in 1..(Len(s) - 1) : r[i] = IF i < f THEN s[i] ELSE s[i + 1]
      <4>1. r \in Seq(Stored) /\ Len(r) = Len(s) - 1
            /\ \A i \in 1..(Len(s) - 1) : r[i] = IF i < f THEN s[i] ELSE s[i + 1]
        BY <3>1, Removed
      <4> HIDE DEF r
      <4>2. QED BY <4>1
    <3> HIDE DEF r
    <3>3. ASSUME NEW i \in DOMAIN r, r[i] = v PROVE \E j \in P : j # f
      <4>1. i \in 1..(Len(s) - 1) /\ i \in Int /\ i \in 1..Len(s) /\ i + 1 \in 1..Len(s)
        BY <2>1, <3>2
      <4>2. CASE i < f
        <5>1. i \in P /\ i # f
          BY <2>1, <3>1, <3>2, <3>3, <4>1, <4>2
        <5>2. QED BY <5>1
      <4>3. CASE ~(i < f)
        <5>1. i + 1 \in P /\ i + 1 # f
          BY <2>1, <3>1, <3>2, <3>3, <4>1, <4>3
        <5>2. QED BY <5>1
      <4>4. QED BY <4>2, <4>3
    <3>4. ASSUME NEW j \in P, j # f PROVE \E i \in DOMAIN r : r[i] = v
      <4>1. j \in 1..Len(s) /\ j \in Int /\ s[j] = v
        BY <2>1
      <4>2. CASE j < f
        <5>1. j \in 1..(Len(s) - 1)
          BY <2>1, <3>1, <4>1, <4>2
        <5>2. QED BY <3>2, <4>1, <4>2, <5>1
      <4>3. CASE j > f
        <5>1. j - 1 \in 1..(Len(s) - 1) /\ ~(j - 1 < f) /\ (j - 1) + 1 = j
          BY <2>1, <3>1, <4>1, <4>3
        <5>2. r[j - 1] = v
          BY <3>2, <4>1, <5>1
        <5>3. QED BY <3>2, <5>1, <5>2
      <4>4. QED BY <3>1, <3>4, <4>1, <4>2, <4>3
    <3>5. Includes(r, v) <=> \E j \in P : j # f
      BY <3>3, <3>4 DEF Includes
    <3>6. QED BY <2>3, <3>5 DEF r
  <2>6. Cardinality(P) = 1 <=> P = {f}
    <3>1. IsFiniteSet(P)
      <4>1. IsFiniteSet(1..Len(s))
        BY <2>1, FS_Interval
      <4> HIDE DEF P
      <4>2. QED BY <2>2, <4>1, FS_Subset
    <3> HIDE DEF P, f
    <3>2. (Cardinality(P) = 1) <=> \E x : P = {x}
      BY <3>1, FS_Singleton
    <3>3. QED BY <2>3, <3>2
  <2> HIDE DEF P, f
  <2>7. Delete(s, v).answer = IF v = "none" /\ ~Includes(RemoveAt(s, f), v) THEN Raised ELSE v
    BY <1>2, <2>4 DEF Delete
  <2>8. (Delete(s, v).answer = Raised) = (v = "none" /\ Cardinality(P) = 1)
    BY <1>1, <2>5, <2>6, <2>7
  <2>9. QED BY <1>4, <2>8 DEF P
<1>5. QED BY <1>3, <1>4

\* Items are found from either end, and not beyond.
LEMMA ItemsAlike ==
  ASSUME NEW s \in Seq(Stored)
  PROVE  /\ \A i \in DOMAIN s :
              /\ Item(s, i - 1) = s[i] /\ Item(s, i - 1 - Len(s)) = s[i]
              /\ ReverseWithIndex(s)[i] = <<Item(s, -i), Len(s) - i>>
         /\ Item(s, Len(s)) = Raised /\ Item(s, -Len(s) - 1) = Raised
<1>1. Len(s) \in Nat /\ DOMAIN s = 1..Len(s)
  OBVIOUS
<1>2. Item(s, Len(s)) = Raised /\ Item(s, -Len(s) - 1) = Raised
  BY <1>1 DEF Item
<1>3. ASSUME NEW i \in DOMAIN s
      PROVE  /\ Item(s, i - 1) = s[i] /\ Item(s, i - 1 - Len(s)) = s[i]
             /\ ReverseWithIndex(s)[i] = <<Item(s, -i), Len(s) - i>>
  <2>1. /\ i \in Int /\ 1 <= i /\ i <= Len(s) /\ i - 1 \in 0..(Len(s) - 1)
        /\ Len(s) + 1 - i \in 1..Len(s) /\ Len(s) - i \in 0..(Len(s) - 1)
    BY <1>1
  <2>2. Item(s, i - 1) = s[i]
    BY <1>1, <2>1 DEF Item
  <2>3. Item(s, i - 1 - Len(s)) = s[i]
    <3>1. i - 1 - Len(s) < 0 /\ (i - 1 - Len(s)) + Len(s) = i - 1 /\ (i - 1) + 1 = i
      BY <1>1, <2>1
    <3>2. QED BY <2>1, <3>1 DEF Item
  <2>4. Item(s, -i) = s[Len(s) + 1 - i]
    <3>1. -i < 0 /\ -i + Len(s) = Len(s) - i /\ (Len(s) - i) + 1 = Len(s) + 1 - i
      BY <1>1, <2>1
    <3>2. QED BY <2>1, <3>1 DEF Item
  <2>5. ReverseWithIndex(s)[i] = <<s[Len(s) + 1 - i], Len(s) - i>>
    BY <1>1 DEF ReverseWithIndex, ReverseIterate
  <2>6. QED BY <2>2, <2>3, <2>4, <2>5
<1>4. QED BY <1>2, <1>3

\* What is seen, with what an iteration adds to it.
Things == Stored \cup {"new", Raised}
Walks == [now : Seq(Things), seen : Seq(Things)]

\* One step of an iteration keeps its state in Walks.
LEMMA OneAdvance ==
  ASSUME NEW st \in Walks, NEW i, NEW change
  PROVE  Advance(st, i, change) \in Walks
<1>1. st.now \in Seq(Things) /\ st.seen \in Seq(Things) /\ "new" \in Things /\ Raised \in Things
  BY DEF Walks, Things
<1>2. Changed(st.now, change) \in Seq(Things)
  <2>1. Append(st.now, "new") \in Seq(Things)
    BY <1>1
  <2>2. st.now # <<>> => Tail(st.now) \in Seq(Things)
    BY <1>1
  <2>3. QED BY <1>1, <2>1, <2>2 DEF Changed
<1>3. i \in DOMAIN st.now => st.now[i] \in Things
  BY <1>1
<1>4. /\ Append(st.seen, Raised) \in Seq(Things)
      /\ i \in DOMAIN st.now => Append(st.seen, st.now[i]) \in Seq(Things)
  BY <1>1, <1>3
<1>5. QED BY <1>1, <1>2, <1>4 DEF Advance, Walks

\* What an iteration does, one item after the other.
LEMMA IterateSteps ==
  ASSUME NEW s \in Seq(Stored), NEW altered
  PROVE  \E after \in [0..Len(s) -> Walks] :
           /\ Iterate(s, altered) = after[Len(s)].seen
           /\ after[0] = [now |-> s, seen |-> <<>>]
           /\ \A i \in 1..Len(s) : after[i] = Advance(after[i - 1], i, altered[i])
<1> DEFINE n == Len(s)
           c == [now |-> s, seen |-> <<>>]
           H == [i \in 1..n |-> [st \in Walks |-> Advance(st, i, altered[i])]]
           Body(g) == [i \in 0..n |-> IF i = 0 THEN [now |-> s, seen |-> <<>>]
                                      ELSE Advance(g[i - 1], i, altered[i])]
           after == CHOOSE g : g = Body(g)
<1>1. Iterate(s, altered) = after[n].seen
  BY DEF Iterate
<1>2. c \in Walks
  <2>1. s \in Seq(Things) /\ <<>> \in Seq(Things)
    BY DEF Things
  <2>2. QED BY <2>1 DEF Walks
<1>3. H \in [1..n -> [Walks -> Walks]]
  <2>1. \A i \in 1..n, st \in Walks : Advance(st, i, altered[i]) \in Walks
    BY OneAdvance
  <2>2. QED BY <2>1
<1>4. \A i \in 1..n, st \in Walks : H[i][st] = Advance(st, i, altered[i])
  OBVIOUS
<1>0. n \in Nat
  OBVIOUS
<1> HIDE DEF c, H, n
<1>5. PICK g \in [0..n -> Walks] : Recurs(g, n, c, H)
  BY <1>0, <1>2, <1>3, Recursion
<1>6. \A i \in 0..n : i # 0 => i \in 1..n /\ i - 1 \in 0..n
  BY <1>0
<1>7. \A i \in 0..n : g[i] = IF i = 0 THEN c ELSE Advance(g[i - 1], i, altered[i])
  BY <1>4, <1>5, <1>6 DEF Recurs
<1>8. g = Body(g)
  BY <1>5, <1>7 DEF c
<1>9. after = Body(after)
  BY <1>8
<1> HIDE DEF after
<1>10. \A i \in 0..n : after[i] = IF i = 0 THEN c ELSE Advance(after[i - 1], i, altered[i])
  <2>1. \A i \in 0..n : Body(after)[i] = IF i = 0 THEN c ELSE Advance(after[i - 1], i, altered[i])
    BY DEF c
  <2> HIDE DEF Body
  <2>2. QED BY <1>9, <2>1
<1>11. 0 \in 0..n
  BY <1>0
<1>12. after = [i \in 0..n |-> after[i]]
  BY <1>9
<1>13. g = [i \in 0..n |-> g[i]]
  BY <1>5
<1>14. \A i \in 1..n : after[i - 1] = g[i - 1] => after[i] = g[i]
  BY <1>0, <1>7, <1>10
<1>15. after[0] = g[0]
  BY <1>7, <1>10, <1>11
<1>16. Alike(g, after, n)
  BY <1>12, <1>13, <1>14, <1>15 DEF Alike
<1>17. after = g
  BY <1>0, <1>16, OneRecursion
<1>18. QED BY <1>0, <1>1, <1>5, <1>6, <1>7, <1>17 DEF n, c

\* What an iteration has seen after i items; without a shift, the first i.
LEMMA IterateIs ==
  ASSUME NEW s \in Seq(Stored), NEW altered
  PROVE  /\ Len(Iterate(s, altered)) <= Len(s)
         /\ (\A i \in DOMAIN s : altered[i] # "shift") => Iterate(s, altered) = s
<1> DEFINE n == Len(s)
<1>0. n \in Nat /\ DOMAIN s = 1..n
  OBVIOUS
<1>1. PICK after \in [0..n -> Walks] :
        /\ Iterate(s, altered) = after[n].seen
        /\ after[0] = [now |-> s, seen |-> <<>>]
        /\ \A i \in 1..n : after[i] = Advance(after[i - 1], i, altered[i])
  BY IterateSteps
<1>2. \A i \in 1..n : i \in 0..n /\ i - 1 \in 0..n
  BY <1>0
<1>3. \A i \in 0..n : after[i].now \in Seq(Things) /\ after[i].seen \in Seq(Things)
  BY DEF Walks
<1>4. Len(Iterate(s, altered)) <= n
  <2> DEFINE S == {i \in 0..n : Len(after[i].seen) <= i}
  <2>1. 0 \in S
    BY <1>0, <1>1
  <2>2. ASSUME NEW i \in 1..n, i - 1 \in S PROVE i \in S
    <3> DEFINE st == after[i - 1]
    <3>1. /\ st.seen \in Seq(Things) /\ Len(st.seen) <= i - 1 /\ i \in 0..n
          /\ after[i] = Advance(st, i, altered[i])
      BY <1>1, <1>2, <1>3, <2>2
    <3> HIDE DEF st
    <3>2. \/ after[i].seen = st.seen
          \/ \E x : after[i].seen = Append(st.seen, x)
      <4>1. \/ Advance(st, i, altered[i]).seen = st.seen
            \/ Advance(st, i, altered[i]).seen = Append(st.seen, st.now[i])
            \/ Advance(st, i, altered[i]).seen = Append(st.seen, Raised)
        BY DEF Advance
      <4>2. QED BY <3>1, <4>1
    <3>3. \A x : Len(Append(st.seen, x)) = Len(st.seen) + 1
      BY <3>1
    <3>4. Len(after[i].seen) <= i
      BY <3>1, <3>2, <3>3
    <3>5. QED BY <3>1, <3>4
  <2> HIDE DEF S
  <2>3. \A i \in 0..n : i \in S
    BY <1>0, <2>1, <2>2, Stepwise
  <2>4. n \in S
    BY <1>0, <2>3
  <2>5. QED BY <1>1, <2>4 DEF S
<1>5. ASSUME \A i \in DOMAIN s : altered[i] # "shift"
      PROVE  Iterate(s, altered) = s
  <2> DEFINE S == {i \in 0..n :
                /\ Len(after[i].now) >= n /\ \A j \in 1..n : after[i].now[j] = s[j]
                /\ Len(after[i].seen) = i /\ \A j \in 1..i : after[i].seen[j] = s[j]}
  <2>1. 0 \in S
    BY <1>0, <1>1
  <2>2. ASSUME NEW i \in 1..n, i - 1 \in S PROVE i \in S
    <3> DEFINE st == after[i - 1]
               q == st.now
               seen == st.seen
    <3>1. /\ q \in Seq(Things) /\ Len(q) >= n /\ \A j \in 1..n : q[j] = s[j]
          /\ seen \in Seq(Things) /\ Len(seen) = i - 1 /\ \A j \in 1..(i - 1) : seen[j] = s[j]
      BY <1>2, <1>3, <2>2
    <3>2. after[i] = Advance(st, i, altered[i]) /\ i \in 0..n /\ i \in Int
      BY <1>1, <1>2
    <3> HIDE DEF st
    <3>3. Raised \notin ToSet(seen)
      <4>1. \A j \in 1..(i - 1) : s[j] # Raised
        BY <1>0, StoredAssumption
      <4>2. DOMAIN seen = 1..(i - 1)
        BY <3>1
      <4>3. QED BY <3>1, <4>1, <4>2 DEF ToSet
    <3>4. i \in DOMAIN q
      BY <1>0, <3>1
    <3>5. after[i] = [now |-> Changed(q, altered[i]), seen |-> Append(seen, s[i])]
      BY <3>1, <3>2, <3>3, <3>4 DEF Advance
    <3>6. Changed(q, altered[i]) = q \/ Changed(q, altered[i]) = Append(q, "new")
      BY <1>0, <2>2, <1>5 DEF Changed
    <3>7. /\ Len(Append(q, "new")) >= n /\ \A j \in 1..n : Append(q, "new")[j] = s[j]
      BY <1>0, <3>1
    <3>8. /\ Len(Append(seen, s[i])) = i /\ \A j \in 1..i : Append(seen, s[i])[j] = s[j]
      BY <3>1, <3>2
    <3> HIDE DEF q, seen
    <3>9. /\ Len(after[i].now) >= n /\ \A j \in 1..n : after[i].now[j] = s[j]
      <4>1. after[i].now = q \/ after[i].now = Append(q, "new")
        BY <3>5, <3>6
      <4>2. QED BY <3>1, <3>7, <4>1
    <3>10. /\ Len(after[i].seen) = i /\ \A j \in 1..i : after[i].seen[j] = s[j]
      BY <3>5, <3>8
    <3>11. QED BY <3>2, <3>9, <3>10
  <2> HIDE DEF S
  <2>3. \A i \in 0..n : i \in S
    BY <1>0, <2>1, <2>2, Stepwise
  <2>4. n \in S /\ n \in 0..n
    BY <1>0, <2>3
  <2> DEFINE seen == after[n].seen
  <2>5. seen \in Seq(Things) /\ Len(seen) = n /\ \A j \in 1..n : seen[j] = s[j]
    BY <1>3, <2>4 DEF S
  <2>6. s \in Seq(Things)
    BY DEF Things
  <2> HIDE DEF seen
  <2>7. seen = s
    BY <2>5, <2>6, SeqEqual
  <2>8. QED BY <1>1, <2>7 DEF seen
<1>6. QED BY <1>4, <1>5

\* All that CollectionsLikeList says.
LEMMA ListsAlike ==
  ASSUME NEW s \in Seq(Stored), NEW v \in Stored, NEW altered
  PROVE  CollectionsLikeList(s, v, altered)
<1>1. Delete(s, v).contents = Discard(s, v).contents
  <2>1. \A c, a : Result(c, a).contents = c
    BY DEF Result
  <2>2. QED BY <2>1 DEF Delete
<1>2. QED BY <1>1, DeleteAnswers, ItemsAlike, IterateIs DEF CollectionsLikeList

-----------------------------------------------------------------------------
(* Logs.                                                                   *)

\* What DeleteInTurn does, one delete after the other.
LEMMA DeleteSteps ==
  ASSUME NEW log \in Seq(Stored), NEW order \in Seq(Nat), NEW added \in Seq(Stored),
         ToSet(order) \subseteq DOMAIN log
  PROVE  \E after \in [0..Len(order) -> Seq(Stored)] :
           /\ DeleteInTurn(log, order, added) = after[Len(order)]
           /\ after[0] = log
           /\ \A i \in 1..Len(order) :
                after[i] = (IF order[i] <= Len(after[i - 1]) THEN RemoveAt(after[i - 1], order[i])
                            ELSE after[i - 1]) \o added
<1> DEFINE n == Len(order)
           snapshot == Entries(log)
           c == log
           One(st, i) == DeleteEntry(st, snapshot[order[i]]) \o added
           H == [i \in 1..n |-> [st \in Seq(Stored) |-> One(st, i)]]
           Body(g) == [i \in 0..n |-> IF i = 0 THEN log
                                      ELSE DeleteEntry(g[i - 1], snapshot[order[i]]) \o added]
           after == CHOOSE g : g = Body(g)
<1>0. n \in Nat /\ \A i \in 1..n : order[i] \in 1..Len(log) /\ order[i] \in Nat
  <2>1. n \in Nat /\ DOMAIN order = 1..n /\ DOMAIN log = 1..Len(log)
    OBVIOUS
  <2>2. ASSUME NEW i \in 1..n PROVE order[i] \in 1..Len(log) /\ order[i] \in Nat
    <3>1. order[i] \in ToSet(order)
      BY <2>1 DEF ToSet
    <3>2. QED BY <2>1, <3>1
  <2>3. QED BY <2>1, <2>2
<1>1. DeleteInTurn(log, order, added) = after[n]
  BY DEF DeleteInTurn
<1>2. ASSUME NEW i \in 1..n, NEW st \in Seq(Stored)
      PROVE  /\ One(st, i) = (IF order[i] <= Len(st) THEN RemoveAt(st, order[i]) ELSE st) \o added
             /\ One(st, i) \in Seq(Stored)
  <2>1. DOMAIN log = 1..Len(log) /\ order[i] \in DOMAIN log /\ order[i] \in Nat /\ order[i] >= 1
    BY <1>0
  <2>2. snapshot[order[i]].index = order[i] - 1
    BY <2>1 DEF Entries
  <2> HIDE DEF snapshot
  <2>3. (order[i] - 1) + 1 = order[i]
    BY <2>1
  <2>4. DeleteEntry(st, snapshot[order[i]]) =
          IF order[i] <= Len(st) THEN RemoveAt(st, order[i]) ELSE st
    BY <2>2, <2>3 DEF DeleteEntry
  <2>5. order[i] <= Len(st) => RemoveAt(st, order[i]) \in Seq(Stored)
    <3>1. SUFFICES ASSUME order[i] <= Len(st) PROVE RemoveAt(st, order[i]) \in Seq(Stored)
      OBVIOUS
    <3>2. order[i] \in 1..Len(st)
      BY <2>1, <3>1
    <3>3. QED BY <3>2, Removed
  <2>6. DeleteEntry(st, snapshot[order[i]]) \in Seq(Stored)
    BY <2>4, <2>5
  <2>7. One(st, i) \in Seq(Stored)
    BY <2>6, ConcatProperties
  <2>8. QED BY <2>4, <2>7
<1> HIDE DEF One, snapshot
<1>3. H \in [1..n -> [Seq(Stored) -> Seq(Stored)]]
  BY <1>2
<1>4. \A i \in 1..n, st \in Seq(Stored) : H[i][st] = One(st, i)
  OBVIOUS
<1>17. c \in Seq(Stored)
  OBVIOUS
<1> HIDE DEF c, H, n
<1>5. PICK g \in [0..n -> Seq(Stored)] : Recurs(g, n, c, H)
  BY <1>0, <1>3, <1>17, Recursion
<1>6. \A i \in 0..n : i # 0 => i \in 1..n /\ i - 1 \in 0..n
  BY <1>0
<1>7. \A i \in 0..n : g[i] = IF i = 0 THEN c ELSE One(g[i - 1], i)
  BY <1>4, <1>5, <1>6 DEF Recurs
<1>8. g = Body(g)
  BY <1>5, <1>7 DEF c, One
<1>9. after = Body(after)
  BY <1>8
<1> HIDE DEF after
<1>10. \A i \in 0..n : after[i] = IF i = 0 THEN c ELSE One(after[i - 1], i)
  <2>1. \A i \in 0..n : Body(after)[i] = IF i = 0 THEN c ELSE One(after[i - 1], i)
    BY DEF c, One
  <2> HIDE DEF Body
  <2>2. QED BY <1>9, <2>1
<1>11. 0 \in 0..n
  BY <1>0
<1>12. after = [i \in 0..n |-> after[i]]
  BY <1>9
<1>13. g = [i \in 0..n |-> g[i]]
  BY <1>5
<1>14. \A i \in 1..n : after[i - 1] = g[i - 1] => after[i] = g[i]
  BY <1>0, <1>7, <1>10
<1>15. after[0] = g[0]
  BY <1>7, <1>10, <1>11
<1>16. after = g
  <2>1. Alike(g, after, n)
    BY <1>12, <1>13, <1>14, <1>15 DEF Alike
  <2>2. QED BY <1>0, <2>1, OneRecursion
<1>18. \A i \in 1..n : i \in 0..n /\ i # 0 /\ g[i - 1] \in Seq(Stored)
  BY <1>0, <1>5, <1>6
<1>19. g[0] = log
  BY <1>7, <1>11 DEF c
<1>20. \A i \in 1..n :
         g[i] = (IF order[i] <= Len(g[i - 1]) THEN RemoveAt(g[i - 1], order[i])
                 ELSE g[i - 1]) \o added
  BY <1>2, <1>7, <1>18
<1>21. DeleteInTurn(log, order, added) = g[n]
  BY <1>1, <1>16
<1>22. QED BY <1>5, <1>19, <1>20, <1>21 DEF n

\* The places deleted with the first i, those of them before q, and the last,
\* which is the lowest.
Asked(order, i) == {order[j] : j \in 1..i}
Before(order, i, q) == {a \in Asked(order, i) : a < q}
Lowest(order, n, i) == IF i = 0 THEN n + 1 ELSE order[i]
Descends(order, n) ==
  /\ \A i \in 1..Len(order) : order[i] \in 1..n
  /\ \A i, j \in 1..Len(order) : i < j => order[i] > order[j]

\* What is deleted is in the log, and not below the last, which is low enough.
LEMMA LowestIs ==
  ASSUME NEW n \in Nat, NEW order \in Seq(Nat), Descends(order, n)
  PROVE  /\ \A i \in 0..Len(order) : /\ Lowest(order, n, i) \in Nat
                                     /\ Lowest(order, n, i) <= n - i + 1
         /\ \A i \in 1..Len(order) : order[i] < Lowest(order, n, i - 1)
         /\ \A i \in 0..Len(order) : \A a \in Asked(order, i) : a \in 1..n /\ Lowest(order, n, i) <= a
<1> DEFINE m == Len(order)
<1>0. m \in Nat /\ \A i \in 1..m : order[i] \in 1..n /\ order[i] \in Nat /\ order[i] <= n /\ 1 <= order[i]
  BY DEF Descends
<1>1. \A i \in 0..m : Lowest(order, n, i) \in Nat
  BY <1>0 DEF Lowest
<1>2. ASSUME NEW i \in 1..m PROVE order[i] < Lowest(order, n, i - 1)
  <2>1. CASE i = 1
    BY <1>0, <2>1 DEF Lowest
  <2>2. CASE i # 1
    <3>1. i - 1 \in 1..m /\ i - 1 < i /\ i - 1 # 0
      BY <1>0, <2>2
    <3>2. QED BY <3>1 DEF Lowest, Descends
  <2>3. QED BY <2>1, <2>2
<1>3. \A i \in 0..m : Lowest(order, n, i) <= n - i + 1
  <2> DEFINE S == {i \in 0..m : Lowest(order, n, i) <= n - i + 1}
  <2>1. 0 \in S
    BY <1>0 DEF Lowest
  <2>2. ASSUME NEW i \in 1..m, i - 1 \in S PROVE i \in S
    <3>1. i \in 0..m /\ i \in Int /\ i - 1 \in 0..m /\ Lowest(order, n, i) = order[i]
      BY <1>0 DEF Lowest
    <3>2. Lowest(order, n, i - 1) <= n - (i - 1) + 1 /\ order[i] < Lowest(order, n, i - 1)
      BY <1>2, <2>2
    <3>3. Lowest(order, n, i - 1) \in Nat /\ order[i] \in Nat
      BY <1>0, <1>1, <3>1
    <3>4. order[i] <= n - i + 1
      BY <3>1, <3>2, <3>3
    <3>5. QED BY <3>1, <3>4
  <2> HIDE DEF S
  <2>3. \A i \in 0..m : i \in S
    BY <1>0, <2>1, <2>2, Stepwise
  <2>4. QED BY <2>3 DEF S
<1>4. ASSUME NEW i \in 0..m, NEW a \in Asked(order, i)
      PROVE  a \in 1..n /\ Lowest(order, n, i) <= a
  <2>1. PICK j \in 1..i : a = order[j]
    BY DEF Asked
  <2>2. j \in 1..m /\ i \in 1..m /\ i # 0 /\ (j < i \/ j = i)
    BY <1>0, <2>1
  <2>3. order[i] <= order[j]
    <3>1. j < i => order[j] > order[i]
      BY <2>2 DEF Descends
    <3>2. QED BY <1>0, <2>2, <3>1
  <2>4. QED BY <1>0, <2>1, <2>2, <2>3 DEF Lowest
<1>5. QED BY <1>1, <1>2, <1>3, <1>4

\* One delete more is one place more before all that are above it.
LEMMA BeforeIs ==
  ASSUME NEW n \in Nat, NEW order \in Seq(Nat), Descends(order, n)
  PROVE  /\ \A i \in 0..Len(order), q \in 1..n :
              /\ IsFiniteSet(Before(order, i, q))
              /\ q <= Lowest(order, n, i) => Before(order, i, q) = {}
         /\ \A i \in 1..Len(order) :
              /\ Asked(order, i) = Asked(order, i - 1) \cup {order[i]}
              /\ order[i] \notin Asked(order, i - 1)
         /\ \A i \in 1..Len(order), q \in 1..n :
              q > order[i] => Before(order, i, q) = Before(order, i - 1, q) \cup {order[i]}
<1> DEFINE m == Len(order)
<1>0. m \in Nat /\ \A i \in 1..m : order[i] \in Nat
  BY DEF Descends
<1>1. ASSUME NEW i \in 0..m, NEW q \in 1..n
      PROVE  /\ IsFiniteSet(Before(order, i, q))
             /\ q <= Lowest(order, n, i) => Before(order, i, q) = {}
  <2>1. \A a \in Asked(order, i) : a \in 1..n /\ Lowest(order, n, i) <= a
    BY LowestIs
  <2>2. Before(order, i, q) \in SUBSET (1..n)
    BY <2>1 DEF Before
  <2>3. IsFiniteSet(1..n)
    BY FS_Interval
  <2>4. IsFiniteSet(Before(order, i, q))
    BY <2>2, <2>3, FS_Subset
  <2>5. Lowest(order, n, i) \in Nat
    BY LowestIs
  <2>6. q <= Lowest(order, n, i) => Before(order, i, q) = {}
    BY <2>1, <2>5 DEF Before
  <2>7. QED BY <2>4, <2>6
<1>2. ASSUME NEW i \in 1..m
      PROVE  /\ Asked(order, i) = Asked(order, i - 1) \cup {order[i]}
             /\ order[i] \notin Asked(order, i - 1)
  <2>1. 1..i = (1..(i - 1)) \cup {i} /\ i \in 0..m /\ i - 1 \in 0..m
    BY <1>0
  <2>2. Asked(order, i) = Asked(order, i - 1) \cup {order[i]}
    BY <2>1 DEF Asked
  <2>3. \A a \in Asked(order, i - 1) : a \in 1..n /\ Lowest(order, n, i - 1) <= a
    BY <2>1, LowestIs
  <2>4. order[i] < Lowest(order, n, i - 1) /\ Lowest(order, n, i - 1) \in Nat
    BY <2>1, LowestIs
  <2>5. order[i] \notin Asked(order, i - 1)
    BY <1>0, <2>3, <2>4
  <2>6. QED BY <2>2, <2>5
<1>3. ASSUME NEW i \in 1..m, NEW q \in 1..n, q > order[i]
      PROVE  Before(order, i, q) = Before(order, i - 1, q) \cup {order[i]}
  BY <1>0, <1>2, <1>3 DEF Before
<1>4. QED BY <1>1, <1>2, <1>3

\* Where the entry q of the log is after the first i deletes.
Place(order, i, q) == q - Cardinality(Before(order, i, q))

\* So an entry above the last delete moves down by one, and one below it stays.
LEMMA PlaceIs ==
  ASSUME NEW n \in Nat, NEW order \in Seq(Nat), Descends(order, n)
  PROVE  /\ \A i \in 0..Len(order), q \in 1..n : Place(order, i, q) \in Int
         /\ \A i \in 0..Len(order), q \in 1..n :
              q <= Lowest(order, n, i) => Place(order, i, q) = q
         /\ \A i \in 1..Len(order), q \in 1..n :
              q > order[i] => Place(order, i, q) = Place(order, i - 1, q) - 1
<1> DEFINE m == Len(order)
<1>0. m \in Nat /\ \A i \in 1..m : order[i] \in Nat /\ i \in 0..m /\ i - 1 \in 0..m
  BY DEF Descends
<1>1. ASSUME NEW i \in 0..m, NEW q \in 1..n
      PROVE  /\ Cardinality(Before(order, i, q)) \in Nat
             /\ q <= Lowest(order, n, i) => Cardinality(Before(order, i, q)) = 0
  <2>1. IsFiniteSet(Before(order, i, q))
    BY BeforeIs
  <2>2. Cardinality(Before(order, i, q)) \in Nat
    BY <2>1, FS_CardinalityType
  <2>3. q <= Lowest(order, n, i) => Before(order, i, q) = {}
    BY BeforeIs
  <2>4. QED BY <2>2, <2>3, FS_EmptySet
<1>2. ASSUME NEW i \in 1..m, NEW q \in 1..n, q > order[i]
      PROVE  Cardinality(Before(order, i, q)) = Cardinality(Before(order, i - 1, q)) + 1
  <2>1. Before(order, i, q) = Before(order, i - 1, q) \cup {order[i]}
    BY <1>2, BeforeIs
  <2>2. IsFiniteSet(Before(order, i - 1, q))
    BY <1>0, BeforeIs
  <2>3. order[i] \notin Before(order, i - 1, q)
    BY BeforeIs DEF Before
  <2> DEFINE b == Before(order, i - 1, q)
  <2> HIDE DEF b
  <2>4. Cardinality(b \cup {order[i]}) = IF order[i] \in b THEN Cardinality(b) ELSE Cardinality(b) + 1
    BY <2>2, FS_AddElement DEF b
  <2>5. QED BY <2>1, <2>3, <2>4 DEF b
<1>3. \A i \in 0..m, q \in 1..n : Place(order, i, q) \in Int
  BY <1>1 DEF Place
<1>4. \A i \in 0..m, q \in 1..n : q <= Lowest(order, n, i) => Place(order, i, q) = q
  BY <1>1 DEF Place
<1>5. ASSUME NEW i \in 1..m, NEW q \in 1..n, q > order[i]
      PROVE  Place(order, i, q) = Place(order, i - 1, q) - 1
  <2>1. Cardinality(Before(order, i - 1, q)) \in Nat
    BY <1>0, <1>1
  <2>2. q \in Int
    OBVIOUS
  <2>3. QED BY <1>2, <1>5, <2>1, <2>2 DEF Place
<1>6. QED BY <1>3, <1>4, <1>5

\* The entries that are left after the first i deletes are where they should be.
Left(log, order, i, now) ==
  \A q \in 1..Len(log) : q \notin Asked(order, i) =>
    /\ Place(order, i, q) \in 1..(Len(log) - i)
    /\ now[Place(order, i, q)] = log[q]
    /\ q > Lowest(order, Len(log), i) => Place(order, i, q) >= Lowest(order, Len(log), i)

\* One delete keeps the others where they should be.
LEMMA LeftOne ==
  ASSUME NEW log \in Seq(Stored), NEW order \in Seq(Nat), Descends(order, Len(log)),
         NEW i \in 1..Len(order), NEW now \in Seq(Stored), NEW added \in Seq(Stored),
         Len(now) >= Len(log) - (i - 1), Left(log, order, i - 1, now)
  PROVE  /\ order[i] \in 1..Len(now)
         /\ Left(log, order, i, RemoveAt(now, order[i]) \o added)
         /\ RemoveAt(now, order[i]) \o added \in Seq(Stored)
         /\ Len(RemoveAt(now, order[i]) \o added) = Len(now) - 1 + Len(added)
<1> DEFINE n == Len(log)
           p == order[i]
           low == Lowest(order, n, i - 1)
           r == RemoveAt(now, p)
<1>0. n \in Nat /\ i \in Nat /\ i - 1 \in 0..Len(order) /\ i \in 0..Len(order) /\ Len(added) \in Nat
  OBVIOUS
<1>1. p \in 1..n /\ p \in Nat /\ p <= n - i + 1 /\ p < low /\ low \in Nat
  <2>1. Lowest(order, n, i) <= n - i + 1 /\ Lowest(order, n, i) = p
    <3>1. Lowest(order, n, i) <= n - i + 1
      BY <1>0, LowestIs
    <3>2. QED BY <1>0, <3>1 DEF Lowest
  <2>2. p < low /\ low \in Nat
    BY <1>0, LowestIs
  <2>3. p \in 1..n
    BY DEF Descends
  <2>4. QED BY <2>1, <2>2, <2>3
<1>8. Len(now) \in Nat /\ Len(now) >= n - (i - 1)
  OBVIOUS
<1>9. /\ Lowest(order, n, i) = p
      /\ \A q \in 1..n : q \notin Asked(order, i) => q # p /\ q \notin Asked(order, i - 1)
  <2>1. Asked(order, i) = Asked(order, i - 1) \cup {p}
    BY BeforeIs
  <2>2. QED BY <1>0, <2>1 DEF Lowest
<1>10. ASSUME NEW q \in 1..n
       PROVE  /\ Place(order, i - 1, q) \in Int /\ Place(order, i, q) \in Int
              /\ q <= low => Place(order, i - 1, q) = q
              /\ q <= p => Place(order, i, q) = q
              /\ q > p => Place(order, i, q) = Place(order, i - 1, q) - 1
  <2>1. Place(order, i - 1, q) \in Int /\ Place(order, i, q) \in Int
    BY <1>0, PlaceIs
  <2>2. /\ q <= low => Place(order, i - 1, q) = q
        /\ q <= Lowest(order, n, i) => Place(order, i, q) = q
    BY <1>0, PlaceIs
  <2>3. q > p => Place(order, i, q) = Place(order, i - 1, q) - 1
    BY PlaceIs
  <2> HIDE DEF p
  <2>4. QED BY <1>9, <2>1, <2>2, <2>3
<1>11. \A q \in 1..n : q \notin Asked(order, i - 1) =>
         /\ Place(order, i - 1, q) \in 1..(n - (i - 1)) /\ now[Place(order, i - 1, q)] = log[q]
         /\ q > low => Place(order, i - 1, q) >= low
  BY DEF Left
<1> HIDE DEF p, low, n
<1>2. p \in 1..Len(now)
  BY <1>0, <1>1, <1>8
<1>3. /\ r \in Seq(Stored) /\ Len(r) = Len(now) - 1
      /\ \A k \in 1..(Len(now) - 1) : r[k] = IF k < p THEN now[k] ELSE now[k + 1]
  BY <1>2, Removed
<1> HIDE DEF r
<1>4. /\ r \o added \in Seq(Stored) /\ Len(r \o added) = Len(now) - 1 + Len(added)
      /\ \A k \in 1..(Len(now) - 1) : (r \o added)[k] = IF k < p THEN now[k] ELSE now[k + 1]
  <2>1. /\ r \o added \in Seq(Stored) /\ Len(r \o added) = Len(r) + Len(added)
        /\ \A k \in 1..(Len(r) + Len(added)) :
             (r \o added)[k] = IF k <= Len(r) THEN r[k] ELSE added[k - Len(r)]
    BY <1>3, ConcatProperties
  <2>2. \A k \in 1..(Len(now) - 1) : k \in 1..(Len(r) + Len(added)) /\ k <= Len(r)
    BY <1>0, <1>3, <1>8
  <2> HIDE DEF r
  <2>3. QED BY <1>3, <2>1, <2>2
<1>5. ASSUME NEW q \in 1..n, q \notin Asked(order, i)
      PROVE  /\ Place(order, i, q) \in 1..(n - i)
             /\ (r \o added)[Place(order, i, q)] = log[q]
             /\ q > Lowest(order, n, i) => Place(order, i, q) >= Lowest(order, n, i)
  <2> DEFINE o == Place(order, i - 1, q)
             at == Place(order, i, q)
             s == r \o added
  <2>1. q \in Int /\ q # p /\ 1 <= q /\ q <= n
    BY <1>0, <1>5, <1>9
  <2>6. o \in 1..(n - (i - 1)) /\ (q > low => o >= low)
    BY <1>5, <1>9, <1>11
  <2>7. now[o] = log[q]
    BY <1>5, <1>9, <1>11
  <2>8. n \in Nat /\ i \in Nat
    BY <1>0
  <2>2. /\ o \in Int /\ at \in Int
        /\ q <= low => o = q
        /\ q <= p => at = q
        /\ q > p => at = o - 1
    BY <1>10
  <2>3. \A k \in 1..(Len(now) - 1) : s[k] = IF k < p THEN now[k] ELSE now[k + 1]
    BY <1>4
  <2> HIDE DEF o, at, s
  <2>4. at \in 1..(n - i) /\ s[at] = log[q] /\ (q > p => at >= p)
    <3>1. CASE q < p
      <4>6. q <= low /\ q <= p
        BY <1>1, <2>1, <2>8, <3>1
      <4>1. o = q /\ at = q
        BY <2>2, <4>6
      <4>2. q \in 1..(n - i) /\ q \in 1..(Len(now) - 1)
        BY <1>1, <1>8, <2>1, <2>8, <3>1
      <4>3. s[q] = log[q]
        BY <2>3, <2>7, <3>1, <4>1, <4>2
      <4>4. ~(q > p)
        BY <1>1, <2>1, <3>1
      <4>5. QED BY <4>1, <4>2, <4>3, <4>4
    <3>2. CASE q > p
      <4>1. at = o - 1 /\ o > p
        BY <1>1, <2>1, <2>2, <2>6, <3>2
      <4>2. at \in 1..(n - i) /\ at \in 1..(Len(now) - 1) /\ ~(at < p) /\ at + 1 = o /\ at >= p
        BY <1>1, <1>8, <2>2, <2>6, <2>8, <4>1
      <4>3. s[at] = log[q]
        BY <2>3, <2>7, <4>2
      <4>4. QED BY <4>2, <4>3
    <3>3. QED BY <1>1, <2>1, <3>1, <3>2
  <2>5. QED BY <1>9, <2>4 DEF at, s
<1>6. Left(log, order, i, r \o added)
  BY <1>5 DEF Left, n
<1>7. QED BY <1>2, <1>4, <1>6 DEF r, p

\* All that LogDeletesBackwards says.
LEMMA LogsAlike ==
  ASSUME NEW log \in Seq(Stored), NEW order \in Seq(Nat), NEW added \in Seq(Stored),
         ToSet(order) \subseteq DOMAIN log
  PROVE  LogDeletesBackwards(log, order, added)
<1> DEFINE m == Len(order)
           n == Len(log)
           x == Len(added)
           left == DeleteInTurn(log, order, added)
<1>0. /\ m \in Nat /\ n \in Nat /\ x \in Nat /\ DOMAIN order = 1..m /\ DOMAIN log = 1..n
      /\ \A i \in 1..m : order[i] \in Nat
  OBVIOUS
<1>1. SUFFICES ASSUME \A i, j \in DOMAIN order : i < j => order[i] > order[j]
               PROVE  /\ Len(left) = n - m + m * x
                      /\ \A q \in DOMAIN log \ ToSet(order) :
                           left[q - Cardinality({a \in ToSet(order) : a < q})] = log[q]
  BY DEF LogDeletesBackwards, AskedAreGone
<1>2. Descends(order, n)
  <2>1. \A i \in 1..m : order[i] \in ToSet(order)
    BY <1>0 DEF ToSet
  <2>2. QED BY <1>0, <1>1, <2>1 DEF Descends
<1>3. PICK after \in [0..m -> Seq(Stored)] :
        /\ left = after[m]
        /\ after[0] = log
        /\ \A i \in 1..m :
             after[i] = (IF order[i] <= Len(after[i - 1]) THEN RemoveAt(after[i - 1], order[i])
                         ELSE after[i - 1]) \o added
  BY DeleteSteps
<1> HIDE DEF left
<1> DEFINE S == {i \in 0..m : Len(after[i]) = n - i + i * x /\ Left(log, order, i, after[i])}
<1>4. 0 \in S
  <2>1. 0 \in 0..m /\ Asked(order, 0) = {} /\ Lowest(order, n, 0) = n + 1 /\ n - 0 = n /\ 0 * x = 0
    BY <1>0 DEF Asked, Lowest
  <2>2. \A q \in 1..n : Place(order, 0, q) = q
    <3>1. \A q \in 1..n : q <= Lowest(order, n, 0)
      BY <1>0, <2>1
    <3>2. QED BY <1>0, <1>2, <2>1, <3>1, PlaceIs
  <2>3. \A q \in 1..n : ~(q > n + 1)
    BY <1>0
  <2>4. Left(log, order, 0, log)
    BY <2>1, <2>2, <2>3 DEF Left
  <2>5. n = n - 0 + 0 * x
    <3>1. n \in Nat /\ x \in Nat
      BY <1>0
    <3> HIDE DEF n, x
    <3>2. QED BY <3>1
  <2>6. QED BY <1>3, <2>1, <2>4, <2>5
<1>5. ASSUME NEW i \in 1..m, i - 1 \in S PROVE i \in S
  <2> DEFINE now == after[i - 1]
  <2>1. /\ now \in Seq(Stored) /\ Len(now) = n - (i - 1) + (i - 1) * x
        /\ Left(log, order, i - 1, now) /\ i \in 0..m /\ i \in Nat /\ i >= 1
    <3>1. i - 1 \in 0..m
      BY <1>5
    <3>2. now \in Seq(Stored)
      BY <3>1
    <3>3. Len(now) = n - (i - 1) + (i - 1) * x /\ Left(log, order, i - 1, now)
      BY <1>5
    <3>4. i \in 0..m /\ i \in Nat /\ i >= 1
      BY <1>0
    <3>5. QED BY <3>2, <3>3, <3>4
  <2>2. after[i] = (IF order[i] <= Len(now) THEN RemoveAt(now, order[i]) ELSE now) \o added
    BY <1>3
  <2> HIDE DEF now, S
  <2>3. (i - 1) * x \in Nat
    <3>1. i - 1 \in Nat
      BY <2>1
    <3>2. QED BY <1>0, <3>1
  <2>4. Len(now) >= n - (i - 1)
    BY <1>0, <2>1, <2>3
  <2>5. /\ order[i] \in 1..Len(now)
        /\ Left(log, order, i, RemoveAt(now, order[i]) \o added)
        /\ Len(RemoveAt(now, order[i]) \o added) = Len(now) - 1 + x
    BY <1>2, <2>1, <2>4, LeftOne
  <2>6. order[i] <= Len(now)
    BY <2>1, <2>5
  <2>7. Len(after[i]) = Len(now) - 1 + x /\ Left(log, order, i, after[i])
    BY <2>2, <2>5, <2>6
  <2>8. i * x = (i - 1) * x + x
    BY <1>0, <2>1
  <2>9. Len(after[i]) = n - i + i * x
    <3> DEFINE y == (i - 1) * x
    <3>1. y \in Nat /\ Len(now) = n - (i - 1) + y /\ i * x = y + x
      BY <2>1, <2>3, <2>8
    <3> HIDE DEF y
    <3>2. QED BY <1>0, <2>1, <2>7, <3>1
  <2>10. QED BY <2>1, <2>7, <2>9 DEF S
<1> HIDE DEF S
<1>6. \A i \in 0..m : i \in S
  BY <1>0, <1>4, <1>5, Stepwise
<1>7. Len(left) = n - m + m * x /\ Left(log, order, m, left)
  <2>1. m \in S
    BY <1>0, <1>6
  <2>2. QED BY <1>3, <2>1 DEF S
<1>8. Asked(order, m) = ToSet(order)
  BY <1>0 DEF Asked, ToSet
<1>9. ASSUME NEW q \in DOMAIN log \ ToSet(order)
      PROVE  left[q - Cardinality({a \in ToSet(order) : a < q})] = log[q]
  <2>1. left[Place(order, m, q)] = log[q]
    BY <1>0, <1>7, <1>8 DEF Left
  <2>2. Place(order, m, q) = q - Cardinality({a \in ToSet(order) : a < q})
    BY <1>8 DEF Place, Before
  <2>3. QED BY <2>1, <2>2
<1>10. QED BY <1>7, <1>9

\* All that LogDeletesForwards says: after the first delete the second entry is
\* one place further down than where it is deleted.
LEMMA LogsForwards ==
  ASSUME NEW log \in Seq(Stored), NEW order \in Seq(Nat), NEW added \in Seq(Stored),
         ToSet(order) \subseteq DOMAIN log
  PROVE  LogDeletesForwards(log, order, added)
<1> DEFINE n == Len(log)
           x == Len(added)
           a == order[1]
           b == order[2]
           left == DeleteInTurn(log, order, added)
<1>1. SUFFICES ASSUME Len(order) = 2, a < b
               PROVE  /\ left[b - 1] = log[b]
                      /\ \A i \in (b + 2)..n : left[i - 2] = log[i]
  BY DEF LogDeletesForwards
<1>2. n \in Nat /\ x \in Nat /\ a \in 1..n /\ b \in 1..n
  <2>1. DOMAIN order = 1..2 /\ DOMAIN log = 1..n /\ n \in Nat /\ x \in Nat
    BY <1>1
  <2>2. a \in ToSet(order) /\ b \in ToSet(order)
    BY <2>1 DEF ToSet
  <2>3. QED BY <2>1, <2>2
<1>3. PICK after \in [0..Len(order) -> Seq(Stored)] :
        /\ left = after[Len(order)]
        /\ after[0] = log
        /\ \A i \in 1..Len(order) :
             after[i] = (IF order[i] <= Len(after[i - 1]) THEN RemoveAt(after[i - 1], order[i])
                         ELSE after[i - 1]) \o added
  BY DeleteSteps
<1> DEFINE one == RemoveAt(log, a)
           now == after[1]
<1>4. /\ one \in Seq(Stored) /\ Len(one) = n - 1
      /\ \A i \in 1..(n - 1) : one[i] = IF i < a THEN log[i] ELSE log[i + 1]
  BY <1>2, Removed
<1>5. now = one \o added
  <2>1. 1 \in 1..Len(order) /\ 1 - 1 = 0
    BY <1>1
  <2>2. now = (IF a <= Len(log) THEN RemoveAt(log, a) ELSE log) \o added
    BY <1>3, <2>1
  <2>3. a <= Len(log)
    BY <1>2
  <2>4. QED BY <2>2, <2>3
<1>6. left = (IF b <= Len(now) THEN RemoveAt(now, b) ELSE now) \o added
  <2>1. 2 \in 1..Len(order) /\ 2 - 1 = 1
    BY <1>1
  <2>2. QED BY <1>1, <1>3, <2>1
<1> HIDE DEF one, left
<1>7. /\ now \in Seq(Stored) /\ Len(now) = n - 1 + x
      /\ \A i \in a..(n - 1) : now[i] = log[i + 1]
  <2>1. /\ one \o added \in Seq(Stored) /\ Len(one \o added) = n - 1 + x
        /\ \A i \in 1..(n - 1) : (one \o added)[i] = one[i]
    <3>1. one \o added \in Seq(Stored) /\ Len(one \o added) = Len(one) + x
      BY <1>4, ConcatProperties
    <3>2. \A i \in 1..Len(one) : (one \o added)[i] = one[i]
      BY <1>4, ConcatProperties
    <3>3. QED BY <1>4, <3>1, <3>2
  <2>2. \A i \in a..(n - 1) : i \in 1..(n - 1) /\ ~(i < a)
    BY <1>2
  <2>3. QED BY <1>4, <1>5, <2>1, <2>2
<1> HIDE DEF now, n
<1>8. CASE b <= Len(now)
  <2> DEFINE two == RemoveAt(now, b)
  <2>1. /\ two \in Seq(Stored) /\ Len(two) = Len(now) - 1
        /\ \A i \in 1..(Len(now) - 1) : two[i] = IF i < b THEN now[i] ELSE now[i + 1]
    <3>1. b \in 1..Len(now)
      BY <1>2, <1>7, <1>8
    <3>2. QED BY <1>7, <3>1, Removed
  <2> HIDE DEF two
  <2>2. \A i \in 1..(Len(now) - 1) : left[i] = two[i]
    BY <1>6, <1>8, <2>1, ConcatProperties DEF two
  <2>3. left[b - 1] = log[b]
    <3>1. b - 1 \in 1..(Len(now) - 1) /\ b - 1 < b /\ b - 1 \in a..(n - 1) /\ b - 1 + 1 = b
      BY <1>1, <1>2, <1>7, <1>8
    <3>2. QED BY <1>7, <2>1, <2>2, <3>1
  <2>4. ASSUME NEW i \in (b + 2)..n PROVE left[i - 2] = log[i]
    <3>1. /\ i - 2 \in 1..(Len(now) - 1) /\ ~(i - 2 < b) /\ i - 2 + 1 = i - 1
          /\ i - 1 \in a..(n - 1) /\ i - 1 + 1 = i
      BY <1>1, <1>2, <1>7
    <3>2. QED BY <1>7, <2>1, <2>2, <3>1
  <2>5. QED BY <2>3, <2>4
<1>9. CASE ~(b <= Len(now))
  <2>1. b = n /\ b - 1 \in a..(n - 1) /\ b - 1 + 1 = b /\ b - 1 \in 1..Len(now) /\ (b + 2)..n = {}
    BY <1>1, <1>2, <1>7, <1>9
  <2>2. left = now \o added /\ now \in Seq(Stored)
    BY <1>7, <1>6, <1>9
  <2>3. left[b - 1] = now[b - 1]
    BY <2>1, <2>2, ConcatProperties
  <2>4. now[b - 1] = log[b]
    BY <1>7, <2>1
  <2>5. QED BY <2>1, <2>3, <2>4
<1>10. QED BY <1>8, <1>9

-----------------------------------------------------------------------------
(* Every input of Computations.                                            *)

OtherInputs ==
  \/ MappingInputs(Mappings(Keys), Keys, Written, Seq(Keys \X Written))
  \/ ListInputs(Seq(Stored), Stored)
  \/ LogInputs(Seq(Stored), Seq(Nat), Seq(Stored))

\* They are about a collection.
LEMMA OthersDiffer == OtherInputs => input'.theme \in {"mapping", "list", "log"}
BY DEF OtherInputs, MappingInputs, ListInputs, LogInputs

(* Whatever integer, value or content is converted, and in words of        *)
(* whatever width, the interfaces agree and it comes back as it was        *)
(* (_gci_ctypes.py, client.py, persistent_root.py, converters.py).         *)
THEOREM ConversionsTheorem == Computation => []ConversionsAgree
<1>1. input = [theme |-> "none"] => ConversionsAgree
  BY DEF ConversionsAgree
<1>2. ASSUME ConversionsAgree, [TakesAny]_input PROVE ConversionsAgree'
  <2>1. CASE UNCHANGED input
    BY <1>2, <2>1 DEF ConversionsAgree
  <2>2. CASE ConversionInputs(Int, AnyValue, AnyText \cup Datetimes(Int, Int))
    <3>1. ASSUME NEW i \in Int, input' = [theme |-> "word", i |-> i] PROVE ConversionsAgree'
      BY <3>1, WordsTheorem DEF ConversionsAgree
    <3>2. ASSUME NEW value \in AnyValue, input' = [theme |-> "value", value |-> value]
          PROVE  ConversionsAgree'
      BY <3>2, AllComeBack DEF ConversionsAgree
    <3>3. ASSUME NEW value \in AnyText \cup Datetimes(Int, Int),
                 input' = [theme |-> "converter", value |-> value]
          PROVE  ConversionsAgree'
      <4>1. \/ Kind(value) # "datetime" /\ value = <<Kind(value), value[2]>>
            \/ Kind(value) = "datetime" /\ value \in Datetimes(Int, Int)
        <5>1. CASE value \in AnyText
          BY <5>1 DEF AnyText, Kind
        <5>2. CASE value \in Datetimes(Int, Int)
          BY <5>2 DEF Datetimes, Kind
        <5>3. QED BY <3>3, <5>1, <5>2
      <4>2. ConvertersAgree(value)
        BY <4>1, AllConvert
      <4>3. QED BY <3>3, <4>2 DEF ConversionsAgree
    <3>4. QED BY <2>2, <3>1, <3>2, <3>3 DEF ConversionInputs
  <2>3. CASE PlanInputs(AnyManifest)
    BY <2>3 DEF PlanInputs, ConversionsAgree
  <2>4. CASE OtherInputs
    BY <2>4, OthersDiffer DEF ConversionsAgree
  <2>5. QED BY <1>2, <2>1, <2>2, <2>3, <2>4 DEF TakesAny, OtherInputs
<1>3. QED BY <1>1, <1>2, PTL DEF Computation

(* Whatever the manifest, its steps are ordered or it is refused as they   *)
(* should, and no plan has a step that should not run or cannot yet        *)
(* (migrations.py, _ordered_steps, plan_upgrade and plan_downgrade).       *)
THEOREM PlansTheorem == Computation => []PlansAgree
<1>1. input = [theme |-> "none"] => PlansAgree
  BY DEF PlansAgree
<1>2. ASSUME PlansAgree, [TakesAny]_input PROVE PlansAgree'
  <2>1. CASE UNCHANGED input
    BY <1>2, <2>1 DEF PlansAgree
  <2>2. CASE ConversionInputs(Int, AnyValue, AnyText \cup Datetimes(Int, Int))
    BY <2>2 DEF ConversionInputs, PlansAgree
  <2>3. CASE PlanInputs(AnyManifest)
    <3>1. PICK steps \in AnyManifest : input' = [theme |-> "order", manifest |-> steps]
      BY <2>3 DEF PlanInputs
    <3>2. Manifest(steps, StepNames, Checksums)
      BY <3>1 DEF AnyManifest, Manifest
    <3>3. OrderIsRight(steps) /\ PlansAreSound(steps)
      BY <3>2, PlannerIsRight, PlansCanBeReliedOn
    <3>4. QED BY <3>1, <3>3 DEF PlansAgree
  <2>4. CASE OtherInputs
    BY <2>4, OthersDiffer DEF PlansAgree
  <2>5. QED BY <1>2, <2>1, <2>2, <2>3, <2>4 DEF TakesAny, OtherInputs
<1>3. QED BY <1>1, <1>2, PTL DEF Computation

(* Whatever is in a mapping, a list or a log, and whatever is written,     *)
(* deleted, added or altered meanwhile, it does what that of Python does   *)
(* (persistent_root.py, concurrency.py, ordered_collection.py,             *)
(* objectlog.py).                                                          *)
THEOREM CollectionsTheorem == Computation => []CollectionsAgree
<1>1. input = [theme |-> "none"] => CollectionsAgree
  BY DEF CollectionsAgree
<1>2. ASSUME CollectionsAgree, [TakesAny]_input PROVE CollectionsAgree'
  <2>1. CASE UNCHANGED input
    BY <1>2, <2>1 DEF CollectionsAgree
  <2>2. CASE ConversionInputs(Int, AnyValue, AnyText \cup Datetimes(Int, Int))
    BY <2>2 DEF ConversionInputs, CollectionsAgree
  <2>3. CASE PlanInputs(AnyManifest)
    BY <2>3 DEF PlanInputs, CollectionsAgree
  <2>4. CASE MappingInputs(Mappings(Keys), Keys, Written, Seq(Keys \X Written))
    BY <2>4, DictsAlike DEF MappingInputs, CollectionsAgree
  <2>5. CASE ListInputs(Seq(Stored), Stored)
    BY <2>5, ListsAlike DEF ListInputs, CollectionsAgree
  <2>6. CASE LogInputs(Seq(Stored), Seq(Nat), Seq(Stored))
    BY <2>6, LogsAlike, LogsForwards DEF LogInputs, CollectionsAgree
  <2>7. QED BY <1>2, <2>1, <2>2, <2>3, <2>4, <2>5, <2>6 DEF TakesAny
<1>3. QED BY <1>1, <1>2, PTL DEF Computation
=============================================================================
