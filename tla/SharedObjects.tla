---------------------------- MODULE SharedObjects ----------------------------
(***************************************************************************)
(* Locks and nested transactions of sessions that share an object          *)
(* (concurrency.py).  Both are context managers of Python around a state   *)
(* that the server keeps and counts in its own way: a lock is taken off at *)
(* once however often it was taken, and a level of transaction stays open  *)
(* until it is committed or aborted.  What the server does is modelled     *)
(* from its use here.                                                      *)
(***************************************************************************)
EXTENDS Naturals, Sequences, SequencesExt

CONSTANTS Sessions,   \* logged in, all in a transaction
          MaxBlocks,  \* bound: blocks that are open at once in one session
          MaxLevel    \* levels of transaction; 16 nested ones on the server

VARIABLES
  blocks,    \* the blocks a session is in, the innermost last
  raising,   \* what goes up through them: "no", "exception" or "interrupt"
  held,      \* the lock the server keeps for a session: "none", "read" or "write"
  changes,   \* per level of transaction: has it changes?
  leaked,    \* ghost: a nested block ended without its level, as a call to the
             \* server failed or an interrupt passed by
  stuck,     \* ghost: the lock is on though its block has ended or never began,
             \* as the call that takes it off failed, or the one that set it
  unsaved    \* ghost: a commit was reported done and the changes are not saved

vars == <<blocks, raising, held, changes, leaked, stuck, unsaved>>

Locks == {"read", "write"}

SharedInit ==
  /\ blocks = [s \in Sessions |-> <<>>]
  /\ raising = [s \in Sessions |-> "no"]
  /\ held = [s \in Sessions |-> "none"]
  /\ changes = [s \in Sessions |-> <<FALSE>>]
  /\ leaked = [s \in Sessions |-> FALSE]
  /\ stuck = [s \in Sessions |-> FALSE]
  /\ unsaved = [s \in Sessions |-> FALSE]

Runs(s) == raising[s] = "no"
Nested(s) == {i \in DOMAIN blocks[s] : blocks[s][i] = "nested"}
Inside(s) == IF blocks[s] = <<>> THEN "none" ELSE Last(blocks[s])
Raise(s, what) == raising' = [raising EXCEPT ![s] = what]
Leak(s) == leaked' = [leaked EXCEPT ![s] = TRUE]

-----------------------------------------------------------------------------
(* The server's transactions.                                              *)

\* The changes of the innermost level go to the one around it, or are saved.
Merged(levels) ==
  IF Len(levels) = 1 THEN <<FALSE>>
  ELSE LET outer == Front(levels)
       IN [outer EXCEPT ![Len(outer)] = @ \/ Last(levels)]

\* The innermost level is dropped; the outermost starts again.
Aborted(levels) == IF Len(levels) = 1 THEN <<FALSE>> ELSE Front(levels)

CommitLevel(s) == changes' = [changes EXCEPT ![s] = Merged(@)]
AbortLevel(s) == changes' = [changes EXCEPT ![s] = Aborted(@)]

\* A write in the current level.
Write(s) ==
  /\ Runs(s)
  /\ changes' = [changes EXCEPT ![s][Len(changes[s])] = TRUE]
  /\ UNCHANGED <<blocks, raising, held, leaked, stuck, unsaved>>

-----------------------------------------------------------------------------
(* nested_transaction().                                                   *)

EnterNested(s) ==
  /\ Runs(s) /\ Len(blocks[s]) < MaxBlocks
  /\ IF Len(changes[s]) < MaxLevel
     THEN /\ blocks' = [blocks EXCEPT ![s] = Append(@, "nested")]
          /\ changes' = [changes EXCEPT ![s] = Append(@, FALSE)]
          /\ UNCHANGED raising
     ELSE Raise(s, "exception") /\ UNCHANGED <<blocks, changes>>
  /\ UNCHANGED <<held, leaked, stuck, unsaved>>

LeaveNested(s) ==
  /\ Inside(s) = "nested"
  /\ blocks' = [blocks EXCEPT ![s] = Front(@)]
  /\ UNCHANGED <<held, stuck, unsaved>>

\* The block ends: its level is committed, or the commit is refused and the
\* level stays, or it was committed and the call raises all the same.
EndNested(s) ==
  /\ LeaveNested(s) /\ Runs(s)
  /\ \/ CommitLevel(s) /\ UNCHANGED <<raising, leaked>>
     \/ CommitLevel(s) /\ Raise(s, "exception") /\ UNCHANGED leaked
     \/ Raise(s, "exception") /\ Leak(s) /\ UNCHANGED changes

\* An exception leaves it: the level is aborted, which may fail itself.  An
\* interrupt is no Exception and passes by.
RaiseThroughNested(s) ==
  /\ LeaveNested(s)
  /\ \/ raising[s] = "exception" /\ AbortLevel(s) /\ UNCHANGED leaked
     \/ ~Runs(s) /\ Leak(s) /\ UNCHANGED changes
  /\ UNCHANGED raising

-----------------------------------------------------------------------------
(* lock(), read_lock(), unlock().                                          *)

MayLock(s, mode) ==
  \A other \in Sessions \ {s} :
    held[other] # "write" /\ (mode = "write" => held[other] = "none")

\* The call sets the lock, it is refused, or it raises with the lock on.
EnterLock(s, mode) ==
  /\ Runs(s) /\ Len(blocks[s]) < MaxBlocks
  /\ \/ /\ MayLock(s, mode)
        /\ blocks' = [blocks EXCEPT ![s] = Append(@, mode)]
        /\ held' = [held EXCEPT ![s] = mode]
        /\ UNCHANGED <<raising, stuck>>
     \/ /\ MayLock(s, mode)
        /\ held' = [held EXCEPT ![s] = mode]
        /\ stuck' = [stuck EXCEPT ![s] = TRUE]
        /\ Raise(s, "exception")
        /\ UNCHANGED blocks
     \/ Raise(s, "exception") /\ UNCHANGED <<blocks, held, stuck>>
  /\ UNCHANGED <<changes, leaked, unsaved>>

\* The lock is off, and with it the trouble it may have been in.
Free(s) ==
  /\ held' = [held EXCEPT ![s] = "none"]
  /\ stuck' = [stuck EXCEPT ![s] = FALSE]

\* Mutant: the lock goes when the block ends, not when it raises.
MutantLeaveLock(s) ==
  /\ Inside(s) \in Locks
  /\ blocks' = [blocks EXCEPT ![s] = Front(@)]
  /\ IF Runs(s) THEN Free(s) ELSE UNCHANGED <<held, stuck>>
  /\ UNCHANGED <<raising, changes, leaked, unsaved>>

\* However the block is left, also by an interrupt, the lock is taken off.  The
\* call that does may raise, in place of what went through the block, and the
\* lock may be on after it.
LeaveLock(s) ==
  /\ Inside(s) \in Locks
  /\ blocks' = [blocks EXCEPT ![s] = Front(@)]
  /\ \/ Free(s) /\ UNCHANGED raising
     \/ Free(s) /\ Raise(s, "exception")
     \/ /\ Raise(s, "exception")
        /\ stuck' = [stuck EXCEPT ![s] = held[s] # "none"]
        /\ UNCHANGED held
  /\ UNCHANGED <<changes, leaked, unsaved>>

Unlock(s) ==
  /\ Runs(s) /\ held[s] # "none"
  /\ \/ Free(s) /\ UNCHANGED raising
     \/ Raise(s, "exception") /\ UNCHANGED <<held, stuck>>
  /\ UNCHANGED <<blocks, changes, leaked, unsaved>>

-----------------------------------------------------------------------------
(* commit() and commit_and_release_locks().                                *)

\* Said to be committed, while an outer level still has the changes.
Committed(s) ==
  /\ CommitLevel(s)
  /\ unsaved' = [unsaved EXCEPT ![s] = Len(changes[s]) > 1 /\ \E l \in DOMAIN changes[s] : changes[s][l]]

Commit(s) ==
  /\ Runs(s) /\ Nested(s) = {}
  /\ \/ Committed(s) /\ UNCHANGED raising
     \/ Raise(s, "exception") /\ UNCHANGED <<changes, unsaved>>
  /\ UNCHANGED <<blocks, held, leaked, stuck>>

\* The locks go after the commit; the call that takes them off may fail.
CommitAndReleaseLocks(s) ==
  /\ Runs(s) /\ Nested(s) = {}
  /\ \/ /\ Committed(s)
        /\ \/ Free(s) /\ UNCHANGED raising
           \/ Raise(s, "exception") /\ UNCHANGED <<held, stuck>>
     \/ Raise(s, "exception") /\ UNCHANGED <<changes, unsaved, held, stuck>>
  /\ UNCHANGED <<blocks, leaked>>

\* The code in the blocks raises, is interrupted, or catches an exception.
Fail(s) ==
  /\ Runs(s) /\ blocks[s] # <<>>
  /\ \E what \in {"exception", "interrupt"} : Raise(s, what)
  /\ UNCHANGED <<blocks, held, changes, leaked, stuck, unsaved>>
Catch(s) ==
  /\ raising[s] = "exception" \/ (raising[s] = "interrupt" /\ blocks[s] = <<>>)
  /\ Raise(s, "no")
  /\ UNCHANGED <<blocks, held, changes, leaked, stuck, unsaved>>

SharedNext ==
  \E s \in Sessions :
    \/ Write(s) \/ EnterNested(s) \/ EndNested(s) \/ RaiseThroughNested(s)
    \/ \E mode \in Locks : EnterLock(s, mode)
    \/ LeaveLock(s) \/ Unlock(s) \/ Commit(s) \/ CommitAndReleaseLocks(s)
    \/ Fail(s) \/ Catch(s)

SharedSpec == SharedInit /\ [][SharedNext]_vars

-----------------------------------------------------------------------------
\* The locks keep the sessions apart, and none outlives the blocks of the session
\* that has it, unless the call that takes it off, or the one that set it, failed
\* (it may be lost inside the block: by unlock, by a commit that releases, or at
\* the end of a block within that locked the same object); and a session has the
\* levels of its blocks, and outside them a commit that is reported done has saved
\* everything, unless a call of a nested block failed or one was interrupted: then
\* the level stays, though concurrency.py:777-778 says that an exception aborts it.
BlocksMatchServer ==
  \A s \in Sessions :
    /\ held[s] # "none" =>
         /\ stuck[s] \/ \E i \in DOMAIN blocks[s] : blocks[s][i] = held[s]
         /\ \A other \in Sessions \ {s} :
              held[other] = "none" \/ (held[s] = "read" /\ held[other] = "read")
    /\ ~leaked[s] =>
         /\ Len(changes[s]) = 1 + Cardinality(Nested(s))
         /\ ~unsaved[s]
=============================================================================
