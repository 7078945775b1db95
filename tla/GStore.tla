------------------------------- MODULE GStore -------------------------------
(***************************************************************************)
(* GStore.transaction (gemstone_py/gstore.py): reads come from a snapshot, *)
(* writes and deletes are buffered, and leaving the block writes them and  *)
(* commits, again with the same buffers after each conflict.  One "file"   *)
(* is modelled; each client has a GStore object of its own.                *)
(***************************************************************************)
EXTENDS Stone

CONSTANT MaxRetries   \* _MAX_RETRIES

ASSUME MaxRetriesAssumption == MaxRetries \in Nat \ {0}

VARIABLES
  readOnly,   \* GStoreTransaction._read_only
  dirty,      \* GStoreTransaction._dirty, Absent where a key is not in it
  deletes,    \* GStoreTransaction._deletes
  exit        \* how the block was left

storeVars == <<readOnly, dirty, deletes, exit>>

Exits == {"none", "clean", "abort", "error", "interrupt"}

StoreTypeOK ==
  /\ readOnly \in [Clients -> BOOLEAN]
  /\ dirty \in [Clients -> [Keys -> Values]]
  /\ deletes \in [Clients -> SUBSET Keys]
  /\ exit \in [Clients -> Exits]

StoreInit ==
  /\ readOnly = [c \in Clients |-> FALSE]
  /\ dirty = [c \in Clients |-> [k \in Keys |-> Absent]]
  /\ deletes = [c \in Clients |-> {}]
  /\ exit = [c \in Clients |-> "none"]

Buffered(c) == {k \in Keys : dirty[c][k] # Absent}

-----------------------------------------------------------------------------
\* transaction(): login, abort, and the snapshot, which creates the dictionary
\* if there is none, whatever the transaction is for.
Open(c) ==
  LET missing == db[Entry] = Absent IN
  /\ phase[c] = "idle"
  /\ \/ /\ Goto(c, "block")
        /\ view' = [view EXCEPT ![c] = [db EXCEPT ![Entry] = {}]]
        /\ written' = [written EXCEPT ![c] = IF missing THEN {Entry} ELSE {}]
        /\ stale' = [stale EXCEPT ![c] = {}]
        /\ \E ro \in BOOLEAN : readOnly' = [readOnly EXCEPT ![c] = ro]
        /\ UNCHANGED <<db, result>>
     \/ /\ Fault("login")
        /\ Done(c, "raised")
        /\ Logout(c)
        /\ UNCHANGED readOnly
  /\ UNCHANGED <<mode, attempt, landed, dirty, deletes, exit>>

\* __getitem__: the buffered value, none for a deleted key, or the snapshot's.
Get(c, k) ==
  IF dirty[c][k] # Absent THEN dirty[c][k]
  ELSE IF k \in deletes[c] THEN Absent
  ELSE view[c][k]

\* t[k] = f(t.get(k)): the client's update of what it reads.
SetItem(c, k) ==
  /\ phase[c] = "block"
  /\ ~readOnly[c]
  /\ dirty' = [dirty EXCEPT ![c][k] = Updated(c, Get(c, k))]
  /\ deletes' = [deletes EXCEPT ![c] = @ \ {k}]
  /\ UNCHANGED <<stoneVars, mode, clientVars, readOnly, exit>>

DelItem(c, k) ==
  /\ mode.deletes
  /\ phase[c] = "block"
  /\ ~readOnly[c]
  /\ deletes' = [deletes EXCEPT ![c] = @ \cup {k}]
  /\ dirty' = [dirty EXCEPT ![c][k] = Absent]
  /\ UNCHANGED <<stoneVars, mode, clientVars, readOnly, exit>>

\* user_raised is set for an Exception and aborted for GStoreAbortTransaction:
\* neither is for an exception that is no Exception.
Commits(c, how) == ~readOnly[c] /\ how \notin {"abort", "error"}

\* The block is left, and the finally clause runs.
Leave(c) ==
  /\ phase[c] = "block"
  /\ \E how \in Exits \ {"none"} :
       /\ how = "interrupt" => Fault("interrupt")
       /\ exit' = [exit EXCEPT ![c] = how]
       /\ Goto(c, IF Commits(c, how) THEN "commit" ELSE "undo")
  /\ UNCHANGED <<stoneVars, mode, attempt, result, landed, readOnly, dirty, deletes>>

-----------------------------------------------------------------------------
(* _commit_with_retry.                                                     *)

\* Mutant: deletes are not made again after a conflict.
MutantFlushed(c) ==
  [l \in Locations |->
     IF l = Entry THEN {}
     ELSE IF l \in deletes[c] /\ attempt[c] = 1 THEN Absent
     ELSE IF dirty[c][l] # Absent THEN dirty[c][l]
     ELSE view[c][l]]

\* _write_file: the dictionary, created if there is none, with the buffered
\* writes and then the deletes in it.
Flushed(c) ==
  [l \in Locations |->
     IF l = Entry THEN {}
     ELSE IF l \in deletes[c] THEN Absent
     ELSE IF dirty[c][l] # Absent THEN dirty[c][l]
     ELSE view[c][l]]

\* What is written by that: a delete of no key is none.
FlushWrites(c) ==
  written[c] \cup Buffered(c)
    \cup {k \in deletes[c] : view[c][k] # Absent}
    \cup {l \in {Entry} : view[c][l] = Absent}

\* An interrupt goes on after the commit.
Outcome(c) == IF exit[c] = "interrupt" THEN "raised" ELSE "ok"

\* Write and commit.  A conflict leads to another attempt, any other error,
\* also that of a commit which took effect, leaves the loop.
Commit(c) ==
  LET W == FlushWrites(c)
      Success == ~MustConflict(c, W) /\ Land(c, Flushed(c), W, Buffered(c))
  IN
  /\ phase[c] = "commit"
  /\ \/ Success /\ Done(c, Outcome(c))
     \/ /\ MustConflict(c, W) \/ MayConflict(c, W)
        /\ Goto(c, "conflict")
        /\ UNCHANGED <<stoneVars, result, landed>>
     \/ /\ Fault("commit")
        /\ Done(c, "raised")
        /\ Logout(c)
        /\ UNCHANGED landed
     \/ Fault("lost_answer") /\ Success /\ Done(c, "raised")
  /\ UNCHANGED <<mode, attempt, storeVars>>

\* The abort after a conflict, and the next attempt or the end of the loop.
Retry(c) ==
  /\ phase[c] = "conflict"
  /\ \/ /\ attempt[c] < MaxRetries
        /\ Refresh(c)
        /\ attempt' = [attempt EXCEPT ![c] = @ + 1]
        /\ Goto(c, "commit")
        /\ UNCHANGED result
     \/ /\ attempt[c] = MaxRetries
        /\ Done(c, "exhausted")
        /\ Logout(c)
        /\ UNCHANGED attempt
     \/ /\ Fault("abort")
        /\ Done(c, "raised")
        /\ Logout(c)
        /\ UNCHANGED attempt
  /\ UNCHANGED <<mode, landed, storeVars>>

\* The abort of a block that is not to be committed; an exception of its own
\* takes the place of the block's.
Undo(c) ==
  /\ phase[c] = "undo"
  /\ Logout(c)
  /\ \/ Done(c, IF exit[c] = "abort" THEN "aborted"
                ELSE IF exit[c] = "clean" THEN "ok" ELSE "raised")
     \/ Fault("abort") /\ Done(c, "raised")
  /\ UNCHANGED <<mode, attempt, landed, storeVars>>

\* GStore.rm, by a client that has nothing else to do: the entry goes, and
\* the dictionary with it.
Remove(c) ==
  LET gone == {l \in Locations : db[l] # Absent} IN
  /\ mode.deletes
  /\ phase[c] = "idle"
  /\ db[Entry] # Absent
  /\ db' = [l \in Locations |-> Absent]
  /\ stale' = [x \in Clients |-> IF x = c THEN stale[x] ELSE stale[x] \cup gone]
  /\ Done(c, "ok")
  /\ UNCHANGED <<view, written, mode, attempt, landed, storeVars>>

StoreNext(c) ==
  \/ Open(c) \/ Leave(c) \/ Commit(c) \/ Retry(c) \/ Undo(c) \/ Remove(c)
  \/ \E k \in Keys : SetItem(c, k) \/ DelItem(c, k)
=============================================================================
