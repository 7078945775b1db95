-------------------------- MODULE TransactionRetry --------------------------
(***************************************************************************)
(* run_transaction_with_retry (gemstone_py/transactions.py): the work is   *)
(* done again from a fresh view after each conflict, in a session of the   *)
(* caller ("existing") or in a new one per attempt ("owned").  The work    *)
(* updates keys of the dictionary that GStore uses, too.                   *)
(***************************************************************************)
EXTENDS Stone

CONSTANT Attempts   \* the parameter attempts

ASSUME AttemptsAssumption == Attempts \in Nat \ {0}

\* Leaving the with statement aborts and logs an owned session out; a session
\* of the caller stays as it is.
LeaveSession(c) ==
  IF Role(c) = "owned" THEN Logout(c) ELSE UNCHANGED stoneVars

\* The call: a caller's session is used with whatever view it has.
Start(c) ==
  /\ phase[c] = "idle"
  /\ \/ /\ Role(c) = "owned"
        /\ Refresh(c)
        /\ Goto(c, "work")
        /\ UNCHANGED result
     \/ /\ Role(c) = "owned"
        /\ Fault("login")
        /\ Done(c, "raised")
        /\ UNCHANGED stoneVars
     \/ /\ Role(c) = "existing"
        /\ Goto(c, "work")
        /\ UNCHANGED <<stoneVars, result>>
  /\ UNCHANGED <<mode, attempt, landed>>

\* The work updates a key it reads in the same transaction.
Work(c, k) ==
  /\ phase[c] = "work"
  /\ view[c][Entry] # Absent
  /\ WriteView(c, k, Updated(c, view[c][k]))
  /\ UNCHANGED <<mode, clientVars>>

\* The work returns, raises an Exception, or is interrupted by what is none.
WorkEnds(c) ==
  /\ phase[c] = "work"
  /\ \/ /\ Goto(c, "commit")
        /\ UNCHANGED <<stoneVars, result>>
     \/ /\ Goto(c, "undo")
        /\ UNCHANGED <<stoneVars, result>>
     \/ /\ Fault("interrupt")
        /\ Done(c, "raised")
        /\ LeaveSession(c)
  /\ UNCHANGED <<mode, attempt, landed>>

\* Mutant: an error other than a conflict is taken for one.
MutantTryCommit(c) ==
  LET Success == /\ ~MustConflict(c, written[c])
                 /\ Land(c, view[c], written[c], written[c] \ {Entry})
  IN
  /\ phase[c] = "commit"
  /\ \/ Success /\ Done(c, "ok")
     \/ /\ MustConflict(c, written[c]) \/ Fault("commit")
        /\ Goto(c, "notify")
        /\ UNCHANGED <<stoneVars, result, landed>>
     \/ /\ Fault("lost_answer")
        /\ Success
        /\ Goto(c, "notify")
        /\ UNCHANGED result
  /\ UNCHANGED <<mode, attempt>>

TryCommit(c) ==
  LET W == written[c]
      Success == ~MustConflict(c, W) /\ Land(c, view[c], W, W \ {Entry})
  IN
  /\ phase[c] = "commit"
  /\ \/ Success /\ Done(c, "ok")
     \/ /\ MustConflict(c, W) \/ MayConflict(c, W)
        /\ Goto(c, "notify")
        /\ UNCHANGED <<stoneVars, result, landed>>
     \/ /\ Fault("commit")
        /\ Goto(c, "undo")
        /\ UNCHANGED <<stoneVars, result, landed>>
     \/ /\ Fault("lost_answer")
        /\ Success
        /\ Goto(c, "undo")
        /\ UNCHANGED result
  /\ UNCHANGED <<mode, attempt>>

\* on_conflict may raise, and nothing is aborted then.
Notify(c) ==
  /\ phase[c] = "notify"
  /\ \/ /\ Goto(c, "conflict")
        /\ UNCHANGED <<stoneVars, result>>
     \/ /\ Fault("listener")
        /\ Done(c, "raised")
        /\ LeaveSession(c)
  /\ UNCHANGED <<mode, attempt, landed>>

\* Mutant: the next attempt starts from the view of the last.
MutantNextAttempt(c) ==
  /\ phase[c] = "conflict"
  /\ attempt[c] < Attempts
  /\ attempt' = [attempt EXCEPT ![c] = @ + 1]
  /\ Goto(c, "work")
  /\ stale' = [stale EXCEPT ![c] = {}]
  /\ UNCHANGED <<db, view, written, mode, result, landed>>

\* The abort, and the work again, in another session when sessions are owned;
\* after the last attempt the conflict is raised.
NextAttempt(c) ==
  /\ phase[c] = "conflict"
  /\ \/ /\ attempt[c] < Attempts
        /\ Refresh(c)
        /\ attempt' = [attempt EXCEPT ![c] = @ + 1]
        /\ Goto(c, "work")
        /\ UNCHANGED result
     \/ /\ attempt[c] < Attempts
        /\ Role(c) = "owned" /\ Fault("login")
        /\ Done(c, "raised")
        /\ Logout(c)
        /\ UNCHANGED attempt
     \/ /\ attempt[c] = Attempts
        /\ Done(c, "exhausted")
        /\ IF Role(c) = "owned" THEN Logout(c) ELSE Refresh(c)
        /\ UNCHANGED attempt
     \/ /\ Fault("abort")
        /\ Done(c, "raised")
        /\ LeaveSession(c)
        /\ UNCHANGED attempt
  /\ UNCHANGED <<mode, landed>>

\* Mutant: only conflicts are followed by an abort.
MutantAbortWork(c) ==
  /\ phase[c] = "undo"
  /\ Done(c, "raised")
  /\ LeaveSession(c)
  /\ UNCHANGED <<mode, attempt, landed>>

\* The abort after any other Exception, which is then raised, or its own.
AbortWork(c) ==
  /\ phase[c] = "undo"
  /\ Done(c, "raised")
  /\ \/ IF Role(c) = "owned" THEN Logout(c) ELSE Refresh(c)
     \/ Fault("abort") /\ LeaveSession(c)
  /\ UNCHANGED <<mode, attempt, landed>>

RetryNext(c) ==
  \/ Start(c) \/ WorkEnds(c) \/ TryCommit(c) \/ Notify(c) \/ NextAttempt(c)
  \/ AbortWork(c)
  \/ \E k \in Keys : Work(c, k)
=============================================================================
