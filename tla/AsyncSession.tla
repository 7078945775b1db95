---------------------------- MODULE AsyncSession ----------------------------
(***************************************************************************)
(* AsyncSession (gemstone_py/aio/__init__.py): tasks of one event loop use *)
(* a synchronous session that lives in the one thread of an executor.  The *)
(* owner opens the session ("async with"), each task runs one block of     *)
(* session.transaction() in it, with at most one AsyncOopHandle.           *)
(*                                                                         *)
(* A cancelled task stops to wait at once.  Its call is taken off the      *)
(* executor's queue if it has not begun; otherwise it goes on and nobody   *)
(* hears of its end.  What is left of the task's blocks runs then, with    *)
(* calls of its own, each of which may be cancelled again.                 *)
(***************************************************************************)
EXTENDS Naturals, Sequences, FiniteSets, SequencesExt

CONSTANTS Owner, Guests,   \* tasks
          MaxCancels       \* bound: how often one task is cancelled

VARIABLES
  policy,    \* transaction_policy of the session
  closed,    \* _closed
  calls,     \* what the executor has to do, in the order of submission
  running,   \* is it busy with the first of them?
  loggedIn,  \* the synchronous session
  writers,   \* the tasks with uncommitted writes in the session
  exported,  \* the tasks whose handle is open in the session
  durable,   \* the tasks whose writes are committed
  pc,        \* the call each task waits for, or where it is
  answer,    \* what it has got
  failing,   \* is an exception on its way up?
  holds,     \* is it within the block of its handle?
  cancels,   \* how often it was cancelled
  ended,     \* ghost: its block has ended without an exception
  excused    \* ghost: <<why, task>>, what a cancelled call has left behind

asyncVars == <<policy, closed, calls, running, loggedIn, writers, exported, durable, pc,
          answer, failing, holds, cancels, ended, excused>>

Tasks == Guests \cup {Owner}
Calls == {"login", "enter", "write", "leave", "commit", "abort", "exit"}
Policies == {"MANUAL", "COMMIT_ON_SUCCESS"}

AsyncInit ==
  /\ policy \in Policies /\ closed = FALSE
  /\ calls = <<>> /\ running = FALSE
  /\ loggedIn = FALSE /\ writers = {} /\ exported = {} /\ durable = {}
  /\ pc = [t \in Tasks |-> "new"] /\ answer = [t \in Tasks |-> "none"]
  /\ failing = [t \in Tasks |-> FALSE] /\ holds = [t \in Tasks |-> FALSE]
  /\ cancels = [t \in Tasks |-> 0]
  /\ ended = [t \in Tasks |-> FALSE] /\ excused = {}

-----------------------------------------------------------------------------
(* The executor.                                                           *)

executorVars == <<running, loggedIn, writers, exported, durable>>

StartCall ==
  /\ calls # <<>> /\ ~running
  /\ running' = TRUE
  /\ UNCHANGED <<policy, closed, calls, loggedIn, writers, exported, durable, pc, answer,
                 failing, holds, cancels, ended, excused>>

Excuse(why, ts) == {<<why, t>> : t \in ts}

Saved == /\ durable' = durable \cup writers /\ writers' = {}
         /\ excused' = excused \cup Excuse("carried", writers \ {Head(calls).task})

\* Without a login every call raises but a second login or logout.
MayAnswer(c, ok) ==
  \/ loggedIn \/ c.op = "login"
  \/ IF c.op = "exit" THEN ok = (policy = "MANUAL" \/ c.raised) ELSE ~ok

\* __exit__ of the session: the commit or abort of its policy, and the logout
\* whatever comes of that.
ExitSession(c, ok) ==
  /\ loggedIn' = FALSE /\ exported' = {}
  /\ IF policy = "COMMIT_ON_SUCCESS" /\ ~c.raised /\ loggedIn /\ ok THEN Saved
     ELSE writers' = {} /\ UNCHANGED <<durable, excused>>

Done(c) ==
  /\ loggedIn' = TRUE
  /\ exported' = CASE c.op = "enter" -> exported \cup {c.task}
                   [] c.op = "leave" -> exported \ {c.task}
                   [] OTHER -> exported
  /\ CASE c.op = "write" -> writers' = writers \cup {c.task} /\ UNCHANGED <<durable, excused>>
       [] c.op = "abort" -> writers' = {} /\ UNCHANGED <<durable, excused>>
       [] c.op = "commit" -> Saved
       [] OTHER -> UNCHANGED <<durable, writers, excused>>

Refused(c) ==
  /\ excused' = excused \cup CASE c.op = "abort" -> Excuse("abort", {c.task})
                               [] c.op = "leave" -> Excuse("handle", {c.task})
                               [] OTHER -> {}
  /\ UNCHANGED <<loggedIn, writers, exported, durable>>

EndCall ==
  LET c == Head(calls) IN
  /\ running /\ running' = FALSE
  /\ calls' = Tail(calls)
  /\ \E ok \in BOOLEAN :
       /\ MayAnswer(c, ok)
       /\ CASE c.op = "exit" -> ExitSession(c, ok)
            [] c.op # "exit" /\ ok -> Done(c)
            [] c.op # "exit" /\ ~ok -> Refused(c)
       /\ answer' = IF c.heard THEN [answer EXCEPT ![c.task] = IF ok THEN "ok" ELSE "error"]
                    ELSE answer
  /\ UNCHANGED <<policy, closed, pc, failing, holds, cancels, ended>>

-----------------------------------------------------------------------------
(* The tasks.  close() waits for the executor and with it the whole event  *)
(* loop.                                                                   *)

LoopRuns == \A t \in Tasks : pc[t] # "closing"

\* run_sync: the next call of the task is submitted, unless the session is
\* closed, when it raises and so does all that follows.
Goto(t, next, queue, raised) ==
  LET op == IF next \in Calls /\ closed THEN "done" ELSE next IN
  /\ pc' = [pc EXCEPT ![t] = op]
  /\ calls' = IF op \in Calls
              THEN Append(queue, [task |-> t, op |-> op, raised |-> raised, heard |-> TRUE])
              ELSE queue
  /\ closed' = (closed \/ op = "closing")

\* What the blocks a task leaves do first: its handle, then its transaction.
Unwind(t, held) == IF held THEN "leave" ELSE "abort"

\* Where a task goes on once its call is over.
After(t, op, failed, held) ==
  CASE op = "login" -> IF failed THEN "done" ELSE "ready"
    [] op \in {"enter", "write", "leave"} -> IF failed THEN Unwind(t, held) ELSE "ready"
    [] op \in {"commit", "abort"} -> IF t = Owner THEN "exit" ELSE "done"
    [] op = "exit" -> "closing"

Proceed(t, ok, queue) ==
  LET failed == failing[t] \/ ~ok
      held == (holds[t] \/ (pc[t] = "enter" /\ ok)) /\ pc[t] # "leave" IN
  /\ Goto(t, After(t, pc[t], failed, held), queue, failed)
  /\ failing' = [failing EXCEPT ![t] = failed]
  /\ holds' = [holds EXCEPT ![t] = held]
  /\ answer' = [answer EXCEPT ![t] = "none"]

Resume(t) ==
  /\ LoopRuns /\ answer[t] # "none"
  /\ Proceed(t, answer[t] = "ok", calls)
  /\ UNCHANGED <<policy, executorVars, cancels, ended, excused>>

\* Mutant: the call stays on the queue.
MutantForget(t) == calls

\* The call that is cancelled: off the queue if it has not begun.
Forget(t) ==
  LET mine == {i \in DOMAIN calls : calls[i].task = t /\ calls[i].heard} IN
  CASE mine = {} -> calls
    [] mine # {} /\ running /\ 1 \in mine -> [calls EXCEPT ![1].heard = FALSE]
    [] OTHER -> RemoveAt(calls, CHOOSE i \in mine : TRUE)

LeftBehind(t) ==
  LET began == (running /\ Head(calls).task = t /\ Head(calls).heard) \/ answer[t] # "none" IN
  CASE pc[t] = "abort" /\ ~began -> Excuse("abort", {t})
    [] pc[t] = "leave" /\ ~began -> Excuse("handle", {t})
    [] pc[t] = "enter" /\ began -> Excuse("handle", {t})
    [] pc[t] = "login" /\ began -> Excuse("login", {t})
    [] pc[t] = "exit" /\ ~began -> Excuse("login", {t})
    [] OTHER -> {}

Cancel(t) ==
  /\ LoopRuns /\ pc[t] \in Calls /\ cancels[t] < MaxCancels
  /\ cancels' = [cancels EXCEPT ![t] = @ + 1]
  /\ excused' = excused \cup LeftBehind(t)
  /\ Proceed(t, FALSE, Forget(t))
  /\ UNCHANGED <<policy, executorVars, ended>>

Open ==
  /\ LoopRuns /\ pc[Owner] = "new"
  /\ Goto(Owner, "login", calls, FALSE)
  /\ UNCHANGED <<policy, executorVars, answer, failing, holds, cancels, ended, excused>>

\* The owner hands the open session to another task.
Join(t) ==
  /\ LoopRuns /\ t # Owner /\ pc[t] = "new" /\ pc[Owner] = "ready"
  /\ Goto(t, "ready", calls, FALSE)
  /\ UNCHANGED <<policy, executorVars, answer, failing, holds, cancels, ended, excused>>

Call(t, op) ==
  /\ LoopRuns /\ pc[t] = "ready" /\ (op = "enter" => ~holds[t]) /\ (op = "leave" => holds[t])
  /\ Goto(t, op, calls, FALSE)
  /\ failing' = [failing EXCEPT ![t] = closed]
  /\ UNCHANGED <<policy, executorVars, answer, holds, cancels, ended, excused>>

\* __aexit__ of the transaction: commit, or abort after an exception.
EndBlock(t) ==
  /\ LoopRuns /\ pc[t] = "ready" /\ ~holds[t]
  /\ ended' = [ended EXCEPT ![t] = TRUE]
  /\ Goto(t, "commit", calls, FALSE)
  /\ UNCHANGED <<policy, executorVars, answer, failing, holds, cancels, excused>>

RaiseInBlock(t) ==
  /\ LoopRuns /\ pc[t] = "ready"
  /\ failing' = [failing EXCEPT ![t] = TRUE]
  /\ Goto(t, Unwind(t, holds[t]), calls, TRUE)
  /\ UNCHANGED <<policy, executorVars, answer, holds, cancels, ended, excused>>

Shutdown(t) ==
  /\ pc[t] = "closing" /\ calls = <<>>
  /\ pc' = [pc EXCEPT ![t] = "done"]
  /\ UNCHANGED <<policy, closed, calls, executorVars, answer, failing, holds, cancels,
                 ended, excused>>

AsyncNext ==
  \/ StartCall \/ EndCall \/ Open
  \/ \E t \in Tasks : \/ Resume(t) \/ Cancel(t) \/ Join(t) \/ EndBlock(t)
                      \/ RaiseInBlock(t) \/ Shutdown(t)
                      \/ \E op \in {"enter", "write", "leave"} : Call(t, op)

AsyncSpec == AsyncInit /\ [][AsyncNext]_asyncVars

-----------------------------------------------------------------------------
Over(t) == pc[t] = "done" /\ \A i \in DOMAIN calls : calls[i].task # t

\* A block that raised or was cancelled is never committed, except that a
\* commit by another task of the same session carries what is uncommitted at
\* that moment.  Once all of its calls are over there is nothing of it to
\* carry; and when nobody uses the session any more it is
\* logged out and no handle is left, unless the very call that was to see to it
\* was cancelled or refused.
BlocksStayApart ==
  /\ \A t \in durable : ended[t] \/ <<"carried", t>> \in excused
  /\ \A t \in Tasks : Over(t) =>
       /\ t \in writers => ended[t] \/ <<"abort", t>> \in excused \/ closed
       /\ t \in exported => <<"handle", t>> \in excused \/ closed
  /\ (pc[Owner] = "done" /\ calls = <<>>) => ~loggedIn \/ <<"login", Owner>> \in excused
=============================================================================
