-------------------------- MODULE RequestLifecycle --------------------------
(***************************************************************************)
(* RequestScope and TransactionScope (gemstone_py/web_core.py) under the   *)
(* adapters that drive them: the Flask hooks and session_scope             *)
(* (gemstone_py/web.py), the Django middleware                             *)
(* (gemstone_py/frameworks/django.py), and, with the async variants of the *)
(* scopes, the ASGI middleware and the dependencies of aio/fastapi.py and  *)
(* aio/litestar.py.  Concurrent requests borrow sessions lazily, write     *)
(* through them, and are finalized.                                        *)
(*                                                                         *)
(* The provider is the abstract one of SessionLeasing, which SessionPool   *)
(* implements; without a provider each request logs in for itself.  A call *)
(* to the server is one step.  What a transaction wrote is the set of the  *)
(* requests that wrote in it.                                              *)
(***************************************************************************)
EXTENDS Naturals, FiniteSets

CONSTANTS
  Requests,   \* requests, each served by a thread of its own
  Sessions,   \* identities of session objects
  Bound,      \* maxsize of the provider
  Modes,      \* the ways the application may be set up
  NoRequest, NoSession

\* An adapter, whether there is a session_provider, a transaction_policy, and
\* the faults of the surroundings.  Flask always commits on success; without
\* a provider session_scope does not use a RequestScope; the ASGI middleware
\* takes none.  commit_on_success=False means ABORT_ON_EXIT to the ASGI
\* middleware and MANUAL to the dependencies.
Adapters == {"flask", "django", "session_scope", "asgi", "dependency"}
Policies == {"commit_on_success", "abort_on_exit", "manual"}

\* A failing acquire, commit, abort or reset; a commit that took effect though
\* its answer was lost; and an exception that is no Exception, in the handler
\* or in a call of the scope: KeyboardInterrupt, SystemExit, GeneratorExit, or
\* the CancelledError of a task.
FaultKinds ==
  {"acquire", "commit", "lost_answer", "abort", "reset", "interrupt"}

Setups ==
  {m \in [adapter : Adapters, pooled : BOOLEAN, policy : Policies,
          faults : SUBSET FaultKinds] :
     /\ m.adapter = "flask" => m.policy = "commit_on_success"
     /\ m.adapter = "session_scope" => m.pooled
     /\ m.adapter = "asgi" => ~m.pooled /\ m.policy # "manual"
     /\ m.adapter = "dependency" => m.policy # "abort_on_exit"}

ASSUME RequestsAssumption == IsFiniteSet(Requests) /\ NoRequest \notin Requests
ASSUME SessionsAssumption == IsFiniteSet(Sessions) /\ NoSession \notin Sessions
ASSUME ModesAssumption == Bound \in Nat \ {0} /\ Modes \subseteq Setups

VARIABLES
  mode,       \* how the application is set up
  open,       \* sessions logged in to the server
  lessee,     \* the request each session is lent to
  pending,    \* the requests that wrote in the session's open transaction
  stone,      \* the requests whose writes are committed
  phase,      \* where each request is
  session,    \* RequestScope._session
  fate,       \* how the handler ended
  clean,      \* TransactionFinalization.clean
  discard,    \* TransactionFinalization.discard
  raised,     \* does an exception leave finalize
  wrote,      \* has the request written
  reply       \* what the client is told

serverVars == <<open, lessee, pending, stone>>
scopeVars == <<session, clean, discard, raised>>
requestVars == <<phase, fate, wrote, reply>>
vars == <<mode, serverVars, scopeVars, requestVars>>

Adapter == mode.adapter
Pooled == mode.pooled
Policy == mode.policy
Faults == mode.faults

Phases == {"handling", "acquiring", "ended", "commit", "abort_after", "abort", "release",
           "reset", "reply", "done"}
Fates == {"none", "ok", "error", "server_error", "interrupt"}
Replies == {"none", "success", "failure"}

TypeOK ==
  /\ mode \in Modes
  /\ open \subseteq Sessions
  /\ lessee \in [Sessions -> Requests \cup {NoRequest}]
  /\ pending \in [Sessions -> SUBSET Requests]
  /\ stone \subseteq Requests
  /\ phase \in [Requests -> Phases]
  /\ session \in [Requests -> Sessions \cup {NoSession}]
  /\ fate \in [Requests -> Fates]
  /\ clean \in [Requests -> BOOLEAN]
  /\ discard \in [Requests -> BOOLEAN]
  /\ raised \in [Requests -> BOOLEAN]
  /\ wrote \in [Requests -> BOOLEAN]
  /\ reply \in [Requests -> Replies]

Init ==
  /\ mode \in Modes
  /\ open = {}
  /\ lessee = [s \in Sessions |-> NoRequest]
  /\ pending = [s \in Sessions |-> {}]
  /\ stone = {}
  /\ phase = [r \in Requests |-> "handling"]
  /\ session = [r \in Requests |-> NoSession]
  /\ fate = [r \in Requests |-> "none"]
  /\ clean = [r \in Requests |-> FALSE]
  /\ discard = [r \in Requests |-> FALSE]
  /\ raised = [r \in Requests |-> FALSE]
  /\ wrote = [r \in Requests |-> FALSE]
  /\ reply = [r \in Requests |-> "none"]

-----------------------------------------------------------------------------
(* The handler.                                                            *)

End(r, how) ==
  /\ fate' = [fate EXCEPT ![r] = how]
  /\ phase' = [phase EXCEPT ![r] = "ended"]

\* scope.session(): the first call borrows a session from the provider or
\* logs one in.
AskSession(r) ==
  /\ phase[r] = "handling"
  /\ session[r] = NoSession
  /\ phase' = [phase EXCEPT ![r] = "acquiring"]
  /\ UNCHANGED <<serverVars, scopeVars, fate, wrote, reply>>

Available(s) ==
  \/ Pooled /\ s \in open /\ lessee[s] = NoRequest
  \/ s \notin open /\ (Pooled => Cardinality(open) < Bound)

\* The provider blocks while it has none.
GetSession(r) ==
  /\ phase[r] = "acquiring"
  /\ \E s \in Sessions :
       /\ Available(s)
       /\ open' = open \cup {s}
       /\ lessee' = [lessee EXCEPT ![s] = r]
       /\ session' = [session EXCEPT ![r] = s]
  /\ phase' = [phase EXCEPT ![r] = "handling"]
  /\ UNCHANGED <<pending, stone, clean, discard, raised, fate, wrote, reply>>

\* A login or a timed wait that fails, or an interrupt.
AcquireFails(r) ==
  /\ phase[r] = "acquiring"
  /\ \/ "acquire" \in Faults /\ End(r, "error")
     \/ "interrupt" \in Faults /\ End(r, "interrupt")
  /\ UNCHANGED <<serverVars, scopeVars, wrote, reply>>

Write(r) ==
  /\ phase[r] = "handling"
  /\ session[r] # NoSession
  /\ pending' = [pending EXCEPT ![session[r]] = @ \cup {r}]
  /\ wrote' = [wrote EXCEPT ![r] = TRUE]
  /\ UNCHANGED <<open, lessee, stone, scopeVars, phase, fate, reply>>

\* Under MANUAL the handler commits for itself.
HandlerCommits(r) ==
  /\ Policy = "manual"
  /\ phase[r] = "handling"
  /\ session[r] # NoSession
  /\ stone' = stone \cup pending[session[r]]
  /\ pending' = [pending EXCEPT ![session[r]] = {}]
  /\ wrote' = [wrote EXCEPT ![r] = FALSE]
  /\ UNCHANGED <<open, lessee, scopeVars, phase, fate, reply>>

\* session_scope and a dependency finalize without the status of a response.
KnowsStatus == Adapter \notin {"session_scope", "dependency"}

\* The ASGI middleware passes the response on while the handler runs; a
\* handler may raise after it has sent one.
Sends(r, how) ==
  IF Adapter # "asgi" THEN UNCHANGED reply
  ELSE \E told \in {"success", "failure"} :
         /\ how = "ok" => told = "success"
         /\ how = "server_error" => told = "failure"
         /\ reply' = [reply EXCEPT ![r] = told]

\* A normal return, an exception, a response of status 500 or more, or an
\* interrupt.
HandlerEnds(r) ==
  /\ phase[r] = "handling"
  /\ \E how \in {"ok", "error", "server_error", "interrupt"} :
       /\ how = "server_error" => KnowsStatus
       /\ how = "interrupt" => "interrupt" \in Faults
       /\ End(r, how)
       /\ Sends(r, how)
  /\ UNCHANGED <<serverVars, scopeVars, wrote>>

-----------------------------------------------------------------------------
(* RequestScope.finalize and TransactionScope.finalize.                    *)

\* Flask's teardown hook sees every exception; the except clauses of the other
\* adapters see only those that are Exceptions.
Finalizes(r) == fate[r] = "interrupt" => Adapter = "flask"

\* Mutant: the status of the response is not looked at.
MutantRequestFailed(r) == fate[r] \in {"error", "interrupt"}

request_failed(r) == fate[r] # "ok"

\* What TransactionScope.finalize does with the transaction.
Settlement(r) ==
  IF request_failed(r) THEN "abort"
  ELSE CASE Policy = "commit_on_success" -> "commit"
         [] Policy = "abort_on_exit" -> "abort"
         [] Policy = "manual" -> "release"

\* A scope that never had a session has nothing to finalize.
BeginFinalize(r) ==
  /\ phase[r] = "ended"
  /\ phase' = [phase EXCEPT ![r] =
       IF session[r] = NoSession \/ ~Finalizes(r) THEN "reply" ELSE Settlement(r)]
  /\ UNCHANGED <<serverVars, scopeVars, fate, wrote, reply>>

\* Mutant: a failed commit is not raised again.
MutantCommitSwallows(r) ==
  /\ phase[r] = "commit"
  /\ \/ /\ stone' = stone \cup pending[session[r]]
        /\ pending' = [pending EXCEPT ![session[r]] = {}]
        /\ clean' = [clean EXCEPT ![r] = TRUE]
        /\ phase' = [phase EXCEPT ![r] = "release"]
     \/ /\ "commit" \in Faults
        /\ phase' = [phase EXCEPT ![r] = "abort_after"]
        /\ UNCHANGED <<stone, pending, clean>>
  /\ UNCHANGED <<open, lessee, session, raised, discard, fate, wrote, reply>>

\* Mutant: no abort after a failed commit, and the session counts as clean.
MutantCommitSkipsAbort(r) ==
  /\ phase[r] = "commit"
  /\ "commit" \in Faults
  /\ clean' = [clean EXCEPT ![r] = TRUE]
  /\ raised' = [raised EXCEPT ![r] = TRUE]
  /\ phase' = [phase EXCEPT ![r] = "release"]
  /\ UNCHANGED <<open, lessee, pending, stone, session, discard, fate, wrote, reply>>

\* A commit commits whatever was written through the session.
Commit(r) ==
  LET Committed == /\ stone' = stone \cup pending[session[r]]
                   /\ pending' = [pending EXCEPT ![session[r]] = {}]
      Fails == /\ raised' = [raised EXCEPT ![r] = TRUE]
               /\ phase' = [phase EXCEPT ![r] = "abort_after"]
               /\ UNCHANGED clean
  IN
  /\ phase[r] = "commit"
  /\ \/ /\ Committed
        /\ clean' = [clean EXCEPT ![r] = TRUE]
        /\ phase' = [phase EXCEPT ![r] = "release"]
        /\ UNCHANGED raised
     \/ "commit" \in Faults /\ Fails /\ UNCHANGED <<stone, pending>>
     \/ "lost_answer" \in Faults /\ Fails /\ Committed
  /\ UNCHANGED <<open, lessee, session, discard, fate, wrote, reply>>

\* Mutant: an abort that failed counts as done.
MutantAbort(r) ==
  /\ phase[r] \in {"abort", "abort_after"}
  /\ pending' \in {pending, [pending EXCEPT ![session[r]] = {}]}
  /\ clean' = [clean EXCEPT ![r] = TRUE]
  /\ phase' = [phase EXCEPT ![r] = "release"]
  /\ UNCHANGED <<open, lessee, stone, session, discard, raised, fate, wrote, reply>>

\* The abort of a failed request or commit reports its own failure as discard;
\* that of an ABORT_ON_EXIT success raises and leaves the outcome at none.
Abort(r) ==
  LET reports == phase[r] = "abort_after" \/ request_failed(r) IN
  /\ phase[r] \in {"abort", "abort_after"}
  /\ \/ /\ pending' = [pending EXCEPT ![session[r]] = {}]
        /\ clean' = [clean EXCEPT ![r] = TRUE]
        /\ UNCHANGED <<discard, raised>>
     \/ /\ "abort" \in Faults
        /\ discard' = [discard EXCEPT ![r] = reports]
        /\ raised' = [raised EXCEPT ![r] = @ \/ ~reports]
        /\ UNCHANGED <<pending, clean>>
  /\ phase' = [phase EXCEPT ![r] = "release"]
  /\ UNCHANGED <<open, lessee, stone, session, fate, wrote, reply>>

\* Mutant: the session is given back in the except clauses, not in a finally.
MutantSettleInterrupted(r) ==
  /\ phase[r] \in {"commit", "abort_after", "abort"}
  /\ "interrupt" \in Faults
  /\ raised' = [raised EXCEPT ![r] = TRUE]
  /\ phase' = [phase EXCEPT ![r] = "reply"]
  /\ UNCHANGED <<serverVars, session, clean, discard, fate, wrote, reply>>

\* An interrupt in a commit or an abort passes all the except clauses, whether
\* or not the server has done it, and the outcome stays neither clean nor to
\* be discarded.
SettleInterrupted(r) ==
  LET s == session[r] IN
  /\ phase[r] \in {"commit", "abort_after", "abort"}
  /\ "interrupt" \in Faults
  /\ \/ UNCHANGED <<stone, pending>>
     \/ /\ stone' = IF phase[r] = "commit" THEN stone \cup pending[s] ELSE stone
        /\ pending' = [pending EXCEPT ![s] = {}]
  /\ raised' = [raised EXCEPT ![r] = TRUE]
  /\ phase' = [phase EXCEPT ![r] = "release"]
  /\ UNCHANGED <<open, lessee, session, clean, discard, fate, wrote, reply>>

\* Mutant: a session to be discarded is logged out behind the provider's back.
MutantRelease(r) ==
  LET s == session[r] IN
  /\ phase[r] = "release"
  /\ phase' = [phase EXCEPT ![r] = "reply"]
  /\ session' = [session EXCEPT ![r] = NoSession]
  /\ IF discard[r] THEN UNCHANGED lessee
     ELSE lessee' = [lessee EXCEPT ![s] = NoRequest]
  /\ pending' = [pending EXCEPT ![s] = {}]
  /\ UNCHANGED <<open, stone, clean, discard, raised, fate, wrote, reply>>

\* A session to be discarded, or of no provider, is closed.
Closes(r) == discard[r] \/ ~Pooled

\* The finally clause: back to the provider, which closes a session to be
\* discarded, trusts a clean one and resets any other; or logout.
Release(r) ==
  LET s == session[r]
      Gone == /\ lessee' = [lessee EXCEPT ![s] = NoRequest]
              /\ session' = [session EXCEPT ![r] = NoSession]
              /\ phase' = [phase EXCEPT ![r] = "reply"]
  IN
  /\ phase[r] = "release"
  /\ \/ /\ Closes(r)
        /\ open' = open \ {s}
        /\ pending' = [pending EXCEPT ![s] = {}]
        /\ Gone
     \/ ~Closes(r) /\ clean[r] /\ Gone /\ UNCHANGED <<open, pending>>
     \/ /\ ~Closes(r) /\ ~clean[r]
        /\ phase' = [phase EXCEPT ![r] = "reset"]
        /\ UNCHANGED <<open, lessee, pending, session>>
  /\ UNCHANGED <<stone, clean, discard, raised, fate, wrote, reply>>

\* The provider aborts the session, and takes it back when that has worked.
ProviderResets(r) ==
  /\ phase[r] = "reset"
  /\ \/ /\ pending' = [pending EXCEPT ![session[r]] = {}]
        /\ clean' = [clean EXCEPT ![r] = TRUE]
        /\ UNCHANGED discard
     \/ /\ "reset" \in Faults
        /\ discard' = [discard EXCEPT ![r] = TRUE]
        /\ UNCHANGED <<pending, clean>>
  /\ phase' = [phase EXCEPT ![r] = "release"]
  /\ UNCHANGED <<open, lessee, stone, session, raised, fate, wrote, reply>>

\* An exception that left the handler or finalize goes on through the adapter
\* and makes the response a failure, unless a response was sent before.
Reply(r) ==
  /\ phase[r] = "reply"
  /\ reply' = [reply EXCEPT ![r] =
       IF @ # "none" THEN @
       ELSE IF fate[r] = "ok" /\ ~raised[r] THEN "success" ELSE "failure"]
  /\ phase' = [phase EXCEPT ![r] = "done"]
  /\ UNCHANGED <<serverVars, scopeVars, fate, wrote>>

-----------------------------------------------------------------------------
\* What the code does with a request whose handler is left to end.
Serve(r) ==
  /\ UNCHANGED mode
  /\ \/ GetSession(r) \/ HandlerEnds(r) \/ BeginFinalize(r) \/ Commit(r)
     \/ Abort(r) \/ Release(r) \/ ProviderResets(r) \/ Reply(r)

\* What a handler asks for it need not ask.
Handle(r) == UNCHANGED mode /\ (AskSession(r) \/ Write(r) \/ HandlerCommits(r))

\* Nothing has to end a wait, and nothing to interrupt a request.
Trouble(r) == UNCHANGED mode /\ (AcquireFails(r) \/ SettleInterrupted(r))

Step(r) == Serve(r) \/ Handle(r) \/ Trouble(r)

Next == \E r \in Requests : Step(r)

Spec == Init /\ [][Next]_vars

\* The interpreter runs every request's thread, the server answers its calls,
\* a handler returns, and the provider serves one that waits.
FairSpec == Spec /\ \A r \in Requests : WF_vars(Serve(r))

-----------------------------------------------------------------------------
(* Properties.                                                             *)

\* Only a request that ended well under COMMIT_ON_SUCCESS has its writes
\* committed: an abort that fails on the way, another request that commits on
\* the same session later, or a retry never makes a failed request's writes
\* permanent.
OnlySuccessCommits ==
  Policy # "manual" =>
    \A r \in stone : fate[r] = "ok" /\ Policy = "commit_on_success"

\* Under COMMIT_ON_SUCCESS a client told of success finds its writes in the
\* database: no failed, interrupted or unanswered commit is answered as a
\* success.  The ASGI middleware commits after the response; there a success
\* that is none is followed by an exception to the server.
SuccessIsDurable ==
  Policy = "commit_on_success" =>
    \A r \in Requests :
      phase[r] = "done" /\ reply[r] = "success" /\ wrote[r] =>
        \/ r \in stone
        \/ Adapter = "asgi" /\ (fate[r] # "ok" \/ raised[r])

\* A transaction holds the writes of the request that borrowed the session and
\* of no other, so that no request commits or aborts the work of another.
OwnWritesOnly ==
  \A r \in Requests :
    session[r] # NoSession => pending[session[r]] \subseteq {r}

\* A request that is over holds no session (web.py: "Pooled sessions are
\* finalized and returned to the pool when the context exits").
SessionReturned ==
  \A r \in Requests :
    phase[r] = "done" => \A s \in Sessions : lessee[s] # r

\* What is left of it: whatever fails or is interrupted, in the handler or in
\* finalize, the session comes back, but for a handler that was interrupted
\* where no except clause of the adapter sees it (all but Flask's hook).
SessionsComeBack ==
  \A r \in Requests :
    phase[r] = "done" =>
      \/ \A s \in Sessions : lessee[s] # r
      \/ fate[r] = "interrupt" /\ Adapter # "flask"

\* Every request ends, though nothing makes a waiting one give up: only as many
\* interrupted handlers as the provider has sessions starve the rest.
Stranded ==
  {s \in Sessions : \E r \in Requests :
     lessee[s] = r /\ fate[r] = "interrupt" /\ Adapter # "flask"}

Starved(r) ==
  phase[r] = "acquiring" /\ Pooled /\ Cardinality(Stranded) >= Bound

RequestsEnd == \A r \in Requests : <>(phase[r] = "done" \/ Starved(r))

\* The adapters lease sessions as a provider expects: a session given back as
\* clean has no changes in it, one that has is reset or closed first.  The
\* number of sessions is the provider's business, not the adapters'.
Leasing == INSTANCE SessionLeasing WITH
  Threads <- Requests,
  Bound <- Cardinality(Sessions),
  Nobody <- NoRequest,
  tainted <- {s \in Sessions : pending[s] # {}}
LeasingSpec == Leasing!Spec
=============================================================================
