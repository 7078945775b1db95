----------------------- MODULE RequestLifecycleProofs -----------------------
(***************************************************************************)
(* Proofs about RequestLifecycle for every number of requests and sessions *)
(* and every set of setups.                                                *)
(***************************************************************************)
EXTENDS RequestLifecycle, FiniteSetTheorems, TLAPS

-----------------------------------------------------------------------------
(* Requests and sessions refer to each other, a session nobody has carries *)
(* no writes, and one that somebody has carries those of nobody else.      *)
Leases ==
  /\ \A r \in Requests : session[r] # NoSession =>
       lessee[session[r]] = r /\ session[r] \in open
  /\ \A s \in Sessions : lessee[s] # NoRequest => session[lessee[s]] = s
  /\ \A s \in Sessions : pending[s] \subseteq {lessee[s]} \ {NoRequest}

(* What the phase of a request says of it.                                 *)
Stage(r) ==
  /\ phase[r] \in {"handling", "acquiring"} <=> fate[r] = "none"
  /\ phase[r] = "acquiring" => session[r] = NoSession
  /\ phase[r] \in {"commit", "abort_after", "abort", "release", "reset"}
       => session[r] # NoSession
  /\ phase[r] \in {"reply", "done"} /\ Finalizes(r) => session[r] = NoSession
  /\ fate[r] = "interrupt" => "interrupt" \in Faults
  /\ phase[r] = "commit" => fate[r] = "ok" /\ Policy = "commit_on_success"
  /\ clean[r] => phase[r] \in {"release", "reply", "done"}
  /\ clean[r] /\ phase[r] = "release" => pending[session[r]] = {}
  /\ reply[r] = "success" /\ Adapter # "asgi" =>
       phase[r] = "done" /\ fate[r] = "ok" /\ ~raised[r]

(* Under COMMIT_ON_SUCCESS what a request that is doing well has written   *)
(* is committed, or in its session and about to be.                        *)
Kept(r) ==
  Policy = "commit_on_success" /\ wrote[r] /\ fate[r] \in {"none", "ok"}
    /\ ~raised[r]
  => \/ r \in stone
     \/ /\ phase[r] \in {"handling", "ended", "commit"}
        /\ session[r] # NoSession
        /\ r \in pending[session[r]]

IInv ==
  /\ TypeOK
  /\ Leases
  /\ \A r \in Requests : Stage(r)
  /\ \A r \in Requests : Kept(r)
  /\ OnlySuccessCommits

-----------------------------------------------------------------------------
(* The policy of every setup is one of the three.                          *)
LEMMA PolicyKnown ==
  ASSUME TypeOK
  PROVE  Policy \in Policies
BY ModesAssumption DEF TypeOK, Setups, Policy

LEMMA IInvInit ==
  ASSUME Init
  PROVE  IInv
<1> USE RequestsAssumption, SessionsAssumption
<1>1. TypeOK
  BY DEF Init, TypeOK, Phases, Fates, Replies
<1>2. Leases
  BY DEF Init, Leases
<1>3. \A r \in Requests : Stage(r)
  BY DEF Init, Stage
<1>4. \A r \in Requests : Kept(r)
  BY DEF Init, Kept
<1>5. OnlySuccessCommits
  BY DEF Init, OnlySuccessCommits
<1>6. QED  BY <1>1, <1>2, <1>3, <1>4, <1>5 DEF IInv

LEMMA TypeStep ==
  ASSUME IInv, NEW r \in Requests, Step(r)
  PROVE  TypeOK'
<1> USE DEF IInv, TypeOK, Phases, Fates, Replies, serverVars, scopeVars,
            End
<1>0. mode' = mode
  BY DEF Step, Serve, Handle, Trouble
<1>s. session[r] # NoSession => session[r] \in Sessions
  OBVIOUS
<1> USE <1>0, <1>s
<1>1. CASE GetSession(r)  BY <1>1 DEF GetSession
<1>2. CASE HandlerEnds(r)  BY <1>2 DEF HandlerEnds, Sends
<1>3. CASE BeginFinalize(r)
  BY <1>3, PolicyKnown DEF BeginFinalize, Settlement, Policies
<1>4. CASE Commit(r)
  <2>1. session[r] \in Sessions
    BY <1>4 DEF Commit, Stage
  <2>2. stone \cup pending[session[r]] \subseteq Requests
    BY <2>1
  <2>3. /\ stone' \subseteq Requests
        /\ pending' \in [Sessions -> SUBSET Requests]
    BY <1>4, <2>1, <2>2 DEF Commit
  <2>4. /\ clean' \in [Requests -> BOOLEAN]
        /\ raised' \in [Requests -> BOOLEAN]
        /\ phase' \in [Requests -> Phases]
    <3>1. /\ clean' = clean \/ clean' = [clean EXCEPT ![r] = TRUE]
          /\ raised' = raised \/ raised' = [raised EXCEPT ![r] = TRUE]
          /\ \/ phase' = [phase EXCEPT ![r] = "release"]
             \/ phase' = [phase EXCEPT ![r] = "abort_after"]
      BY <1>4, Zenon DEF Commit
    <3>2. QED  BY <3>1
  <2>5. QED  BY <1>4, <2>3, <2>4 DEF Commit
<1>5. CASE Abort(r)
  <2> DEFINE reports == phase[r] = "abort_after" \/ request_failed(r)
  <2>1. \/ discard' = discard /\ raised' = raised
        \/ /\ discard' = [discard EXCEPT ![r] = reports]
           /\ raised' = [raised EXCEPT ![r] = raised[r] \/ ~reports]
    BY <1>5 DEF Abort
  <2>2. /\ reports \in BOOLEAN
        /\ (raised[r] \/ ~reports) \in BOOLEAN
    BY DEF request_failed
  <2>3. /\ discard' \in [Requests -> BOOLEAN]
        /\ raised' \in [Requests -> BOOLEAN]
    <3> HIDE DEF reports
    <3>1. QED  BY <2>1, <2>2
  <2>4. QED  BY <1>5, <2>3 DEF Abort
<1>6. CASE Release(r)  BY <1>6 DEF Release, Closes
<1>7. CASE ProviderResets(r)  BY <1>7 DEF ProviderResets
<1>8. CASE Reply(r)  BY <1>8 DEF Reply
<1>9. CASE AskSession(r)  BY <1>9 DEF AskSession
<1>10. CASE Write(r)  BY <1>10 DEF Write
<1>11. CASE HandlerCommits(r)  BY <1>11 DEF HandlerCommits
<1>12. CASE AcquireFails(r)  BY <1>12 DEF AcquireFails
<1>13. CASE SettleInterrupted(r)
  <2>1. session[r] \in Sessions
    BY <1>13 DEF SettleInterrupted, Stage
  <2>2. stone \cup pending[session[r]] \subseteq Requests
    BY <2>1
  <2>3. /\ stone' \subseteq Requests
        /\ pending' \in [Sessions -> SUBSET Requests]
    BY <1>13, <2>1, <2>2 DEF SettleInterrupted
  <2>4. QED  BY <1>13, <2>3 DEF SettleInterrupted
<1>14. QED
  BY <1>1, <1>2, <1>3, <1>4, <1>5, <1>6, <1>7, <1>8, <1>9, <1>10, <1>11,
     <1>12, <1>13
  DEF Step, Serve, Handle, Trouble

(* Every step keeps the leases.                                            *)
LEMMA LeasesStep ==
  ASSUME IInv, TypeOK', NEW r \in Requests, Step(r)
  PROVE  Leases'
<1> USE RequestsAssumption, SessionsAssumption
    DEF IInv, TypeOK, Leases, serverVars, scopeVars, End
<1>t. /\ r # NoRequest
      /\ phase[r] \in {"commit", "abort_after", "abort", "release", "reset"}
           => session[r] \in Sessions
      /\ clean[r] /\ phase[r] = "release" => pending[session[r]] = {}
  BY DEF Stage
<1> USE <1>t
<1>1. CASE GetSession(r)
  <2>1. session[r] = NoSession
    BY <1>1 DEF GetSession, Stage
  <2>3. ASSUME NEW s \in Sessions, Available(s),
               lessee' = [lessee EXCEPT ![s] = r],
               session' = [session EXCEPT ![r] = s],
               open' = open \cup {s}, pending' = pending
        PROVE  Leases'
    <3>1. lessee[s] = NoRequest
      BY <2>3 DEF Available
    <3>2. \A q \in Requests : session[q] # s
      BY <3>1
    <3>3. pending[s] = {}
      BY <3>1
    <3>4. \A q \in Requests : session'[q] # NoSession =>
            lessee'[session'[q]] = q /\ session'[q] \in open'
      BY <2>3, <3>2
    <3>5. \A x \in Sessions : lessee'[x] # NoRequest => session'[lessee'[x]] = x
      BY <2>1, <2>3, <3>1
    <3>6. \A x \in Sessions : pending'[x] \subseteq {lessee'[x]} \ {NoRequest}
      BY <2>3, <3>3
    <3>7. QED  BY <3>4, <3>5, <3>6
  <2>4. QED  BY <1>1, <2>3 DEF GetSession
<1>2. CASE HandlerEnds(r)  BY <1>2 DEF HandlerEnds, Sends
<1>3. CASE BeginFinalize(r)  BY <1>3 DEF BeginFinalize, Settlement
<1>4. CASE Commit(r)  BY <1>4 DEF Commit
<1>5. CASE Abort(r)  BY <1>5 DEF Abort
<1>6. CASE Release(r)  BY <1>6 DEF Release, Closes
<1>7. CASE ProviderResets(r)  BY <1>7 DEF ProviderResets
<1>8. CASE Reply(r)  BY <1>8 DEF Reply
<1>9. CASE AskSession(r)  BY <1>9 DEF AskSession
<1>10. CASE Write(r)  BY <1>10 DEF Write
<1>11. CASE HandlerCommits(r)  BY <1>11 DEF HandlerCommits
<1>12. CASE AcquireFails(r)  BY <1>12 DEF AcquireFails
<1>13. CASE SettleInterrupted(r)  BY <1>13 DEF SettleInterrupted
<1>14. QED
  BY <1>1, <1>2, <1>3, <1>4, <1>5, <1>6, <1>7, <1>8, <1>9, <1>10, <1>11,
     <1>12, <1>13
  DEF Step, Serve, Handle, Trouble

(* Every step keeps each request at its stage.                              *)
LEMMA StageStep ==
  ASSUME IInv, TypeOK', NEW r \in Requests, Step(r)
  PROVE  \A q \in Requests : Stage(q)'
<1> SUFFICES ASSUME NEW q \in Requests PROVE Stage(q)'
  OBVIOUS
<1>0. UNCHANGED <<Policy, Faults, Adapter>>
  BY DEF Step, Serve, Handle, Trouble, Policy, Faults, Adapter
<1>s. /\ Stage(q) /\ Stage(r)
      /\ q # r /\ session[r] # NoSession => session[q] # session[r]
  BY DEF IInv, Leases
<1>p. Policy \in Policies
  BY PolicyKnown DEF IInv
<1> USE <1>0, <1>s, <1>p
    DEF IInv, TypeOK, Stage, serverVars, scopeVars, End, Finalizes, Policies
<1>1. CASE GetSession(r)  BY <1>1 DEF GetSession
<1>2. CASE HandlerEnds(r)  BY <1>2 DEF HandlerEnds, Sends
<1>3. CASE BeginFinalize(r)  BY <1>3 DEF BeginFinalize, Settlement, request_failed
<1>4. CASE Commit(r)  BY <1>4 DEF Commit
<1>5. CASE Abort(r)  BY <1>5 DEF Abort, request_failed
<1>6. CASE Release(r)  BY <1>6 DEF Release, Closes
<1>7. CASE ProviderResets(r)  BY <1>7 DEF ProviderResets
<1>8. CASE Reply(r)  BY <1>8 DEF Reply
<1>9. CASE AskSession(r)  BY <1>9 DEF AskSession
<1>10. CASE Write(r)  BY <1>10 DEF Write
<1>11. CASE HandlerCommits(r)  BY <1>11 DEF HandlerCommits
<1>12. CASE AcquireFails(r)  BY <1>12 DEF AcquireFails
<1>13. CASE SettleInterrupted(r)  BY <1>13 DEF SettleInterrupted
<1>14. QED
  BY <1>1, <1>2, <1>3, <1>4, <1>5, <1>6, <1>7, <1>8, <1>9, <1>10, <1>11,
     <1>12, <1>13
  DEF Step, Serve, Handle, Trouble

(* Every step keeps what was written, or commits it.                        *)
LEMMA KeptStep ==
  ASSUME IInv, TypeOK', NEW r \in Requests, Step(r)
  PROVE  \A q \in Requests : Kept(q)'
<1> SUFFICES ASSUME NEW q \in Requests PROVE Kept(q)'
  OBVIOUS
<1>0. UNCHANGED <<Policy, Adapter>>
  BY DEF Step, Serve, Handle, Trouble, Policy, Adapter
<1>s. /\ Stage(q) /\ Stage(r) /\ Kept(q) /\ Stage(q)'
      /\ q # r /\ session[r] # NoSession => session[q] # session[r]
  BY StageStep DEF IInv, Leases
<1> USE <1>0, <1>s
    DEF IInv, TypeOK, Stage, Kept, serverVars, scopeVars, End, Finalizes
<1>1. CASE GetSession(r)  BY <1>1 DEF GetSession
<1>2. CASE HandlerEnds(r)  BY <1>2 DEF HandlerEnds, Sends
<1>3. CASE BeginFinalize(r)  BY <1>3 DEF BeginFinalize, Settlement, request_failed
<1>4. CASE Commit(r)  BY <1>4 DEF Commit
<1>5. CASE Abort(r)  BY <1>5 DEF Abort, request_failed
<1>6. CASE Release(r)  BY <1>6 DEF Release, Closes
<1>7. CASE ProviderResets(r)  BY <1>7 DEF ProviderResets
<1>8. CASE Reply(r)  BY <1>8 DEF Reply
<1>9. CASE AskSession(r)  BY <1>9 DEF AskSession
<1>10. CASE Write(r)  BY <1>10 DEF Write
<1>11. CASE HandlerCommits(r)  BY <1>11 DEF HandlerCommits
<1>12. CASE AcquireFails(r)  BY <1>12 DEF AcquireFails
<1>13. CASE SettleInterrupted(r)  BY <1>13 DEF SettleInterrupted
<1>14. QED
  BY <1>1, <1>2, <1>3, <1>4, <1>5, <1>6, <1>7, <1>8, <1>9, <1>10, <1>11,
     <1>12, <1>13
  DEF Step, Serve, Handle, Trouble

(* Every step commits the writes of successes only.                         *)
LEMMA OnlyStep ==
  ASSUME IInv, TypeOK', NEW r \in Requests, Step(r)
  PROVE  OnlySuccessCommits'
<1>0. UNCHANGED <<Policy, Adapter>>
  BY DEF Step, Serve, Handle, Trouble, Policy, Adapter
<1>s. /\ Stage(r)
      /\ session[r] \in Sessions => pending[session[r]] \subseteq {r}
      /\ session[r] # NoSession => session[r] \in Sessions
  <2>1. Stage(r)
    BY DEF IInv
  <2>2. session[r] \in Sessions \cup {NoSession}
    BY DEF IInv, TypeOK
  <2>3. ASSUME session[r] \in Sessions
        PROVE  pending[session[r]] \subseteq {r}
    <3>1. lessee[session[r]] = r
      BY <2>3, SessionsAssumption DEF IInv, Leases
    <3>2. pending[session[r]] \subseteq {lessee[session[r]]} \ {NoRequest}
      BY <2>3 DEF IInv, Leases
    <3>3. QED  BY <3>1, <3>2
  <2>4. QED  BY <2>1, <2>2, <2>3
<1>f. \A q \in stone : q \in Requests
  BY DEF IInv, TypeOK
<1> USE <1>0, <1>s, <1>f
    DEF IInv, TypeOK, Stage, OnlySuccessCommits, serverVars, scopeVars, End
<1>1. CASE GetSession(r)  BY <1>1 DEF GetSession
<1>2. CASE HandlerEnds(r)  BY <1>2 DEF HandlerEnds, Sends
<1>3. CASE BeginFinalize(r)  BY <1>3 DEF BeginFinalize, Settlement
<1>4. CASE Commit(r)  BY <1>4 DEF Commit
<1>5. CASE Abort(r)  BY <1>5 DEF Abort
<1>6. CASE Release(r)  BY <1>6 DEF Release, Closes
<1>7. CASE ProviderResets(r)  BY <1>7 DEF ProviderResets
<1>8. CASE Reply(r)  BY <1>8 DEF Reply
<1>9. CASE AskSession(r)  BY <1>9 DEF AskSession
<1>10. CASE Write(r)  BY <1>10 DEF Write
<1>11. CASE HandlerCommits(r)  BY <1>11 DEF HandlerCommits
<1>12. CASE AcquireFails(r)  BY <1>12 DEF AcquireFails
<1>13. CASE SettleInterrupted(r)  BY <1>13 DEF SettleInterrupted
<1>14. QED
  BY <1>1, <1>2, <1>3, <1>4, <1>5, <1>6, <1>7, <1>8, <1>9, <1>10, <1>11,
     <1>12, <1>13
  DEF Step, Serve, Handle, Trouble

(* The invariant holds in every reachable state.                           *)
THEOREM Invariance == Spec => []IInv
<1>1. Init => IInv
  BY IInvInit
<1>2. IInv /\ [Next]_vars => IInv'
  <2> SUFFICES ASSUME IInv, [Next]_vars PROVE IInv'
    OBVIOUS
  <2>1. ASSUME NEW r \in Requests, Step(r) PROVE IInv'
    <3>1. TypeOK'
      BY <2>1, TypeStep
    <3>2. QED
      BY <2>1, <3>1, LeasesStep, StageStep, KeptStep, OnlyStep DEF IInv
  <2>2. CASE UNCHANGED vars
    <3> USE <2>2 DEF IInv, vars, serverVars, scopeVars, requestVars
    <3>1. TypeOK'
      BY DEF TypeOK
    <3>2. Leases'
      BY DEF Leases
    <3>3. \A r \in Requests : Stage(r)'
      BY DEF Stage, Finalizes, Faults, Policy, Adapter
    <3>4. \A r \in Requests : Kept(r)'
      BY DEF Kept, Policy
    <3>5. OnlySuccessCommits'
      BY DEF OnlySuccessCommits, Policy
    <3>6. QED  BY <3>1, <3>2, <3>3, <3>4, <3>5
  <2>3. QED  BY <2>1, <2>2 DEF Next
<1>3. QED  BY <1>1, <1>2, PTL DEF Spec

(* Type correctness: sessions, transactions and outcomes stay within their *)
(* types (RequestScope and TransactionScope of web_core.py).               *)
THEOREM TypeCorrect == Spec => []TypeOK
<1>1. IInv => TypeOK
  BY DEF IInv
<1>2. QED  BY <1>1, Invariance, PTL

(* No request that did not end well under COMMIT_ON_SUCCESS has its writes *)
(* committed by the scopes (TransactionScope.finalize in web_core.py).     *)
THEOREM OnlySuccessTheorem == Spec => []OnlySuccessCommits
<1>1. IInv => OnlySuccessCommits
  BY DEF IInv
<1>2. QED  BY <1>1, Invariance, PTL

(* A client told of success under COMMIT_ON_SUCCESS finds its writes in    *)
(* the database, failed commits and lost answers notwithstanding.          *)
THEOREM DurabilityTheorem == Spec => []SuccessIsDurable
<1>1. IInv => SuccessIsDurable
  <2> SUFFICES ASSUME IInv, Policy = "commit_on_success",
                      NEW r \in Requests, phase[r] = "done",
                      reply[r] = "success", wrote[r],
                      Adapter = "asgi" => fate[r] = "ok" /\ ~raised[r]
               PROVE  r \in stone
    BY DEF SuccessIsDurable
  <2>1. fate[r] = "ok" /\ ~raised[r]
    BY DEF IInv, Stage
  <2>2. Kept(r)
    BY DEF IInv
  <2>3. QED  BY <2>1, <2>2 DEF Kept
<1>2. QED  BY <1>1, Invariance, PTL

(* No request writes into, commits or aborts the transaction of another,   *)
(* however sessions go round through the provider.                         *)
THEOREM OwnWritesTheorem == Spec => []OwnWritesOnly
<1>1. IInv => OwnWritesOnly
  <2> SUFFICES ASSUME IInv, NEW r \in Requests, session[r] # NoSession
               PROVE  pending[session[r]] \subseteq {r}
    BY DEF OwnWritesOnly
  <2>1. session[r] \in Sessions
    BY DEF IInv, TypeOK
  <2>2. lessee[session[r]] = r
    BY DEF IInv, Leases
  <2>3. pending[session[r]] \subseteq {lessee[session[r]]} \ {NoRequest}
    BY <2>1 DEF IInv, Leases
  <2>4. QED  BY <2>2, <2>3
<1>2. QED  BY <1>1, Invariance, PTL

(* Every request gives its session back, whatever call of finalize fails   *)
(* or is interrupted; only an interrupted handler may keep it, and under    *)
(* Flask no handler does.                                                  *)
THEOREM ReturnTheorem == Spec => []SessionsComeBack
<1>1. IInv => SessionsComeBack
  <2> SUFFICES ASSUME IInv, NEW r \in Requests, phase[r] = "done",
                      NEW s \in Sessions, lessee[s] = r,
                      ~(fate[r] = "interrupt" /\ Adapter # "flask")
               PROVE  FALSE
    BY DEF SessionsComeBack
  <2>1. Finalizes(r)
    BY DEF Finalizes
  <2>2. session[r] = NoSession
    BY <2>1 DEF IInv, Stage
  <2>3. session[r] = s
    BY RequestsAssumption DEF IInv, Leases
  <2>4. QED  BY <2>2, <2>3, SessionsAssumption
<1>2. QED  BY <1>1, Invariance, PTL

-----------------------------------------------------------------------------
(* The refinement of SessionLeasing.  The sessions in whose transactions   *)
(* something was written, as the abstract specification sees them.         *)
Tainted == {s \in Sessions : pending[s] # {}}

LEMMA TaintChange ==
  ASSUME TypeOK, NEW s \in Sessions, NEW P,
         pending' = [pending EXCEPT ![s] = P]
  PROVE  /\ P # {} => Tainted' = Tainted \cup {s}
         /\ P = {} => Tainted' = Tainted \ {s}
BY DEF TypeOK, Tainted

LEMMA StutterMaps ==
  ASSUME UNCHANGED <<open, lessee, pending>>
  PROVE  [Leasing!Next]_(Leasing!leaseVars)
BY DEF Leasing!leaseVars

(* A request that settles or writes in its transaction works on its lease. *)
LEMMA WorkMaps ==
  ASSUME TypeOK, Leases, NEW r \in Requests, NEW s \in Sessions,
         session[r] = s,
         NEW P, pending' = [pending EXCEPT ![s] = P],
         UNCHANGED <<open, lessee>>
  PROVE  Leasing!Next
<1>1. lessee[s] = r /\ s \in open
  BY SessionsAssumption DEF Leases
<1>2. Tainted' \in {Tainted \cup {s}, Tainted \ {s}}
  BY TaintChange
<1>3. Leasing!Work(r, s)
  BY <1>1, <1>2 DEF Leasing!Work, Tainted
<1>4. QED  BY <1>3 DEF Leasing!Next

(* A request that gets a session opens or borrows it.                      *)
LEMMA LendMaps ==
  ASSUME TypeOK, Leases, NEW r \in Requests, NEW s \in Sessions, Available(s),
         open' = open \cup {s}, lessee' = [lessee EXCEPT ![s] = r],
         UNCHANGED pending
  PROVE  Leasing!Next
<1>1. lessee[s] = NoRequest
  BY SessionsAssumption DEF Available, Leases, TypeOK
<1>2. CASE s \in open
  <2>1. Leasing!Borrow(r, s)
    BY <1>1, <1>2 DEF Leasing!Borrow
  <2>2. QED  BY <2>1 DEF Leasing!Next
<1>3. CASE s \notin open
  <2>1. open \subseteq Sessions \ {s}
    BY <1>3 DEF TypeOK
  <2>2. /\ IsFiniteSet(Sessions \ {s})
        /\ Cardinality(Sessions \ {s}) = Cardinality(Sessions) - 1
    BY SessionsAssumption, FS_RemoveElement
  <2>3. Cardinality(open) <= Cardinality(Sessions) - 1
    BY <2>1, <2>2, FS_Subset
  <2>4. Cardinality(open) \in Nat /\ Cardinality(Sessions) \in Nat
    BY <2>1, <2>2, SessionsAssumption, FS_Subset, FS_CardinalityType
  <2>5. Cardinality(open) < Cardinality(Sessions)
    BY <2>3, <2>4
  <2>6. Leasing!Cardinality(open) = Cardinality(open)
    BY DEF Cardinality, Leasing!Cardinality
  <2>7. Leasing!Open(r, s)
    BY <1>1, <1>3, <2>5, <2>6 DEF Leasing!Open
  <2>8. QED  BY <2>7 DEF Leasing!Next
<1>4. QED  BY <1>2, <1>3

(* Release closes the session, passes a clean one on, or goes to reset it. *)
LEMMA ReleaseMaps ==
  ASSUME IInv, NEW r \in Requests, Release(r)
  PROVE  [Leasing!Next]_(Leasing!leaseVars)
<1>0. PICK s \in Sessions : session[r] = s
  BY DEF IInv, TypeOK, Stage, Release, Closes
<1>1. lessee[s] = r /\ s \in open
  BY <1>0, SessionsAssumption DEF IInv, Leases
<1>2. clean[r] => pending[s] = {}
  BY <1>0 DEF IInv, Stage, Release, Closes
<1>3. CASE open' = open \ {s} /\ pending' = [pending EXCEPT ![s] = {}]
           /\ lessee' = [lessee EXCEPT ![s] = NoRequest]
  <2>1. Tainted' = Tainted \ {s}
    BY <1>1, <1>3, TaintChange DEF IInv
  <2>2. Leasing!Shut(r, s)
    BY <1>1, <1>3, <2>1 DEF Leasing!Shut, Tainted
  <2>3. QED  BY <1>1, <2>2 DEF Leasing!Next
<1>4. CASE clean[r] /\ UNCHANGED <<open, pending>>
           /\ lessee' = [lessee EXCEPT ![s] = NoRequest]
  <2>1. Leasing!GiveBack(r, s)
    BY <1>1, <1>2, <1>4 DEF Leasing!GiveBack
  <2>2. QED  BY <1>1, <2>1 DEF Leasing!Next
<1>5. CASE UNCHANGED <<open, lessee, pending>>
  BY <1>5, StutterMaps
<1>6. QED  BY <1>0, <1>3, <1>4, <1>5 DEF Release, Closes

LEMMA RefinementStep ==
  ASSUME IInv, NEW r \in Requests, Step(r)
  PROVE  [Leasing!Next]_(Leasing!leaseVars)
<1>0. TypeOK /\ Leases /\ Stage(r)
  BY DEF IInv
<1>s. session[r] # NoSession => session[r] \in Sessions
  BY <1>0 DEF TypeOK
<1>w. ASSUME session[r] # NoSession, UNCHANGED <<open, lessee>>, NEW P,
             \/ pending' = pending
             \/ pending' = [pending EXCEPT ![session[r]] = P]
      PROVE  [Leasing!Next]_(Leasing!leaseVars)
  <2>1. PICK s \in Sessions : session[r] = s
    BY <1>s, <1>w
  <2>2. pending' = pending \/ pending' = [pending EXCEPT ![s] = P]
    BY <1>w, <2>1
  <2>3. QED  BY <1>0, <1>w, <2>1, <2>2, WorkMaps, StutterMaps
<1>1. CASE GetSession(r)
  BY <1>0, <1>1, LendMaps DEF GetSession
<1>2. CASE Commit(r)
  BY <1>0, <1>2, <1>w DEF Commit, Stage
<1>3. CASE Abort(r) \/ ProviderResets(r)
  BY <1>0, <1>3, <1>w DEF Abort, ProviderResets, Stage
<1>4. CASE Write(r)
  BY <1>4, <1>w DEF Write
<1>5. CASE HandlerCommits(r)
  BY <1>5, <1>w DEF HandlerCommits
<1>6. CASE Release(r)
  BY <1>6, ReleaseMaps
<1>7. CASE HandlerEnds(r) \/ BeginFinalize(r) \/ Reply(r) \/ AskSession(r)
          \/ AcquireFails(r)
  BY <1>7, StutterMaps
     DEF HandlerEnds, BeginFinalize, Settlement, Reply, AskSession, AcquireFails,
         serverVars
<1>8. CASE SettleInterrupted(r)
  BY <1>0, <1>8, <1>w DEF SettleInterrupted, Stage
<1>9. QED
  BY <1>1, <1>2, <1>3, <1>4, <1>5, <1>6, <1>7, <1>8 DEF Step, Serve, Handle, Trouble

(* The adapters lease sessions as SessionLeasing lets them: one lessee at  *)
(* a time, and no session passed on with writes in its transaction.        *)
THEOREM Refinement == Spec => LeasingSpec
<1>1. Init => Leasing!Init
  BY DEF Init, Leasing!Init
<1>2. IInv /\ [Next]_vars => [Leasing!Next]_(Leasing!leaseVars)
  <2> SUFFICES ASSUME IInv, [Next]_vars
               PROVE  [Leasing!Next]_(Leasing!leaseVars)
    OBVIOUS
  <2>1. CASE Next
    BY <2>1, RefinementStep DEF Next
  <2>2. CASE UNCHANGED vars
    BY <2>2, StutterMaps DEF vars, serverVars
  <2>3. QED  BY <2>1, <2>2
<1>3. QED  BY <1>1, <1>2, Invariance, PTL DEF Spec, LeasingSpec, Leasing!Spec
=============================================================================
