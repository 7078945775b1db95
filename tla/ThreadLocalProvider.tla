------------------------ MODULE ThreadLocalProvider ------------------------
(***************************************************************************)
(* GemStoneThreadLocalSessionProvider (session_providers.py): one session  *)
(* for each thread, closed from any thread; with it what the sessions keep *)
(* of the objects their clients hold on to (client.py, oop.py): a          *)
(* ManagedOop puts its object into the server's export set, and its        *)
(* finalizer, which may run in any thread, takes it out again, at once or  *)
(* with the next call of the thread that owns the session.                 *)
(*                                                                         *)
(* A thread releases a session before it acquires again.  The blocks under *)
(* the provider's lock and those under the session's lock are single       *)
(* steps, and so is a call to the server.                                  *)
(***************************************************************************)
EXTENDS Integers, FiniteSets

CONSTANTS
  Threads,    \* thread idents
  Sessions,
  Handles,    \* ManagedOop objects
  Oops,       \* objects of the server
  Nobody, NoSession, Unmade

ASSUME NoneAssumption ==
  Nobody \notin Threads /\ NoSession \notin Sessions /\ Unmade \notin Sessions \X Oops

ASSUME HandlesAssumption == IsFiniteSet(Handles)

VARIABLES
  live,        \* sessions logged in
  owner,       \* _owner_thread_id
  counts,      \* _managed_oop_counts
  removals,    \* _managed_oop_pending_removals
  exported,    \* the server's export set of a session
  handle,      \* the session and object of each open handle
  refused,     \* handles whose retain raised; their finalizer is still to run
  retaken,     \* objects retained again while their removal was pending
  robbed,      \* objects that lost a count to the finalizer of a refused handle
  closed,      \* _closed
  registered,  \* _sessions_by_thread
  local,       \* _local.session
  pc,          \* where each thread is
  held,        \* the session a thread is busy with
  closing,     \* the sessions close() has yet to log out
  forgotten    \* sessions the provider has lost, and why it may: the ident of
               \* their thread went to another one, or the thread called them
               \* between the two steps in which close() logs them out

clientVars ==
  <<live, owner, counts, removals, exported, handle, refused, retaken, robbed>>
providerVars == <<closed, registered, local, pc, held, closing, forgotten>>
vars == <<clientVars, providerVars>>

Labels == {"idle", "prepare", "login", "register", "using", "reset", "discard",
           "close", "logout"}

TypeOK ==
  /\ live \subseteq Sessions
  /\ owner \in [Sessions -> Threads \cup {Nobody}]
  /\ counts \in [Sessions -> [Oops -> 0..Cardinality(Handles)]]
  /\ removals \in [Sessions -> [Oops -> Nat]]
  /\ exported \in [Sessions -> SUBSET Oops]
  /\ handle \in [Handles -> (Sessions \X Oops) \cup {Unmade}]
  /\ refused \subseteq Handles
  /\ retaken \subseteq Sessions \X Oops
  /\ robbed \subseteq Sessions \X Oops
  /\ closed \in BOOLEAN
  /\ registered \in [Threads -> Sessions \cup {NoSession}]
  /\ local \in [Threads -> Sessions \cup {NoSession}]
  /\ pc \in [Threads -> Labels]
  /\ held \in [Threads -> Sessions \cup {NoSession}]
  /\ closing \in [Threads -> SUBSET Sessions]
  /\ forgotten \subseteq Sessions

Init ==
  /\ live = {}
  /\ owner = [s \in Sessions |-> Nobody]
  /\ counts = [s \in Sessions |-> [o \in Oops |-> 0]]
  /\ removals = [s \in Sessions |-> [o \in Oops |-> 0]]
  /\ exported = [s \in Sessions |-> {}]
  /\ handle = [h \in Handles |-> Unmade]
  /\ refused = {}
  /\ retaken = {}
  /\ robbed = {}
  /\ closed = FALSE
  /\ registered = [t \in Threads |-> NoSession]
  /\ local = [t \in Threads |-> NoSession]
  /\ pc = [t \in Threads |-> "idle"]
  /\ held = [t \in Threads |-> NoSession]
  /\ closing = [t \in Threads |-> {}]
  /\ forgotten = {}

-----------------------------------------------------------------------------
(* The session.                                                            *)

Goto(t, label) == pc' = [pc EXCEPT ![t] = label]

\* _claim_thread_ownership raises in any thread but the owner.
MayCall(t, s) == s \in live /\ owner[s] \in {Nobody, t}

\* _activate_session, before every call: the session is bound to the thread,
\* and the removals that were pending are made.
Call(t, s) ==
  /\ owner' = [owner EXCEPT ![s] = t]
  /\ removals' = [removals EXCEPT ![s] = [o \in Oops |-> 0]]
  /\ exported' = [exported EXCEPT ![s] = {o \in @ : removals[s][o] = 0}]
  /\ UNCHANGED <<live, counts, handle, refused, retaken, robbed>>

\* logout; it clears the counts, and raises before that in a foreign thread.
Logout(t, s) ==
  IF MayCall(t, s)
  THEN /\ live' = live \ {s}
       /\ owner' = [owner EXCEPT ![s] = Nobody]
       /\ counts' = [counts EXCEPT ![s] = [o \in Oops |-> 0]]
       /\ removals' = [removals EXCEPT ![s] = [o \in Oops |-> 0]]
       /\ exported' = [exported EXCEPT ![s] = {}]
       /\ retaken' = {p \in retaken : p[1] # s}
       /\ robbed' = {p \in robbed : p[1] # s}
       /\ UNCHANGED <<handle, refused>>
  ELSE UNCHANGED clientVars

\* A ManagedOop is made.  The first one of an object exports it, whether or not
\* a removal is pending, in the thread that uses the session; the next ones call
\* nothing, and any thread may make them.
Retain(t, h, s, o) ==
  /\ handle[h] = Unmade
  /\ handle' = [handle EXCEPT ![h] = <<s, o>>]
  /\ counts' = [counts EXCEPT ![s][o] = @ + 1]
  /\ IF counts[s][o] > 0
     THEN UNCHANGED <<owner, exported, retaken>>
     ELSE /\ pc[t] = "using" /\ held[t] = s
          /\ IF s \in live
             THEN /\ MayCall(t, s)
                  /\ owner' = [owner EXCEPT ![s] = t]
                  /\ exported' = [exported EXCEPT ![s] = @ \cup {o}]
                  /\ retaken' = IF removals[s][o] > 0 THEN retaken \cup {<<s, o>>}
                                ELSE retaken
             ELSE UNCHANGED <<owner, exported, retaken>>
  /\ UNCHANGED <<live, removals, refused, robbed, providerVars>>

\* The first ManagedOop of an object, in a foreign thread: the export raises and
\* nothing is counted, but the finalizer was registered before.
Refuse(t, h, s, o) ==
  /\ handle[h] = Unmade
  /\ s \in live
  /\ counts[s][o] = 0
  /\ ~MayCall(t, s)
  /\ handle' = [handle EXCEPT ![h] = <<s, o>>]
  /\ refused' = refused \cup {h}
  /\ UNCHANGED <<live, owner, counts, removals, exported, retaken, robbed,
                 providerVars>>

\* Mutant: a finalizer in a foreign thread leaves the export set alone.
MutantFinalize(t, h) ==
  LET s == handle[h][1]
      o == handle[h][2]
  IN
  /\ handle[h] # Unmade
  /\ handle' = [handle EXCEPT ![h] = Unmade]
  /\ refused' = refused \ {h}
  /\ robbed' = IF h \in refused THEN robbed \cup {<<s, o>>} ELSE robbed
  /\ counts' = [counts EXCEPT ![s][o] = IF @ = 0 THEN 0 ELSE @ - 1]
  /\ exported' = [exported EXCEPT ![s] =
       IF counts[s][o] = 1 /\ s \in live /\ owner[s] = t THEN @ \ {o} ELSE @]
  /\ UNCHANGED <<live, owner, removals, retaken, providerVars>>

\* The finalizer of a handle runs, or close() of it, in any thread: the last
\* count removes the object, in a foreign thread with the owner's next call.
\* That of a refused handle takes a count that is another's, if there is one.
Finalize(t, h) ==
  LET s == handle[h][1]
      o == handle[h][2]
      last == counts[s][o] = 1 /\ s \in live
  IN
  /\ handle[h] # Unmade
  /\ handle' = [handle EXCEPT ![h] = Unmade]
  /\ refused' = refused \ {h}
  /\ counts' = [counts EXCEPT ![s][o] = IF @ = 0 THEN 0 ELSE @ - 1]
  /\ robbed' = IF h \in refused /\ counts[s][o] > 0 /\ s \in live
               THEN robbed \cup {<<s, o>>}
               ELSE robbed
  /\ IF last /\ owner[s] = t
     THEN /\ exported' = [exported EXCEPT ![s] = @ \ {o}]
          /\ UNCHANGED removals
     ELSE /\ removals' = [removals EXCEPT ![s][o] = IF last THEN @ + 1 ELSE @]
          /\ UNCHANGED exported
  /\ UNCHANGED <<live, owner, retaken, providerVars>>

-----------------------------------------------------------------------------
(* The provider.                                                           *)

\* The sessions nobody refers to any more.
Unused ==
  {s \in Sessions \ (live \cup forgotten) :
     /\ \A t \in Threads : s \notin {registered[t], local[t], held[t]} \cup closing[t]
     /\ \A h \in Handles : handle[h] = Unmade \/ handle[h][1] # s}

\* acquire() of an open provider: the thread's own session, if it has one.
CallAcquire(t) ==
  /\ pc[t] = "idle"
  /\ ~closed
  /\ Goto(t, IF local[t] = NoSession THEN "login" ELSE "prepare")
  /\ held' = [held EXCEPT ![t] = local[t]]
  /\ UNCHANGED <<clientVars, closed, registered, local, closing, forgotten>>

\* The session is checked and bound to the thread, or discarded for a new one.
Prepare(t) ==
  /\ pc[t] = "prepare"
  /\ \/ MayCall(t, held[t]) /\ Call(t, held[t]) /\ Goto(t, "using")
        /\ UNCHANGED <<registered, local, held>>
     \/ /\ Logout(t, held[t])
        /\ registered' = [registered EXCEPT ![t] = NoSession]
        /\ local' = [local EXCEPT ![t] = NoSession]
        /\ held' = [held EXCEPT ![t] = NoSession]
        /\ Goto(t, "login")
  /\ UNCHANGED <<closed, closing, forgotten>>

Login(t) ==
  /\ pc[t] = "login"
  /\ \/ \E s \in Unused :
          /\ live' = live \cup {s}
          /\ owner' = [owner EXCEPT ![s] = t]
          /\ held' = [held EXCEPT ![t] = s]
          /\ Goto(t, "register")
     \/ Goto(t, "idle") /\ UNCHANGED <<live, owner, held>>
  /\ UNCHANGED <<counts, removals, exported, handle, refused, retaken, robbed,
                 closed, registered, local, closing, forgotten>>

\* Mutant: a new session that fails its check, or is too late, is dropped.
MutantRegister(t) ==
  LET s == held[t] IN
  /\ pc[t] = "register"
  /\ \/ held' = [held EXCEPT ![t] = NoSession] /\ Goto(t, "idle")
        /\ UNCHANGED <<registered, local, forgotten>>
     \/ /\ ~closed
        /\ forgotten' = (forgotten \cup {registered[t]}) \ {NoSession}
        /\ registered' = [registered EXCEPT ![t] = s]
        /\ local' = [local EXCEPT ![t] = s]
        /\ Goto(t, "using")
        /\ UNCHANGED held
  /\ UNCHANGED <<clientVars, closed, closing>>

\* A new session that fails its check, or is too late, is closed; any other
\* takes the place of the ident, which a thread that has ended may have left.
Register(t) ==
  LET s == held[t] IN
  /\ pc[t] = "register"
  /\ \/ /\ Logout(t, s)
        /\ held' = [held EXCEPT ![t] = NoSession]
        /\ Goto(t, "idle")
        /\ registered' \in {registered,
                            IF closed THEN registered
                            ELSE [registered EXCEPT ![t] = NoSession]}
        /\ forgotten' = (forgotten \cup {registered[t]})
                           \ ({NoSession} \cup {registered'[t]})
        /\ UNCHANGED local
     \/ /\ ~closed
        /\ forgotten' = (forgotten \cup {registered[t]}) \ {NoSession}
        /\ registered' = [registered EXCEPT ![t] = s]
        /\ local' = [local EXCEPT ![t] = s]
        /\ Goto(t, "using")
        /\ UNCHANGED <<held, clientVars>>
  /\ UNCHANGED <<closed, closing>>

\* Any other use of the session; it raises once it was closed.
Use(t) ==
  /\ pc[t] = "using"
  /\ MayCall(t, held[t])
  /\ Call(t, held[t])
  /\ UNCHANGED providerVars

\* release(): a session to be discarded, one that needs a reset, a clean one.
CallRelease(t) ==
  /\ pc[t] = "using"
  /\ \/ Goto(t, "discard") /\ UNCHANGED held
     \/ ~closed /\ Goto(t, "reset") /\ UNCHANGED held
     \/ ~closed /\ Goto(t, "idle") /\ held' = [held EXCEPT ![t] = NoSession]
  /\ UNCHANGED <<clientVars, closed, registered, local, closing, forgotten>>

\* The abort and the health check.
Reset(t) ==
  /\ pc[t] = "reset"
  /\ \/ /\ MayCall(t, held[t]) /\ Call(t, held[t])
        /\ Goto(t, "idle")
        /\ held' = [held EXCEPT ![t] = NoSession]
     \/ Goto(t, "discard") /\ UNCHANGED <<clientVars, held>>
  /\ UNCHANGED <<closed, registered, local, closing, forgotten>>

\* Whatever the logout did, the thread's session is no longer its session.
Discard(t) ==
  /\ pc[t] = "discard"
  /\ Logout(t, held[t])
  /\ registered' = [registered EXCEPT ![t] = NoSession]
  /\ local' = [local EXCEPT ![t] = IF @ = held[t] THEN NoSession ELSE @]
  /\ held' = [held EXCEPT ![t] = NoSession]
  /\ Goto(t, "idle")
  /\ UNCHANGED <<closed, closing, forgotten>>

\* close() takes the sessions of all threads away, ...
CallClose(t) ==
  /\ pc[t] = "idle"
  /\ closed' = TRUE
  /\ closing' = [closing EXCEPT ![t] =
       {registered[q] : q \in Threads} \ {NoSession}]
  /\ registered' = [q \in Threads |-> NoSession]
  /\ Goto(t, "close")
  /\ UNCHANGED <<clientVars, local, held, forgotten>>

\* ... unbinds one after the other from its thread by force ...
CloseUnbind(t) ==
  /\ pc[t] = "close"
  /\ \/ \E s \in closing[t] :
          /\ owner' = [owner EXCEPT ![s] = Nobody]
          /\ held' = [held EXCEPT ![t] = s]
          /\ Goto(t, "logout")
     \/ closing[t] = {} /\ Goto(t, "idle") /\ UNCHANGED <<owner, held>>
  /\ UNCHANGED <<live, counts, removals, exported, handle, refused, retaken,
                 robbed, closed, registered, local, closing, forgotten>>

\* ... and logs it out, unless its thread has used it in between.
CloseLogout(t) ==
  /\ pc[t] = "logout"
  /\ Logout(t, held[t])
  /\ closing' = [closing EXCEPT ![t] = @ \ {held[t]}]
  /\ held' = [held EXCEPT ![t] = NoSession]
  /\ forgotten' = forgotten \cup (live' \cap {held[t]})
  /\ Goto(t, "close")
  /\ UNCHANGED <<closed, registered, local>>

\* A thread ends and another one gets its ident.
Restart(t) ==
  /\ pc[t] = "idle"
  /\ local[t] # NoSession
  /\ local' = [local EXCEPT ![t] = NoSession]
  /\ UNCHANGED <<clientVars, closed, registered, pc, held, closing, forgotten>>

-----------------------------------------------------------------------------
Next ==
  \E t \in Threads :
    \/ CallAcquire(t) \/ Prepare(t) \/ Login(t) \/ Register(t) \/ Use(t)
    \/ CallRelease(t) \/ Reset(t) \/ Discard(t)
    \/ CallClose(t) \/ CloseUnbind(t) \/ CloseLogout(t) \/ Restart(t)
    \/ \E h \in Handles :
         \/ Finalize(t, h)
         \/ \E s \in Sessions, o \in Oops : Retain(t, h, s, o) \/ Refuse(t, h, s, o)

Spec == Init /\ [][Next]_vars

-----------------------------------------------------------------------------
(* Properties.                                                             *)

\* The handles of an object of a session, but for those that were refused.
Open(s, o) == {h \in Handles \ refused : handle[h] = <<s, o>>}

\* Whichever threads make handles, are refused them, drop them and call the
\* session, in whatever order: an object with an open handle is in the export
\* set, unless it was retained again while its removal was pending, when that
\* removal hits the new handle, or the finalizer of a refused handle took a count
\* away: in these two cases, and no other, the code does not do what
\* docs/user-manual.md:411-412 promises of every handle.  One without is not in it, or will not be after the next call, so that
\* nothing stays exported for good.
ExportSetFollowsHandles ==
  \A s \in live, o \in Oops :
    /\ Open(s, o) # {} => o \in exported[s] \/ <<s, o>> \in retaken \cup robbed
    /\ Open(s, o) = {} /\ o \in exported[s] => removals[s][o] > 0
    /\ <<s, o>> \notin robbed => counts[s][o] = Cardinality(Open(s, o))

\* Every session that is logged in is one that a close() still to come will
\* find, one that a close() under way is about to log out, or in the hands of a
\* thread that may still discard it, however close, use and release interleave;
\* none is left in the books of a closed provider.  Two ways to lose one are
\* known: a thread that got the ident of an earlier one puts its session in the
\* other's place, and close() cannot log out a session whose thread has called
\* it since close() unbound it.
NoSessionForgotten ==
  \A s \in live \ forgotten :
    \E t \in Threads :
      \/ registered[t] = s /\ ~closed
      \/ s \in closing[t]
      \/ held[t] = s /\ pc[t] # "idle"
=============================================================================
