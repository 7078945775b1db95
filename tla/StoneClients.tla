---------------------------- MODULE StoneClients ----------------------------
(***************************************************************************)
(* Clients of GStore and of run_transaction_with_retry on one server.      *)
(***************************************************************************)
EXTENDS GStore, TransactionRetry

vars == <<stoneVars, mode, clientVars, storeVars>>

TypeOK == StoneTypeOK /\ StoreTypeOK

Init == StoneInit /\ StoreInit

Next ==
  \E c \in Clients :
    \/ Role(c) = "gstore" /\ StoreNext(c)
    \/ Role(c) # "gstore" /\ RetryNext(c) /\ UNCHANGED storeVars

Spec == Init /\ [][Next]_vars

-----------------------------------------------------------------------------
(* The state as AtomicUpdates has it.                                      *)

\* The clients whose updates are in a value.
Updates(x) == IF x = Absent THEN {} ELSE x

Store == [k \in Keys |-> Updates(db[k])]

WantedBy(c) ==
  IF landed[c] # {} THEN landed[c]
  ELSE IF Role(c) = "gstore" THEN Buffered(c)
  ELSE written[c] \ {Entry}
Wants == [c \in Clients |-> WantedBy(c)]

Replaying == {c \in Clients : Role(c) = "gstore" /\ attempt[c] # 1}

Atomic == INSTANCE AtomicUpdates WITH
  store <- Store, wants <- Wants, told <- result, replaying <- Replaying

-----------------------------------------------------------------------------
(* Properties.                                                             *)

\* Where nothing is deleted, transactions are what AtomicUpdates says: whatever
\* the views, conflicts, retries and faults, all that a client has updated is
\* added at one moment to what is committed then, once, and the client is told
\* "ok" only after that; only GStore's later attempts overwrite.
UpdatesAreAtomic ==
  Atomic!Init /\ [][mode.deletes \/ Atomic!Next]_(Atomic!updateVars)

\* Every update that a commit made permanent is in the value committed now.
NoLostUpdate ==
  ~mode.deletes => \A c \in Clients : \A k \in landed[c] : c \in db[k]

\* Updates get lost through GStore's second attempts, which write values that
\* were computed from the first snapshot, and through nothing else: work that
\* run_transaction_with_retry does again, as often as it may, is safe.
OnlyReplaysLoseUpdates ==
  (\A c \in Clients : Role(c) = "gstore" /\ landed[c] # {} => attempt[c] = 1)
  => NoLostUpdate

\* A key is not both written and deleted by a block, so that what the block
\* reads is what leaving it makes of the dictionary, in whatever order.
BuffersDisjoint == \A c \in Clients : Buffered(c) \cap deletes[c] = {}

\* When a block's commit takes effect all its writes do, and its deletes of
\* keys it sees, also on a later attempt, unless the dictionary was removed
\* meanwhile.
LandsWhole ==
  [][\A c \in Clients :
       /\ Role(c) = "gstore" /\ phase[c] = "commit" /\ phase'[c] = "done"
       /\ result'[c] = "ok"
       /\ Entry \notin stale[c]
       => /\ \A k \in Buffered(c) : db'[k] = dirty[c][k]
          /\ \A k \in deletes[c] : view[c][k] # Absent => db'[k] = Absent]_vars

\* What lands is what the block decided and what its caller is told: one told
\* that its transaction was aborted or ran out of attempts has changed nothing,
\* only an error of the server leaves that open; and a block that is left by
\* GStoreAbortTransaction or another Exception, and one that is read-only,
\* commits nothing.
OutcomeIsTrue ==
  \A c \in Clients :
    /\ result[c] \in {"aborted", "exhausted"} => landed[c] = {}
    /\ result[c] = "raised" /\ landed[c] # {} =>
         Fault("lost_answer") \/ exit[c] = "interrupt"
    /\ Role(c) = "gstore" /\ landed[c] # {} =>
         ~readOnly[c] /\ exit[c] \in {"clean", "interrupt"}

\* What has been committed is not attempted again.
NotAttemptedAgain ==
  [][\A c \in Clients : landed[c] # {} => attempt'[c] = attempt[c]]_vars

\* A caller's session is handed back without changes in it, which the next
\* commit of the caller would make permanent, unless the abort failed, the
\* listener raised, or what ended the work was no Exception.
SessionLeftClean ==
  \A c \in Clients :
    phase[c] = "done" /\ Role(c) = "existing" /\ written[c] # {} =>
      Fault("abort") \/ Fault("listener") \/ Fault("interrupt")

\* Only a block that was left normally has its writes committed
\* (gstore.py: "flushed to GemStone and committed on clean exit").
OnlyCleanExitsLand ==
  \A c \in Clients : Role(c) = "gstore" /\ landed[c] # {} => exit[c] = "clean"
=============================================================================
