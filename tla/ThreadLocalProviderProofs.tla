--------------------- MODULE ThreadLocalProviderProofs ---------------------
(***************************************************************************)
(* Proofs about ThreadLocalProvider, for any threads, sessions, objects    *)
(* and handles: the export set follows the handles, and no session that is *)
(* logged in is forgotten.                                                 *)
(***************************************************************************)
EXTENDS ThreadLocalProvider, FiniteSetTheorems, TLAPS

-----------------------------------------------------------------------------
(* The inductive invariant.                                                *)

\* What a thread has in hand at each label.
Hands ==
  \A t \in Threads :
    /\ pc[t] \in {"idle", "login", "close"} => held[t] = NoSession
    /\ pc[t] \in {"prepare", "using", "reset", "discard"} =>
         held[t] \in Sessions /\ held[t] = local[t]
    /\ pc[t] = "register" => held[t] \in Sessions
    /\ pc[t] \in {"login", "register"} => local[t] = NoSession
    /\ pc[t] = "logout" => held[t] \in closing[t]
    /\ pc[t] \notin {"close", "logout"} => closing[t] = {}

\* A closed provider has no session in its books, an open one has every
\* session that a thread calls its own.
Books ==
  \A t \in Threads :
    /\ closed => registered[t] = NoSession
    /\ ~closed /\ local[t] # NoSession => registered[t] = local[t]

\* The thread's own session, or the one it has just logged in.
Mine(t, s) == local[t] = s \/ (pc[t] = "register" /\ held[t] = s)

Apart ==
  \A t, u \in Threads, s \in Sessions : Mine(t, s) /\ Mine(u, s) => t = u

Owned ==
  \A t \in Threads, s \in live : Mine(t, s) => owner[s] \in {Nobody, t}

\* Where a session that is logged in is to be found: in the books, on the list
\* of a close() under way, or in the hands of the thread that logged it in.
Found ==
  \A s \in live \ forgotten :
    \E t \in Threads :
      \/ registered[t] = s
      \/ s \in closing[t]
      \/ pc[t] = "register" /\ held[t] = s

\* A handle that was refused is still to be finalized.
Pending == \A h \in refused : handle[h] # Unmade

\* The counts of a session are those of its open handles, or less once it was
\* logged out with some of them open, or a refused handle took one away.
Counted ==
  \A s \in Sessions, o \in Oops :
    /\ counts[s][o] <= Cardinality(Open(s, o))
    /\ s \in live /\ <<s, o>> \notin robbed => counts[s][o] = Cardinality(Open(s, o))

\* The export set follows the counts.
Exports ==
  \A s \in Sessions, o \in Oops :
    IF s \in live
    THEN /\ counts[s][o] > 0 => o \in exported[s] \/ <<s, o>> \in retaken
         /\ counts[s][o] > 0 /\ removals[s][o] > 0 => <<s, o>> \in retaken
         /\ counts[s][o] = 0 /\ o \in exported[s] => removals[s][o] > 0
    ELSE exported[s] = {} /\ removals[s][o] = 0 /\ <<s, o>> \notin retaken \cup robbed

IInv == /\ TypeOK /\ Hands /\ Books /\ Apart /\ Owned /\ Found
        /\ Pending /\ Counted /\ Exports

-----------------------------------------------------------------------------
(* Open handles.                                                           *)

LEMMA OpenCount ==
  ASSUME NEW s, NEW o
  PROVE  /\ IsFiniteSet(Open(s, o)) /\ Cardinality(Open(s, o)) \in Nat
         /\ Cardinality(Open(s, o)) <= Cardinality(Handles)
         /\ Cardinality(Handles) \in Nat
         /\ Cardinality(Open(s, o)) = 0 <=> Open(s, o) = {}
<1>1. Open(s, o) \subseteq Handles
  BY DEF Open
<1> QED
  BY <1>1, HandlesAssumption, FS_Subset, FS_CardinalityType, FS_EmptySet

LEMMA OpenSame ==
  ASSUME UNCHANGED <<handle, refused>>, NEW s, NEW o
  PROVE  Open(s, o)' = Open(s, o)
BY DEF Open

-----------------------------------------------------------------------------
(* Types.                                                                  *)

ClientTypes ==
  /\ live \subseteq Sessions
  /\ owner \in [Sessions -> Threads \cup {Nobody}]
  /\ counts \in [Sessions -> [Oops -> 0..Cardinality(Handles)]]
  /\ removals \in [Sessions -> [Oops -> Nat]]
  /\ exported \in [Sessions -> SUBSET Oops]
  /\ handle \in [Handles -> (Sessions \X Oops) \cup {Unmade}]
  /\ refused \subseteq Handles
  /\ retaken \subseteq Sessions \X Oops
  /\ robbed \subseteq Sessions \X Oops

ProviderTypes ==
  /\ closed \in BOOLEAN
  /\ registered \in [Threads -> Sessions \cup {NoSession}]
  /\ local \in [Threads -> Sessions \cup {NoSession}]
  /\ pc \in [Threads -> Labels]
  /\ held \in [Threads -> Sessions \cup {NoSession}]
  /\ closing \in [Threads -> SUBSET Sessions]
  /\ forgotten \subseteq Sessions

Client == ClientTypes /\ Pending /\ Counted /\ Exports

LEMMA CountBounds ==
  ASSUME Client, NEW s \in Sessions, NEW o \in Oops
  PROVE  /\ counts[s][o] \in 0..Cardinality(Handles)
         /\ counts[s][o] <= Cardinality(Open(s, o))
         /\ Cardinality(Open(s, o)) \in Nat /\ counts[s][o] \in Nat
<1>1. counts[s][o] \in 0..Cardinality(Handles)
  BY DEF Client, ClientTypes
<1>2. counts[s][o] <= Cardinality(Open(s, o))
  BY DEF Client, Counted
<1> QED
  BY <1>1, <1>2, OpenCount

-----------------------------------------------------------------------------
(* What the handles and the calls of a session do to the export set.       *)

LEMMA ClientStutters ==
  ASSUME Client, UNCHANGED clientVars
  PROVE  Client'
<1>1. ClientTypes' /\ Pending'
  BY DEF Client, ClientTypes, Pending, clientVars
<1>2. \A r \in Sessions, o \in Oops : Open(r, o)' = Open(r, o)
  BY DEF Open, clientVars
<1>3. Counted'
  BY <1>2 DEF Client, Counted, clientVars
<1>4. Exports'
  BY DEF Client, Exports, clientVars
<1> QED
  BY <1>1, <1>3, <1>4 DEF Client

\* Unbinding a session changes its owner alone.
LEMMA ClientRebound ==
  ASSUME Client, NEW s \in Sessions, NEW n \in Threads \cup {Nobody},
         owner' = [owner EXCEPT ![s] = n],
         UNCHANGED <<live, counts, removals, exported, handle, refused, retaken,
                     robbed>>
  PROVE  Client'
<1>1. ClientTypes' /\ Pending'
  BY DEF Client, ClientTypes, Pending
<1>2. \A r \in Sessions, o \in Oops : Open(r, o)' = Open(r, o)
  BY DEF Open
<1>3. Counted'
  BY <1>2 DEF Client, Counted
<1>4. Exports'
  BY DEF Client, Exports
<1> QED
  BY <1>1, <1>3, <1>4 DEF Client

LEMMA ClientCall ==
  ASSUME Client, NEW t \in Threads, NEW s \in Sessions, s \in live, Call(t, s)
  PROVE  Client'
<1> USE DEF Client
<1>1. ClientTypes' /\ Pending'
  BY DEF ClientTypes, Pending, Call
<1>2. \A r \in Sessions, o \in Oops : Open(r, o)' = Open(r, o)
  BY OpenSame DEF Call
<1>3. Counted'
  BY <1>2 DEF Counted, Call
<1>4. Exports'
  <2>1. SUFFICES ASSUME NEW r \in Sessions, NEW o \in Oops
                 PROVE  r \in live =>
                          /\ counts[r][o] > 0 =>
                               o \in exported'[r] \/ <<r, o>> \in retaken
                          /\ counts[r][o] > 0 /\ removals'[r][o] > 0 =>
                               <<r, o>> \in retaken
                          /\ counts[r][o] = 0 /\ o \in exported'[r] =>
                               removals'[r][o] > 0
    <3>1. ASSUME NEW r \in Sessions \ live
          PROVE  exported'[r] = exported[r] /\ removals'[r] = removals[r]
      BY DEF ClientTypes, Call
    <3>2. UNCHANGED <<live, counts, retaken, robbed>>
      BY DEF Call
    <3>3. Exports
      OBVIOUS
    <3> HIDE DEF Client
    <3> QED
      BY <2>1, <3>1, <3>2, <3>3 DEF Exports
  <2>2. CASE r = s
    <3>1. exported'[s] = {p \in exported[s] : removals[s][p] = 0} /\ removals'[s][o] = 0
      BY DEF Call, ClientTypes
    <3>2. removals[s][o] \in Nat
      BY DEF ClientTypes
    <3> QED
      BY <2>2, <3>1, <3>2 DEF Exports
  <2>3. CASE r # s
    <3>1. exported'[r] = exported[r] /\ removals'[r] = removals[r]
      BY <2>3 DEF Call, ClientTypes
    <3> QED
      BY <3>1 DEF Exports
  <2> QED
    BY <2>2, <2>3
<1> QED
  BY <1>1, <1>3, <1>4

LEMMA ClientLogout ==
  ASSUME Client, NEW t \in Threads, NEW s \in Sessions, Logout(t, s)
  PROVE  Client'
<1>1. CASE ~MayCall(t, s)
  BY <1>1, ClientStutters DEF Logout
<1>2. CASE MayCall(t, s)
  <2> USE DEF Client
  <2>1. ClientTypes'
    <3>1. 0 \in 0..Cardinality(Handles)
      BY HandlesAssumption, FS_CardinalityType
    <3>2. live' \subseteq Sessions /\ retaken' \subseteq Sessions \X Oops
          /\ robbed' \subseteq Sessions \X Oops /\ refused' \subseteq Handles
      BY <1>2 DEF ClientTypes, Logout
    <3>3. owner' \in [Sessions -> Threads \cup {Nobody}]
      BY <1>2 DEF ClientTypes, Logout
    <3>4. counts' \in [Sessions -> [Oops -> 0..Cardinality(Handles)]]
      <4>1. counts' = [counts EXCEPT ![s] = [o \in Oops |-> 0]]
        BY <1>2 DEF Logout
      <4>2. counts \in [Sessions -> [Oops -> 0..Cardinality(Handles)]]
        BY DEF ClientTypes
      <4> HIDE DEF Client
      <4> QED
        BY <3>1, <4>1, <4>2
    <3>5. removals' \in [Sessions -> [Oops -> Nat]]
      BY <1>2 DEF ClientTypes, Logout
    <3>6. /\ exported' \in [Sessions -> SUBSET Oops]
          /\ handle' \in [Handles -> (Sessions \X Oops) \cup {Unmade}]
      BY <1>2 DEF ClientTypes, Logout
    <3> QED
      BY <3>2, <3>3, <3>4, <3>5, <3>6 DEF ClientTypes
  <2>2. Pending' /\ \A r \in Sessions, o \in Oops : Open(r, o)' = Open(r, o)
    BY <1>2, OpenSame DEF Logout, Pending
  <2>3. ASSUME NEW r \in Sessions, NEW o \in Oops
        PROVE  /\ r # s => /\ counts'[r][o] = counts[r][o]
                           /\ removals'[r][o] = removals[r][o]
                           /\ exported'[r] = exported[r]
                           /\ <<r, o>> \in retaken' <=> <<r, o>> \in retaken
                           /\ <<r, o>> \in robbed' <=> <<r, o>> \in robbed
                           /\ r \in live' <=> r \in live
               /\ r = s => /\ counts'[r][o] = 0 /\ removals'[r][o] = 0
                           /\ exported'[r] = {} /\ <<r, o>> \notin retaken'
                           /\ <<r, o>> \notin robbed' /\ r \notin live'
    BY <1>2 DEF Logout, ClientTypes
  <2>4. ASSUME NEW r \in Sessions, NEW o \in Oops
        PROVE  /\ counts'[r][o] <= Cardinality(Open(r, o)')
               /\ r \in live' /\ <<r, o>> \notin robbed' =>
                    counts'[r][o] = Cardinality(Open(r, o)')
    <3>1. Open(r, o)' = Open(r, o) /\ Cardinality(Open(r, o)) \in Nat
      BY <2>2, OpenCount
    <3>2. Cardinality(Open(r, o)') = Cardinality(Open(r, o))
      BY <3>1
    <3>3. CASE r = s
      <4>1. counts'[r][o] = 0 /\ r \notin live'
        BY <3>3, <2>3
      <4> HIDE DEF Client
      <4> QED
        BY <4>1, <3>1, <3>2
    <3>4. CASE r # s
      <4>1. /\ counts'[r][o] = counts[r][o] /\ (r \in live' <=> r \in live)
            /\ <<r, o>> \in robbed' <=> <<r, o>> \in robbed
        BY <3>4, <2>3
      <4>2. /\ counts[r][o] <= Cardinality(Open(r, o))
            /\ r \in live /\ <<r, o>> \notin robbed =>
                 counts[r][o] = Cardinality(Open(r, o))
        BY DEF Counted
      <4> QED
        BY <4>1, <4>2, <3>2
    <3> QED
      BY <3>3, <3>4
  <2>5. Exports'
    BY <2>3 DEF Exports
  <2> QED
    BY <2>1, <2>2, <2>4, <2>5 DEF Counted
<1> QED
  BY <1>1, <1>2

\* A new session has neither open handles nor counts.
LEMMA ClientLogin ==
  ASSUME Client, NEW t \in Threads, NEW s \in Unused,
         live' = live \cup {s}, owner' = [owner EXCEPT ![s] = t],
         UNCHANGED <<counts, removals, exported, handle, refused, retaken, robbed>>
  PROVE  Client'
<1>1. s \in Sessions /\ s \notin live
      /\ \A h \in Handles : handle[h] = Unmade \/ handle[h][1] # s
  BY DEF Unused
<1>2. ClientTypes' /\ Pending'
  BY <1>1 DEF Client, ClientTypes, Pending
<1>3. \A r \in Sessions, o \in Oops : Open(r, o)' = Open(r, o)
  BY DEF Open
<1>4. ASSUME NEW o \in Oops
      PROVE  Open(s, o) = {} /\ counts[s][o] = 0
  <2>1. <<s, o>> # Unmade
    BY <1>1, NoneAssumption
  <2>2. Open(s, o) = {}
    <3>1. SUFFICES ASSUME NEW h \in Handles, handle[h] = <<s, o>>
                   PROVE  FALSE
      BY DEF Open
    <3>2. <<s, o>>[1] = s
      OBVIOUS
    <3> QED
      BY <1>1, <2>1, <3>1, <3>2
  <2>3. counts[s][o] <= Cardinality(Open(s, o)) /\ counts[s][o] \in Nat
    BY <1>1, CountBounds
  <2> QED
    BY <2>2, <2>3, FS_EmptySet
<1>5. Counted'
  <2>1. Cardinality({}) = 0
    BY FS_EmptySet
  <2> QED
    BY <1>1, <1>3, <1>4, <2>1 DEF Client, Counted
<1>6. Exports'
  <2>1. ASSUME NEW r \in Sessions, NEW o \in Oops
        PROVE  IF r \in live'
               THEN /\ counts[r][o] > 0 => o \in exported[r] \/ <<r, o>> \in retaken
                    /\ counts[r][o] > 0 /\ removals[r][o] > 0 => <<r, o>> \in retaken
                    /\ counts[r][o] = 0 /\ o \in exported[r] => removals[r][o] > 0
               ELSE /\ exported[r] = {} /\ removals[r][o] = 0
                    /\ <<r, o>> \notin retaken \cup robbed
    <3>1. CASE r = s
      BY <1>1, <1>4, <3>1 DEF Client, Exports
    <3>2. CASE r # s
      BY <1>1, <3>2 DEF Client, Exports
    <3> QED
      BY <3>1, <3>2
  <2> QED
    BY <2>1 DEF Exports
<1> QED
  BY <1>2, <1>5, <1>6 DEF Client

LEMMA ClientRetain ==
  ASSUME Client, NEW t \in Threads, NEW h \in Handles, NEW s \in Sessions,
         NEW o \in Oops, Retain(t, h, s, o)
  PROVE  Client'
<1> DEFINE more == Open(s, o) \cup {h}
<1>1. /\ <<s, o>> # Unmade /\ handle[h] = Unmade /\ h \notin refused
      /\ handle' = [handle EXCEPT ![h] = <<s, o>>]
      /\ counts' = [counts EXCEPT ![s][o] = @ + 1]
      /\ UNCHANGED <<live, removals, refused, robbed>>
  BY NoneAssumption DEF Retain, Client, Pending
<1>2. \A r \in Sessions, q \in Oops :
        <<r, q>> # <<s, o>> => Open(r, q)' = Open(r, q)
  BY <1>1, NoneAssumption DEF Client, ClientTypes, Open
<1>3. Open(s, o)' = more /\ h \notin Open(s, o) /\ more \subseteq Handles
  BY <1>1 DEF Client, ClientTypes, Open
<1>4. Cardinality(more) = Cardinality(Open(s, o)) + 1
      /\ Cardinality(more) <= Cardinality(Handles)
  BY <1>3, OpenCount, FS_AddElement, FS_Subset, HandlesAssumption
<1>5. counts[s][o] \in Nat /\ counts[s][o] <= Cardinality(Open(s, o))
      /\ counts[s][o] + 1 \in 0..Cardinality(Handles)
  <2> HIDE DEF more
  <2> QED
    BY <1>4, OpenCount, CountBounds
<1>6. \/ /\ counts[s][o] = 0 /\ s \in live
         /\ owner' = [owner EXCEPT ![s] = t]
         /\ exported' = [exported EXCEPT ![s] = @ \cup {o}]
         /\ retaken' = IF removals[s][o] > 0 THEN retaken \cup {<<s, o>>} ELSE retaken
      \/ /\ counts[s][o] > 0 \/ s \notin live
         /\ UNCHANGED <<owner, exported, retaken>>
  BY <1>5 DEF Retain
<1>7. ClientTypes'
  <2>1. /\ owner' \in [Sessions -> Threads \cup {Nobody}]
        /\ exported' \in [Sessions -> SUBSET Oops]
        /\ retaken' \subseteq Sessions \X Oops
    <3>1. /\ owner \in [Sessions -> Threads \cup {Nobody}]
          /\ exported \in [Sessions -> SUBSET Oops]
          /\ retaken \subseteq Sessions \X Oops
      BY DEF Client, ClientTypes
    <3> QED
      BY <1>6, <3>1
  <2>2. counts' \in [Sessions -> [Oops -> 0..Cardinality(Handles)]]
    BY <1>1, <1>5 DEF Client, ClientTypes
  <2>3. handle' \in [Handles -> (Sessions \X Oops) \cup {Unmade}]
    BY <1>1 DEF Client, ClientTypes
  <2> QED
    BY <1>1, <2>1, <2>2, <2>3 DEF Client, ClientTypes
<1>8. Pending'
  BY <1>1 DEF Client, ClientTypes, Pending
<1>9. /\ counts'[s][o] = counts[s][o] + 1
      /\ \A r \in Sessions, q \in Oops :
           <<r, q>> # <<s, o>> => counts'[r][q] = counts[r][q]
  BY <1>1 DEF Client, ClientTypes
<1>10. Counted'
  <2>1. ASSUME NEW r \in Sessions, NEW q \in Oops
        PROVE  /\ counts'[r][q] <= Cardinality(Open(r, q)')
               /\ r \in live /\ <<r, q>> \notin robbed =>
                    counts'[r][q] = Cardinality(Open(r, q)')
    <3>0. /\ counts[r][q] <= Cardinality(Open(r, q))
          /\ r \in live /\ <<r, q>> \notin robbed =>
               counts[r][q] = Cardinality(Open(r, q))
      BY DEF Client, Counted
    <3>1. CASE r = s /\ q = o
      <4> HIDE DEF more
      <4>1. Cardinality(Open(r, q)') = Cardinality(Open(s, o)) + 1
        BY <1>3, <1>4, <3>1
      <4> QED
        BY <4>1, <3>0, <3>1, <1>5, <1>9, OpenCount
    <3>2. CASE <<r, q>> # <<s, o>>
      <4>1. Cardinality(Open(r, q)') = Cardinality(Open(r, q))
        BY <1>2, <3>2
      <4> QED
        BY <4>1, <3>0, <3>2, <1>9
    <3> QED
      BY <3>1, <3>2
  <2> QED
    BY <1>1, <2>1 DEF Counted
<1>11. Exports'
  <2>1. ASSUME NEW r \in Sessions, NEW q \in Oops
        PROVE  IF r \in live
               THEN /\ counts'[r][q] > 0 => q \in exported'[r] \/ <<r, q>> \in retaken'
                    /\ counts'[r][q] > 0 /\ removals[r][q] > 0 => <<r, q>> \in retaken'
                    /\ counts'[r][q] = 0 /\ q \in exported'[r] => removals[r][q] > 0
               ELSE /\ exported'[r] = {} /\ removals[r][q] = 0
                    /\ <<r, q>> \notin retaken' \cup robbed
    <3>1. CASE r = s /\ q = o
      BY <3>1, <1>5, <1>6, <1>9 DEF Client, ClientTypes, Exports
    <3>2. CASE <<r, q>> # <<s, o>>
      <4>1. /\ q \in exported'[r] <=> q \in exported[r]
            /\ <<r, q>> \in retaken' <=> <<r, q>> \in retaken
            /\ r \notin live => exported'[r] = exported[r]
        BY <1>6, <3>2 DEF Client, ClientTypes
      <4> QED
        BY <4>1, <3>2, <1>9 DEF Client, Exports
    <3> QED
      BY <3>1, <3>2
  <2> QED
    BY <1>1, <2>1 DEF Exports
<1> QED
  BY <1>7, <1>8, <1>10, <1>11 DEF Client

\* A refused handle is none of the open ones.
LEMMA ClientRefuse ==
  ASSUME Client, NEW t \in Threads, NEW h \in Handles, NEW s \in Sessions,
         NEW o \in Oops, Refuse(t, h, s, o)
  PROVE  Client'
<1>1. /\ <<s, o>> # Unmade /\ handle[h] = Unmade
      /\ handle' = [handle EXCEPT ![h] = <<s, o>>]
      /\ refused' = refused \cup {h}
      /\ UNCHANGED <<live, owner, counts, removals, exported, retaken, robbed>>
  BY NoneAssumption DEF Refuse
<1>2. ClientTypes' /\ Pending'
  BY <1>1 DEF Client, ClientTypes, Pending
<1>3. \A r \in Sessions, q \in Oops : Open(r, q)' = Open(r, q)
  BY <1>1, NoneAssumption DEF Client, ClientTypes, Open
<1>4. Counted'
  BY <1>1, <1>3 DEF Client, Counted
<1>5. Exports'
  BY <1>1 DEF Client, Exports
<1> QED
  BY <1>2, <1>4, <1>5 DEF Client

LEMMA ClientFinalize ==
  ASSUME Client, NEW t \in Threads, NEW h \in Handles, Finalize(t, h)
  PROVE  Client'
<1>1. PICK s \in Sessions, o \in Oops : handle[h] = <<s, o>>
  BY DEF Finalize, Client, ClientTypes
<1>2. <<s, o>> # Unmade /\ handle[h][1] = s /\ handle[h][2] = o
  BY <1>1, NoneAssumption
<1> DEFINE last == counts[s][o] = 1 /\ s \in live
           fewer == Open(s, o) \ {h}
<1>3. /\ handle' = [handle EXCEPT ![h] = Unmade]
      /\ refused' = refused \ {h}
      /\ counts' = [counts EXCEPT ![s][o] = IF @ = 0 THEN 0 ELSE @ - 1]
      /\ robbed' = IF h \in refused /\ counts[s][o] > 0 /\ s \in live
                   THEN robbed \cup {<<s, o>>} ELSE robbed
      /\ UNCHANGED <<live, owner, retaken>>
      /\ \/ /\ last
            /\ exported' = [exported EXCEPT ![s] = @ \ {o}]
            /\ UNCHANGED removals
         \/ /\ last
            /\ removals' = [removals EXCEPT ![s][o] = @ + 1]
            /\ UNCHANGED exported
         \/ /\ ~last
            /\ removals' = [removals EXCEPT ![s][o] = @]
            /\ UNCHANGED exported
  BY <1>2 DEF Finalize
<1>4. \A r \in Sessions, q \in Oops :
        <<r, q>> # <<s, o>> => Open(r, q)' = Open(r, q)
  BY <1>1, <1>3, NoneAssumption DEF Client, ClientTypes, Open
<1>5. Open(s, o)' = fewer /\ (h \in Open(s, o) <=> h \notin refused)
  BY <1>1, <1>2, <1>3 DEF Client, ClientTypes, Open
<1>6. Cardinality(fewer) =
        IF h \in refused THEN Cardinality(Open(s, o)) ELSE Cardinality(Open(s, o)) - 1
  <2>1. CASE h \in refused
    <3>1. fewer = Open(s, o)
      BY <2>1, <1>5
    <3> QED
      BY <2>1, <3>1
  <2>2. CASE h \notin refused
    BY <2>2, <1>5, OpenCount, FS_RemoveElement
  <2> QED
    BY <2>1, <2>2
<1>7. /\ counts[s][o] \in 0..Cardinality(Handles)
      /\ counts[s][o] <= Cardinality(Open(s, o))
      /\ s \in live /\ <<s, o>> \notin robbed =>
           counts[s][o] = Cardinality(Open(s, o))
      /\ Cardinality(Open(s, o)) \in Nat
      /\ h \notin refused => Cardinality(Open(s, o)) # 0
      /\ Cardinality(Handles) \in Nat
  BY <1>5, OpenCount DEF Client, ClientTypes, Counted
<1>8. /\ counts'[s][o] = IF counts[s][o] = 0 THEN 0 ELSE counts[s][o] - 1
      /\ \A r \in Sessions, q \in Oops :
           <<r, q>> # <<s, o>> => counts'[r][q] = counts[r][q]
  BY <1>3 DEF Client, ClientTypes
<1>9. ClientTypes'
  <2>1. counts' \in [Sessions -> [Oops -> 0..Cardinality(Handles)]]
    <3>1. counts \in [Sessions -> [Oops -> 0..Cardinality(Handles)]]
      BY DEF Client, ClientTypes
    <3>2. (IF counts[s][o] = 0 THEN 0 ELSE counts[s][o] - 1) \in 0..Cardinality(Handles)
      BY <1>7
    <3> QED
      BY <1>3, <3>1, <3>2
  <2>2. removals' \in [Sessions -> [Oops -> Nat]]
    <3>1. removals \in [Sessions -> [Oops -> Nat]]
      BY DEF Client, ClientTypes
    <3> QED
      BY <1>3, <3>1
  <2>3. exported' \in [Sessions -> SUBSET Oops]
    <3>1. exported \in [Sessions -> SUBSET Oops]
      BY DEF Client, ClientTypes
    <3> QED
      BY <1>3, <3>1
  <2>4. handle' \in [Handles -> (Sessions \X Oops) \cup {Unmade}]
    <3>1. handle \in [Handles -> (Sessions \X Oops) \cup {Unmade}]
      BY DEF Client, ClientTypes
    <3> QED
      BY <1>3, <3>1
  <2>5. refused' \subseteq Handles /\ robbed' \subseteq Sessions \X Oops
    BY <1>3 DEF Client, ClientTypes
  <2> QED
    BY <1>3, <2>1, <2>2, <2>3, <2>4, <2>5 DEF Client, ClientTypes
<1>10. Pending'
  BY <1>3 DEF Client, ClientTypes, Pending
<1>11. Counted'
  <2>1. ASSUME NEW r \in Sessions, NEW q \in Oops
        PROVE  /\ counts'[r][q] <= Cardinality(Open(r, q)')
               /\ r \in live /\ <<r, q>> \notin robbed' =>
                    counts'[r][q] = Cardinality(Open(r, q)')
    <3>1. CASE r = s /\ q = o
      <4> HIDE DEF fewer
      <4>1. Cardinality(Open(r, q)') =
              IF h \in refused THEN Cardinality(Open(s, o))
              ELSE Cardinality(Open(s, o)) - 1
        BY <1>5, <1>6, <3>1
      <4>2. <<s, o>> \notin robbed' =>
              /\ <<s, o>> \notin robbed
              /\ h \in refused /\ s \in live => counts[s][o] = 0
        BY <1>3, <1>7
      <4> QED
        BY <4>1, <4>2, <3>1, <1>7, <1>8
    <3>2. CASE <<r, q>> # <<s, o>>
      <4>1. Cardinality(Open(r, q)') = Cardinality(Open(r, q))
        BY <1>4, <3>2
      <4>2. /\ counts[r][q] <= Cardinality(Open(r, q))
            /\ r \in live /\ <<r, q>> \notin robbed =>
                 counts[r][q] = Cardinality(Open(r, q))
        BY DEF Client, Counted
      <4>3. <<r, q>> \in robbed' <=> <<r, q>> \in robbed
        BY <1>3, <3>2
      <4> QED
        BY <4>1, <4>2, <4>3, <3>2, <1>8
    <3> QED
      BY <3>1, <3>2
  <2> QED
    BY <1>3, <2>1 DEF Counted
<1>12. Exports'
  <2>1. ASSUME NEW r \in Sessions, NEW q \in Oops
        PROVE  IF r \in live
               THEN /\ counts'[r][q] > 0 => q \in exported'[r] \/ <<r, q>> \in retaken
                    /\ counts'[r][q] > 0 /\ removals'[r][q] > 0 => <<r, q>> \in retaken
                    /\ counts'[r][q] = 0 /\ q \in exported'[r] => removals'[r][q] > 0
               ELSE /\ exported'[r] = {} /\ removals'[r][q] = 0
                    /\ <<r, q>> \notin retaken \cup robbed'
    <3>1. CASE last /\ r = s /\ q = o
      <4>1. counts'[r][q] = 0
        BY <3>1, <1>8
      <4>2. q \notin exported'[r] \/ removals'[r][q] > 0
        BY <3>1, <1>3 DEF Client, ClientTypes
      <4> QED
        BY <3>1, <4>1, <4>2
    <3>2. CASE ~last \/ <<r, q>> # <<s, o>>
      <4>1. /\ removals'[r][q] = removals[r][q]
            /\ q \in exported'[r] <=> q \in exported[r]
            /\ r \notin live => exported'[r] = exported[r]
            /\ r \notin live => (<<r, q>> \in robbed' <=> <<r, q>> \in robbed)
        BY <3>2, <1>3 DEF Client, ClientTypes
      <4>2. r \in live => ((counts'[r][q] > 0) <=> (counts[r][q] > 0))
                          /\ ((counts'[r][q] = 0) <=> (counts[r][q] = 0))
        BY <3>2, <1>7, <1>8
      <4> QED
        BY <4>1, <4>2 DEF Client, Exports
    <3> QED
      BY <3>1, <3>2
  <2> QED
    BY <1>3, <2>1 DEF Exports
<1> QED
  BY <1>9, <1>10, <1>11, <1>12 DEF Client

-----------------------------------------------------------------------------
(* Whose sessions they are, and where they are to be found.                *)

Provider == ProviderTypes /\ Hands /\ Books /\ Apart /\ Owned /\ Found

\* A logout in a thread that may call the session does log it out.
LEMMA LogoutFrees ==
  ASSUME ClientTypes, NEW t \in Threads, NEW s \in Sessions, Logout(t, s),
         s \in live => owner[s] \in {Nobody, t}
  PROVE  live' = live \ {s} /\ \A r \in live' : owner'[r] = owner[r]
<1>1. CASE MayCall(t, s)
  BY <1>1 DEF Logout, ClientTypes
<1>2. CASE ~MayCall(t, s)
  BY <1>2 DEF Logout, MayCall, clientVars
<1> QED
  BY <1>1, <1>2

\* A session is called by the thread it belongs to.
LEMMA CallBinds ==
  ASSUME ClientTypes, Apart, Owned, NEW t \in Threads, NEW s \in Sessions,
         Mine(t, s), live' = live, owner' = [owner EXCEPT ![s] = t]
  PROVE  \A u \in Threads, r \in live' : Mine(u, r) => owner'[r] \in {Nobody, u}
BY DEF ClientTypes, Apart, Owned

\* A step that adds nothing to what a thread calls its own keeps the sessions
\* of the threads apart.
LEMMA MineShrinks ==
  ASSUME Apart, \A u \in Threads, s \in Sessions : Mine(u, s)' => Mine(u, s)
  PROVE  Apart'
BY DEF Apart

\* A step that leaves the books, the lists of close() and the new sessions
\* alone leaves every session where it is.
LEMMA FoundStays ==
  ASSUME Found, UNCHANGED <<live, forgotten, registered, closing>>,
         \A u \in Threads : pc[u] = "register" =>
           pc'[u] = "register" /\ held'[u] = held[u]
  PROVE  Found'
BY DEF Found

\* Where thread u holds on to session s.
Keeps(u, s) ==
  registered[u] = s \/ s \in closing[u] \/ (pc[u] = "register" /\ held[u] = s)

\* A session need only be found where it was, or be lost for a known reason.
LEMMA FoundMoves ==
  ASSUME Found,
         \A s \in live' \ forgotten' :
           /\ s \in live \ forgotten
           /\ \A u \in Threads : Keeps(u, s) => Keeps(u, s)'
  PROVE  Found'
BY DEF Found, Keeps

LEMMA ProviderCallAcquire ==
  ASSUME ClientTypes, Provider, NEW t \in Threads, CallAcquire(t)
  PROVE  Provider'
<1> USE DEF Provider, CallAcquire, clientVars
<1>1. ProviderTypes'
  BY DEF ProviderTypes, Labels, Goto
<1>2. Hands'
  BY DEF Hands, ProviderTypes, Goto
<1>3. Books'
  BY DEF Books
<1>4. \A u \in Threads, s \in Sessions : Mine(u, s)' <=> Mine(u, s)
  BY DEF Mine, ProviderTypes, Goto
<1>5. Apart' /\ Owned'
  BY <1>4, MineShrinks DEF Owned, ClientTypes
<1>6. Found'
  BY FoundStays DEF ProviderTypes, Goto
<1> QED
  BY <1>1, <1>2, <1>3, <1>5, <1>6

LEMMA ProviderPrepare ==
  ASSUME ClientTypes, Provider, NEW t \in Threads, Prepare(t)
  PROVE  Provider'
<1> USE DEF Provider
<1> DEFINE s == held[t]
<1>1. pc[t] = "prepare" /\ s \in Sessions /\ local[t] = s /\ Mine(t, s)
      /\ (s \in live => owner[s] \in {Nobody, t})
  BY NoneAssumption DEF Prepare, Hands, Mine, Owned
<1>2. CASE Call(t, s) /\ Goto(t, "using") /\ UNCHANGED <<registered, local, held>>
           /\ UNCHANGED <<closed, closing, forgotten>>
  <2> USE <1>2
  <2>1. ProviderTypes'
    BY DEF ProviderTypes, Labels, Goto
  <2>2. Hands'
    BY <1>1 DEF Hands, ProviderTypes, Goto
  <2>3. Books'
    BY DEF Books
  <2>4. \A u \in Threads, r \in Sessions : Mine(u, r)' <=> Mine(u, r)
    BY <1>1 DEF Mine, ProviderTypes, Goto
  <2>5. Apart'
    BY <2>4, MineShrinks
  <2>6. live' = live /\ owner' = [owner EXCEPT ![s] = t]
    BY DEF Call
  <2>7. Owned'
    <3>1. \A u \in Threads, r \in live' : Mine(u, r) => owner'[r] \in {Nobody, u}
      BY <1>1, <2>6, CallBinds
    <3> QED
      BY <3>1, <2>4, <2>6 DEF Owned, ClientTypes
  <2>8. Found'
    BY <1>1, <2>6, FoundStays DEF ProviderTypes, Goto
  <2> QED
    BY <2>1, <2>2, <2>3, <2>5, <2>7, <2>8
<1>3. CASE /\ Logout(t, s)
           /\ registered' = [registered EXCEPT ![t] = NoSession]
           /\ local' = [local EXCEPT ![t] = NoSession]
           /\ held' = [held EXCEPT ![t] = NoSession]
           /\ Goto(t, "login")
           /\ UNCHANGED <<closed, closing, forgotten>>
  <2> USE <1>3
  <2>1. ProviderTypes'
    BY DEF ProviderTypes, Labels, Goto
  <2>2. Hands'
    BY <1>1 DEF Hands, ProviderTypes, Goto
  <2>3. Books'
    BY <1>1 DEF Books, ProviderTypes
  <2>4. \A u \in Threads, r \in Sessions : Mine(u, r)' => Mine(u, r)
    BY <1>1, NoneAssumption DEF Mine, ProviderTypes, Goto
  <2>5. Apart'
    BY <2>4, MineShrinks
  <2>6. live' = live \ {s} /\ \A r \in live' : owner'[r] = owner[r]
    BY <1>1, LogoutFrees
  <2>7. Owned'
    BY <2>4, <2>6 DEF Owned, ClientTypes
  <2>8. Found'
    <3>1. ASSUME NEW r \in live' \ forgotten', NEW u \in Threads, Keeps(u, r)
          PROVE  Keeps(u, r)'
      BY <1>1, <2>6, <3>1, NoneAssumption
      DEF Keeps, Books, ProviderTypes, ClientTypes, Goto
    <3> QED
      BY <2>6, <3>1, FoundMoves
  <2> QED
    BY <2>1, <2>2, <2>3, <2>5, <2>7, <2>8
<1> QED
  BY <1>2, <1>3 DEF Prepare

LEMMA ProviderLogin ==
  ASSUME ClientTypes, Provider, NEW t \in Threads, Login(t)
  PROVE  Provider'
<1> USE DEF Provider
<1>1. pc[t] = "login" /\ held[t] = NoSession /\ local[t] = NoSession
      /\ UNCHANGED <<closed, registered, local, closing, forgotten>>
  BY DEF Login, Hands
<1>2. ASSUME NEW s \in Unused,
             live' = live \cup {s}, owner' = [owner EXCEPT ![s] = t],
             held' = [held EXCEPT ![t] = s], Goto(t, "register")
      PROVE  Provider'
  <2> USE <1>2
  <2>1. /\ s \in Sessions /\ s \notin live
        /\ \A u \in Threads : local[u] # s /\ held[u] # s
    BY DEF Unused
  <2>2. ProviderTypes'
    BY <1>1, <2>1 DEF ProviderTypes, Labels, Goto
  <2>3. Hands'
    BY <1>1, <2>1 DEF Hands, ProviderTypes, Goto
  <2>4. Books'
    BY <1>1 DEF Books
  <2>5. \A u \in Threads, r \in Sessions :
          Mine(u, r)' <=> (Mine(u, r) \/ (u = t /\ r = s))
    BY <1>1, <2>1 DEF Mine, ProviderTypes, Goto
  <2>6. \A u \in Threads : ~Mine(u, s)
    BY <2>1 DEF Mine
  <2>7. ASSUME NEW u \in Threads, NEW q \in Threads, NEW r \in Sessions,
               Mine(u, r)', Mine(q, r)'
        PROVE  u = q
    <3>1. (Mine(u, r) \/ (u = t /\ r = s)) /\ (Mine(q, r) \/ (q = t /\ r = s))
      BY <2>5, <2>7
    <3> QED
      BY <3>1, <2>6 DEF Apart
  <2>8. Owned'
    BY <2>1, <2>5, <2>6 DEF Owned, ClientTypes
  <2>9. Found'
    <3>1. Keeps(t, s)'
      BY <1>1 DEF Keeps, ProviderTypes, Goto
    <3>2. ASSUME NEW r \in live \ forgotten, NEW u \in Threads, Keeps(u, r)
          PROVE  Keeps(u, r)'
      BY <1>1, <3>2 DEF Keeps, ProviderTypes, Goto
    <3> QED
      BY <1>1, <3>1, <3>2 DEF Found, Keeps
  <2> QED
    BY <2>2, <2>3, <2>4, <2>7, <2>8, <2>9 DEF Apart
<1>3. CASE Goto(t, "idle") /\ UNCHANGED <<live, owner, held>>
  <2> USE <1>3
  <2>1. ProviderTypes'
    BY <1>1 DEF ProviderTypes, Labels, Goto
  <2>2. Hands'
    BY <1>1 DEF Hands, ProviderTypes, Goto
  <2>3. Books'
    BY <1>1 DEF Books
  <2>4. \A u \in Threads, r \in Sessions : Mine(u, r)' <=> Mine(u, r)
    BY <1>1 DEF Mine, ProviderTypes, Goto
  <2>5. Apart' /\ Owned'
    BY <2>4, MineShrinks DEF Owned, ClientTypes
  <2>6. Found'
    BY <1>1, FoundStays DEF ProviderTypes, Goto
  <2> QED
    BY <2>1, <2>2, <2>3, <2>5, <2>6
<1> QED
  BY <1>2, <1>3 DEF Login

LEMMA ProviderRegister ==
  ASSUME ClientTypes, Provider, NEW t \in Threads, Register(t)
  PROVE  Provider'
<1> USE DEF Provider
<1> DEFINE s == held[t]
<1>1. pc[t] = "register" /\ s \in Sessions /\ local[t] = NoSession /\ Mine(t, s)
      /\ (s \in live => owner[s] \in {Nobody, t}) /\ UNCHANGED <<closed, closing>>
  BY NoneAssumption DEF Register, Hands, Mine, Owned
<1>2. CASE /\ Logout(t, s)
           /\ held' = [held EXCEPT ![t] = NoSession]
           /\ Goto(t, "idle")
           /\ registered' \in {registered,
                               IF closed THEN registered
                               ELSE [registered EXCEPT ![t] = NoSession]}
           /\ forgotten' = (forgotten \cup {registered[t]})
                              \ ({NoSession} \cup {registered'[t]})
           /\ UNCHANGED local
  <2> USE <1>2
  <2>1. ProviderTypes'
    BY <1>1 DEF ProviderTypes, Labels, Goto
  <2>2. Hands'
    BY <1>1 DEF Hands, ProviderTypes, Goto
  <2>3. Books'
    BY <1>1 DEF Books, ProviderTypes
  <2>4. \A u \in Threads, r \in Sessions : Mine(u, r)' => Mine(u, r)
    BY <1>1, NoneAssumption DEF Mine, ProviderTypes, Goto
  <2>5. Apart'
    BY <2>4, MineShrinks
  <2>6. live' = live \ {s} /\ \A r \in live' : owner'[r] = owner[r]
    BY <1>1, LogoutFrees
  <2>7. Owned'
    BY <2>4, <2>6 DEF Owned, ClientTypes
  <2>8. ASSUME NEW r \in live' \ forgotten'
        PROVE  \E u \in Threads : Keeps(u, r)'
    <3>1. CASE r = registered[t]
      <4>1. registered'[t] = r
        BY <3>1, <2>6, NoneAssumption DEF ClientTypes
      <4> QED
        BY <4>1 DEF Keeps
    <3>2. CASE r # registered[t]
      <4>1. r \in live \ forgotten /\ r # s
        <5>1. registered'[t] \in {registered[t], NoSession}
          BY DEF ProviderTypes
        <5> QED
          BY <5>1, <2>6, <2>8, <3>2, NoneAssumption DEF ClientTypes
      <4>2. PICK u \in Threads : Keeps(u, r)
        BY <4>1 DEF Found, Keeps
      <4>3. Keeps(u, r)'
        BY <1>1, <3>2, <4>1, <4>2 DEF Keeps, ProviderTypes, Goto
      <4> QED
        BY <4>3
    <3> QED
      BY <3>1, <3>2
  <2>9. Found'
    BY <2>8 DEF Found, Keeps
  <2> QED
    BY <2>1, <2>2, <2>3, <2>5, <2>7, <2>9
<1>3. CASE /\ ~closed
           /\ forgotten' = (forgotten \cup {registered[t]}) \ {NoSession}
           /\ registered' = [registered EXCEPT ![t] = s]
           /\ local' = [local EXCEPT ![t] = s]
           /\ Goto(t, "using")
           /\ UNCHANGED <<held, clientVars>>
  <2> USE <1>3
  <2>1. ProviderTypes'
    BY <1>1 DEF ProviderTypes, Labels, Goto
  <2>2. Hands'
    BY <1>1 DEF Hands, ProviderTypes, Goto
  <2>3. Books'
    BY <1>1 DEF Books, ProviderTypes
  <2>4. \A u \in Threads, r \in Sessions : Mine(u, r)' => Mine(u, r)
    BY <1>1 DEF Mine, ProviderTypes, Goto
  <2>5. Apart'
    BY <2>4, MineShrinks
  <2>6. live' = live /\ owner' = owner
    BY DEF clientVars
  <2>7. Owned'
    BY <2>4, <2>6 DEF Owned, ClientTypes
  <2>8. Found'
    <3>1. ASSUME NEW r \in live' \ forgotten', NEW u \in Threads, Keeps(u, r)
          PROVE  Keeps(u, r)'
      BY <1>1, <2>6, <3>1, NoneAssumption
      DEF Keeps, ProviderTypes, ClientTypes, Goto
    <3>2. live' \ forgotten' \subseteq live \ forgotten
      BY <2>6, NoneAssumption DEF ClientTypes
    <3> QED
      BY <3>1, <3>2, FoundMoves
  <2> QED
    BY <2>1, <2>2, <2>3, <2>5, <2>7, <2>8
<1> QED
  BY <1>2, <1>3 DEF Register

\* Calls, handles and resets leave the books alone: the thread has its own
\* session in hand, and may lay it down.
LEMMA ProviderStays ==
  ASSUME ClientTypes, Provider, NEW t \in Threads,
         UNCHANGED <<closed, registered, local, closing, forgotten, live>>,
         pc[t] \notin {"login", "register", "close", "logout"},
         pc' = [pc EXCEPT ![t] = pc'[t]], held' = [held EXCEPT ![t] = held'[t]],
         \/ pc'[t] \in {"prepare", "using", "reset", "discard"}
            /\ held'[t] = local[t] /\ local[t] \in Sessions
         \/ pc'[t] = "idle" /\ held'[t] = NoSession,
         \/ owner' = owner
         \/ local[t] \in live /\ owner' = [owner EXCEPT ![local[t]] = t]
  PROVE  Provider'
<1> USE DEF Provider
<1>1. ProviderTypes'
  BY DEF ProviderTypes, Labels
<1>2. Hands'
  BY DEF Hands, ProviderTypes
<1>3. Books'
  BY DEF Books
<1>4. \A u \in Threads, s \in Sessions : Mine(u, s)' <=> Mine(u, s)
  BY DEF Mine, ProviderTypes
<1>5. Apart'
  BY <1>4, MineShrinks
<1>6. \A u \in Threads, r \in live' : Mine(u, r) => owner'[r] \in {Nobody, u}
  <2>1. CASE owner' = owner
    BY <2>1 DEF Owned
  <2>2. CASE local[t] \in live /\ owner' = [owner EXCEPT ![local[t]] = t]
    <3>1. PICK s \in Sessions : s = local[t]
      BY <2>2 DEF ClientTypes
    <3>2. Mine(t, s)
      BY <3>1 DEF Mine
    <3> QED
      BY <2>2, <3>1, <3>2, CallBinds
  <2> QED
    BY <2>1, <2>2
<1>7. Owned'
  BY <1>4, <1>6 DEF Owned, ClientTypes
<1>8. Found'
  BY FoundStays DEF ProviderTypes
<1> QED
  BY <1>1, <1>2, <1>3, <1>5, <1>7, <1>8

LEMMA ProviderUse ==
  ASSUME ClientTypes, Provider, NEW t \in Threads, Use(t)
  PROVE  Provider'
<1>1. pc[t] = "using" /\ held[t] = local[t] /\ local[t] \in Sessions
  BY DEF Use, Provider, Hands
<1>2. /\ held[t] \in live /\ live' = live /\ owner' = [owner EXCEPT ![held[t]] = t]
      /\ UNCHANGED providerVars
  BY DEF Use, MayCall, Call
<1> QED
  BY <1>1, <1>2, ProviderStays DEF Provider, ProviderTypes, providerVars

LEMMA ProviderStutters ==
  ASSUME Provider, UNCHANGED <<live, owner, providerVars>>
  PROVE  Provider'
BY DEF Provider, ProviderTypes, Hands, Books, Apart, Mine, Owned, Found, providerVars

LEMMA ProviderRetain ==
  ASSUME ClientTypes, Provider, NEW t \in Threads, NEW h \in Handles,
         NEW s \in Sessions, NEW o \in Oops, Retain(t, h, s, o)
  PROVE  Provider'
<1>1. live' = live /\ UNCHANGED providerVars
  BY DEF Retain
<1>2. CASE owner' = owner
  BY <1>1, <1>2, ProviderStutters
<1>3. CASE owner' # owner
  <2>1. /\ pc[t] = "using" /\ held[t] = s /\ s \in live
        /\ owner' = [owner EXCEPT ![s] = t]
    BY <1>3 DEF Retain
  <2>2. held[t] = local[t] /\ local[t] \in Sessions
    BY <2>1 DEF Provider, Hands
  <2> QED
    BY <1>1, <2>1, <2>2, ProviderStays DEF Provider, ProviderTypes, providerVars
<1> QED
  BY <1>2, <1>3

LEMMA ProviderCallRelease ==
  ASSUME ClientTypes, Provider, NEW t \in Threads, CallRelease(t)
  PROVE  Provider'
<1>1. pc[t] = "using" /\ held[t] = local[t] /\ local[t] \in Sessions
  BY DEF CallRelease, Provider, Hands
<1>2. /\ live' = live /\ owner' = owner
      /\ UNCHANGED <<closed, registered, local, closing, forgotten>>
  BY DEF CallRelease, clientVars
<1>3. \/ pc' = [pc EXCEPT ![t] = "discard"] /\ held' = held
      \/ pc' = [pc EXCEPT ![t] = "reset"] /\ held' = held
      \/ pc' = [pc EXCEPT ![t] = "idle"] /\ held' = [held EXCEPT ![t] = NoSession]
  BY DEF CallRelease, Goto
<1>4. /\ pc[t] \notin {"login", "register", "close", "logout"}
      /\ pc' = [pc EXCEPT ![t] = pc'[t]] /\ held' = [held EXCEPT ![t] = held'[t]]
      /\ \/ /\ pc'[t] \in {"prepare", "using", "reset", "discard"}
            /\ held'[t] = local[t] /\ local[t] \in Sessions
         \/ pc'[t] = "idle" /\ held'[t] = NoSession
  BY <1>1, <1>3 DEF Provider, ProviderTypes
<1> QED
  BY <1>1, <1>2, <1>3, <1>4, ProviderStays

LEMMA ProviderReset ==
  ASSUME ClientTypes, Provider, NEW t \in Threads, Reset(t)
  PROVE  Provider'
<1>1. pc[t] = "reset" /\ held[t] = local[t] /\ local[t] \in Sessions
  BY DEF Reset, Provider, Hands
<1>2. UNCHANGED <<closed, registered, local, closing, forgotten>>
  BY DEF Reset
<1>3. \/ /\ held[t] \in live /\ live' = live
         /\ owner' = [owner EXCEPT ![held[t]] = t]
         /\ pc' = [pc EXCEPT ![t] = "idle"] /\ held' = [held EXCEPT ![t] = NoSession]
      \/ /\ pc' = [pc EXCEPT ![t] = "discard"]
         /\ live' = live /\ owner' = owner /\ held' = held
  BY DEF Reset, MayCall, Call, Goto, clientVars
<1>4. /\ pc[t] \notin {"login", "register", "close", "logout"}
      /\ pc' = [pc EXCEPT ![t] = pc'[t]] /\ held' = [held EXCEPT ![t] = held'[t]]
      /\ \/ /\ pc'[t] \in {"prepare", "using", "reset", "discard"}
            /\ held'[t] = local[t] /\ local[t] \in Sessions
         \/ pc'[t] = "idle" /\ held'[t] = NoSession
  BY <1>1, <1>3 DEF Provider, ProviderTypes
<1> QED
  BY <1>1, <1>2, <1>3, <1>4, ProviderStays

\* Finalizers have nothing to do with the provider.
LEMMA ProviderDiscard ==
  ASSUME ClientTypes, Provider, NEW t \in Threads, Discard(t)
  PROVE  Provider'
<1> USE DEF Provider
<1> DEFINE s == held[t]
<1>1. pc[t] = "discard" /\ s \in Sessions /\ local[t] = s /\ Mine(t, s)
      /\ (s \in live => owner[s] \in {Nobody, t})
  BY NoneAssumption DEF Discard, Hands, Mine, Owned
<1>2. /\ Logout(t, s)
      /\ registered' = [registered EXCEPT ![t] = NoSession]
      /\ local' = [local EXCEPT ![t] = NoSession]
      /\ held' = [held EXCEPT ![t] = NoSession]
      /\ Goto(t, "idle")
      /\ UNCHANGED <<closed, closing, forgotten>>
  BY <1>1 DEF Discard
<1>3. ProviderTypes'
  BY <1>2 DEF ProviderTypes, Labels, Goto
<1>4. Hands'
  BY <1>1, <1>2 DEF Hands, ProviderTypes, Goto
<1>5. Books'
  BY <1>1, <1>2 DEF Books, ProviderTypes
<1>6. \A u \in Threads, r \in Sessions : Mine(u, r)' => Mine(u, r)
  BY <1>1, <1>2, NoneAssumption DEF Mine, ProviderTypes, Goto
<1>7. Apart'
  BY <1>6, MineShrinks
<1>8. live' = live \ {s} /\ \A r \in live' : owner'[r] = owner[r]
  BY <1>1, <1>2, LogoutFrees
<1>9. Owned'
  BY <1>6, <1>8 DEF Owned, ClientTypes
<1>10. Found'
  <2>1. ASSUME NEW r \in live' \ forgotten', NEW u \in Threads, Keeps(u, r)
        PROVE  Keeps(u, r)'
    BY <1>1, <1>2, <1>8, <2>1, NoneAssumption
    DEF Keeps, Books, ProviderTypes, ClientTypes, Goto
  <2> QED
    BY <1>2, <1>8, <2>1, FoundMoves
<1> QED
  BY <1>3, <1>4, <1>5, <1>7, <1>9, <1>10

LEMMA ProviderCallClose ==
  ASSUME ClientTypes, Provider, NEW t \in Threads, CallClose(t)
  PROVE  Provider'
<1> USE DEF Provider
<1>1. /\ pc[t] = "idle" /\ held[t] = NoSession /\ closing[t] = {}
      /\ closed' = TRUE /\ pc' = [pc EXCEPT ![t] = "close"]
      /\ closing' = [closing EXCEPT ![t] =
           {registered[q] : q \in Threads} \ {NoSession}]
      /\ registered' = [q \in Threads |-> NoSession]
      /\ UNCHANGED <<clientVars, local, held, forgotten>>
  BY DEF CallClose, Hands, Goto
<1>2. live' = live /\ owner' = owner
  BY <1>1 DEF clientVars
<1>3. ProviderTypes'
  BY <1>1 DEF ProviderTypes, Labels
<1>4. Hands'
  BY <1>1 DEF Hands, ProviderTypes
<1>5. Books'
  BY <1>1 DEF Books
<1>6. \A u \in Threads, r \in Sessions : Mine(u, r)' <=> Mine(u, r)
  BY <1>1 DEF Mine, ProviderTypes
<1>7. Apart' /\ Owned'
  BY <1>2, <1>6, MineShrinks DEF Owned, ClientTypes
<1>8. Found'
  <2>1. ASSUME NEW r \in live \ forgotten
        PROVE  \E u \in Threads : Keeps(u, r)'
    <3>1. PICK u \in Threads : Keeps(u, r)
      BY DEF Found, Keeps
    <3>2. CASE registered[u] = r
      <4>1. r \in closing'[t]
        BY <1>1, <3>2, NoneAssumption DEF ProviderTypes, ClientTypes
      <4> QED
        BY <4>1 DEF Keeps
    <3>3. CASE registered[u] # r
      <4>1. Keeps(u, r)'
        BY <1>1, <3>1, <3>3 DEF Keeps, ProviderTypes
      <4> QED
        BY <4>1
    <3> QED
      BY <3>2, <3>3
  <2> QED
    BY <1>1, <1>2, <2>1 DEF Found, Keeps
<1> QED
  BY <1>3, <1>4, <1>5, <1>7, <1>8

LEMMA ProviderCloseUnbind ==
  ASSUME ClientTypes, Provider, NEW t \in Threads, CloseUnbind(t)
  PROVE  Provider'
<1> USE DEF Provider
<1>1. /\ pc[t] = "close"
      /\ UNCHANGED <<live, closed, registered, local, closing, forgotten>>
      /\ \/ \E s \in closing[t] :
              /\ owner' = [owner EXCEPT ![s] = Nobody]
              /\ held' = [held EXCEPT ![t] = s]
              /\ pc' = [pc EXCEPT ![t] = "logout"]
         \/ /\ closing[t] = {} /\ pc' = [pc EXCEPT ![t] = "idle"]
            /\ UNCHANGED <<owner, held>>
  BY DEF CloseUnbind, Goto
<1>2. ProviderTypes'
  BY <1>1 DEF ProviderTypes, Labels
<1>3. Hands'
  BY <1>1 DEF Hands, ProviderTypes
<1>4. Books'
  BY <1>1 DEF Books
<1>5. \A u \in Threads, r \in Sessions : Mine(u, r)' <=> Mine(u, r)
  BY <1>1 DEF Mine, ProviderTypes
<1>6. Apart'
  BY <1>5, MineShrinks
<1>7. \A r \in live : owner'[r] \in {owner[r], Nobody}
  BY <1>1 DEF ClientTypes
<1>8. Owned'
  BY <1>1, <1>5, <1>7 DEF Owned, ClientTypes
<1>9. Found'
  BY <1>1, FoundStays DEF ProviderTypes
<1> QED
  BY <1>2, <1>3, <1>4, <1>6, <1>8, <1>9

LEMMA ProviderCloseLogout ==
  ASSUME ClientTypes, Provider, NEW t \in Threads, CloseLogout(t)
  PROVE  Provider'
<1> USE DEF Provider
<1>1. PICK s \in closing[t] : s = held[t]
  BY DEF CloseLogout, Hands
<1>2. /\ pc[t] = "logout" /\ s \in Sessions /\ Logout(t, s)
      /\ closing' = [closing EXCEPT ![t] = @ \ {s}]
      /\ held' = [held EXCEPT ![t] = NoSession]
      /\ forgotten' = forgotten \cup (live' \cap {s})
      /\ pc' = [pc EXCEPT ![t] = "close"]
      /\ UNCHANGED <<closed, registered, local>>
  BY <1>1 DEF CloseLogout, Goto, ProviderTypes
<1>3. live' \subseteq live /\ \A r \in live' : owner'[r] = owner[r]
  <2>1. CASE MayCall(t, s)
    BY <2>1, <1>2 DEF Logout, ClientTypes
  <2>2. CASE ~MayCall(t, s)
    BY <2>2, <1>2 DEF Logout, clientVars
  <2> QED
    BY <2>1, <2>2
<1>4. ProviderTypes'
  BY <1>2, <1>3 DEF ProviderTypes, ClientTypes, Labels
<1>5. Hands'
  BY <1>2 DEF Hands, ProviderTypes
<1>6. Books'
  BY <1>2 DEF Books
<1>7. \A u \in Threads, r \in Sessions : Mine(u, r)' <=> Mine(u, r)
  BY <1>2 DEF Mine, ProviderTypes
<1>8. Apart'
  BY <1>7, MineShrinks
<1>9. Owned'
  BY <1>3, <1>7 DEF Owned, ClientTypes
<1>10. Found'
  <2>1. ASSUME NEW r \in live' \ forgotten', NEW u \in Threads, Keeps(u, r)
        PROVE  Keeps(u, r)'
    BY <1>2, <1>3, <2>1 DEF Keeps, ProviderTypes, ClientTypes
  <2> QED
    BY <1>2, <1>3, <2>1, FoundMoves
<1> QED
  BY <1>4, <1>5, <1>6, <1>8, <1>9, <1>10

LEMMA ProviderRestart ==
  ASSUME ClientTypes, Provider, NEW t \in Threads, Restart(t)
  PROVE  Provider'
<1> USE DEF Provider
<1>1. /\ pc[t] = "idle" /\ local' = [local EXCEPT ![t] = NoSession]
      /\ UNCHANGED <<live, owner, closed, registered, pc, held, closing, forgotten>>
  BY DEF Restart, clientVars
<1>2. ProviderTypes'
  BY <1>1 DEF ProviderTypes
<1>3. Hands'
  BY <1>1 DEF Hands, ProviderTypes
<1>4. Books'
  BY <1>1 DEF Books, ProviderTypes
<1>5. \A u \in Threads, r \in Sessions : Mine(u, r)' => Mine(u, r)
  BY <1>1, NoneAssumption DEF Mine, ProviderTypes
<1>6. Apart' /\ Owned'
  BY <1>1, <1>5, MineShrinks DEF Owned, ClientTypes
<1>7. Found'
  BY <1>1, FoundStays
<1> QED
  BY <1>2, <1>3, <1>4, <1>6, <1>7

-----------------------------------------------------------------------------
(* The theorems.                                                           *)

LEMMA IInvParts ==
  (IInv => Client /\ Provider) /\ (Client' /\ Provider' => IInv')
BY DEF IInv, Client, Provider, TypeOK, ClientTypes, ProviderTypes

LEMMA InitIInv == Init => IInv
<1> SUFFICES ASSUME Init PROVE IInv
  OBVIOUS
<1>1. Cardinality(Handles) \in Nat /\ Cardinality({}) = 0
  BY HandlesAssumption, FS_CardinalityType, FS_EmptySet
<1>2. TypeOK
  <2>1. counts \in [Sessions -> [Oops -> 0..Cardinality(Handles)]]
    BY <1>1 DEF Init
  <2>2. /\ removals \in [Sessions -> [Oops -> Nat]]
        /\ exported \in [Sessions -> SUBSET Oops]
        /\ handle \in [Handles -> (Sessions \X Oops) \cup {Unmade}]
    BY DEF Init
  <2>3. pc \in [Threads -> Labels] /\ closing \in [Threads -> SUBSET Sessions]
    BY DEF Init, Labels
  <2>4. /\ owner \in [Sessions -> Threads \cup {Nobody}]
        /\ registered \in [Threads -> Sessions \cup {NoSession}]
        /\ local \in [Threads -> Sessions \cup {NoSession}]
        /\ held \in [Threads -> Sessions \cup {NoSession}]
    BY DEF Init
  <2>5. live \subseteq Sessions /\ retaken \subseteq Sessions \X Oops
        /\ refused \subseteq Handles /\ robbed \subseteq Sessions \X Oops
        /\ forgotten \subseteq Sessions /\ closed \in BOOLEAN
    BY DEF Init
  <2> QED
    BY <2>1, <2>2, <2>3, <2>4, <2>5 DEF TypeOK
<1>3. Hands /\ Books /\ Owned /\ Found
  BY DEF Init, Hands, Books, Owned, Found
<1>4. Apart
  BY NoneAssumption DEF Init, Apart, Mine
<1>5. Pending /\ Counted /\ Exports
  <2>1. ASSUME NEW s \in Sessions, NEW o \in Oops
        PROVE  /\ s \notin live /\ counts[s][o] = 0 /\ removals[s][o] = 0
               /\ exported[s] = {} /\ <<s, o>> \notin retaken \cup robbed
               /\ counts[s][o] <= Cardinality(Open(s, o))
    <3>1. Cardinality(Open(s, o)) \in Nat
      BY OpenCount
    <3> QED
      BY <3>1 DEF Init
  <2> QED
    BY <2>1 DEF Init, Pending, Counted, Exports
<1> QED
  BY <1>2, <1>3, <1>4, <1>5 DEF IInv

LEMMA ClientStep ==
  ASSUME Client, Provider, NEW t \in Threads,
         \/ CallAcquire(t) \/ Prepare(t) \/ Login(t) \/ Register(t) \/ Use(t)
         \/ CallRelease(t) \/ Reset(t) \/ Discard(t)
         \/ CallClose(t) \/ CloseUnbind(t) \/ CloseLogout(t) \/ Restart(t)
  PROVE  Client'
<1>1. CASE CallAcquire(t) \/ CallRelease(t) \/ CallClose(t) \/ Restart(t)
  BY <1>1, ClientStutters DEF CallAcquire, CallRelease, CallClose, Restart
<1>2. ASSUME NEW s \in Sessions, Call(t, s), MayCall(t, s)
      PROVE  Client'
  BY <1>2, ClientCall DEF MayCall
<1>3. pc[t] \in {"prepare", "register", "using", "reset", "discard", "logout"} =>
        held[t] \in Sessions
  BY DEF Provider, Hands, ProviderTypes
<1>4. CASE Prepare(t)
  BY <1>2, <1>3, <1>4, ClientLogout DEF Prepare
<1>5. CASE Login(t)
  <2>1. CASE \E s \in Unused :
               /\ live' = live \cup {s}
               /\ owner' = [owner EXCEPT ![s] = t]
               /\ UNCHANGED <<counts, removals, exported, handle, refused, retaken,
                               robbed>>
    BY <2>1, ClientLogin
  <2>2. CASE UNCHANGED clientVars
    BY <2>2, ClientStutters
  <2> QED
    BY <1>5, <2>1, <2>2 DEF Login, clientVars
<1>6. CASE Register(t)
  BY <1>3, <1>6, ClientLogout, ClientStutters DEF Register
<1>7. CASE Use(t)
  BY <1>2, <1>3, <1>7 DEF Use
<1>8. CASE Reset(t)
  BY <1>2, <1>3, <1>8, ClientStutters DEF Reset
<1>9. CASE Discard(t)
  BY <1>3, <1>9, ClientLogout DEF Discard
<1>10. CASE CloseUnbind(t)
  <2>1. CASE \E s \in closing[t] :
               /\ owner' = [owner EXCEPT ![s] = Nobody]
               /\ UNCHANGED <<live, counts, removals, exported, handle, refused,
                               retaken, robbed>>
    <3>1. closing[t] \subseteq Sessions
      BY DEF Provider, ProviderTypes
    <3> QED
      BY <2>1, <3>1, ClientRebound
  <2>2. CASE UNCHANGED clientVars
    BY <2>2, ClientStutters
  <2> QED
    BY <1>10, <2>1, <2>2 DEF CloseUnbind, clientVars
<1>11. CASE CloseLogout(t)
  BY <1>3, <1>11, ClientLogout DEF CloseLogout
<1> QED
  BY <1>1, <1>4, <1>5, <1>6, <1>7, <1>8, <1>9, <1>10, <1>11

LEMMA NextIInv == IInv /\ [Next]_vars => IInv'
<1> SUFFICES ASSUME Client, Provider, [Next]_vars
             PROVE  Client' /\ Provider'
  BY IInvParts
<1>1. ClientTypes
  BY DEF Client
<1>2. CASE UNCHANGED vars
  BY <1>2, ClientStutters, ProviderStutters DEF vars, clientVars
<1>3. ASSUME NEW t \in Threads, NEW h \in Handles, Finalize(t, h)
      PROVE  Client' /\ Provider'
  <2>1. UNCHANGED <<live, owner, providerVars>>
    BY <1>3 DEF Finalize
  <2> QED
    BY <1>3, <2>1, ClientFinalize, ProviderStutters
<1>4. ASSUME NEW t \in Threads, NEW h \in Handles, NEW s \in Sessions,
             NEW o \in Oops, Retain(t, h, s, o) \/ Refuse(t, h, s, o)
      PROVE  Client' /\ Provider'
  <2>1. CASE Retain(t, h, s, o)
    BY <1>1, <2>1, ClientRetain, ProviderRetain
  <2>2. CASE Refuse(t, h, s, o)
    <3>1. UNCHANGED <<live, owner, providerVars>>
      BY <2>2 DEF Refuse
    <3> QED
      BY <2>2, <3>1, ClientRefuse, ProviderStutters
  <2> QED
    BY <1>4, <2>1, <2>2
<1>5. ASSUME NEW t \in Threads,
             \/ CallAcquire(t) \/ Prepare(t) \/ Login(t) \/ Register(t) \/ Use(t)
             \/ CallRelease(t) \/ Reset(t) \/ Discard(t)
             \/ CallClose(t) \/ CloseUnbind(t) \/ CloseLogout(t) \/ Restart(t)
      PROVE  Client' /\ Provider'
  BY <1>1, <1>5, ClientStep, ProviderCallAcquire, ProviderPrepare, ProviderLogin,
     ProviderRegister, ProviderUse, ProviderCallRelease, ProviderReset,
     ProviderDiscard, ProviderCallClose, ProviderCloseUnbind, ProviderCloseLogout,
     ProviderRestart
<1> QED
  BY <1>2, <1>3, <1>4, <1>5 DEF Next

\* The inductive invariant holds, however the threads acquire, use, release and
\* close, and whichever thread the finalizers run in.
THEOREM Invariance == Spec => []IInv
BY InitIInv, NextIInv, PTL DEF Spec

\* The books of the provider and of the sessions keep their types.
THEOREM TypeCorrect == Spec => []TypeOK
BY Invariance, PTL DEF IInv

\* For any threads, sessions, objects and handles, the export set of a session
\* follows the handles its clients hold (client.py, oop.py).
THEOREM ExportTheorem == Spec => []ExportSetFollowsHandles
<1>1. IInv => ExportSetFollowsHandles
  <2>1. SUFFICES ASSUME IInv, NEW s \in live, NEW o \in Oops
                 PROVE  /\ Open(s, o) # {} =>
                             o \in exported[s] \/ <<s, o>> \in retaken \cup robbed
                        /\ Open(s, o) = {} /\ o \in exported[s] => removals[s][o] > 0
                        /\ <<s, o>> \notin robbed =>
                             counts[s][o] = Cardinality(Open(s, o))
    BY DEF ExportSetFollowsHandles
  <2>2. s \in Sessions /\ counts[s][o] \in Nat
    BY <2>1, OpenCount DEF IInv, TypeOK
  <2>3. /\ counts[s][o] <= Cardinality(Open(s, o))
        /\ <<s, o>> \notin robbed => counts[s][o] = Cardinality(Open(s, o))
    BY <2>1, <2>2 DEF IInv, Counted
  <2>4. /\ counts[s][o] > 0 => o \in exported[s] \/ <<s, o>> \in retaken
        /\ counts[s][o] = 0 /\ o \in exported[s] => removals[s][o] > 0
    BY <2>1, <2>2 DEF IInv, Exports
  <2> QED
    BY <2>2, <2>3, <2>4, OpenCount
<1> QED
  BY <1>1, Invariance, PTL

\* For any number of threads, no session that is logged in is forgotten but in
\* the two known ways, and none stays in the books of a closed provider
\* (session_providers.py).
THEOREM ForgettingTheorem == Spec => []NoSessionForgotten
<1>1. IInv => NoSessionForgotten
  BY NoneAssumption DEF IInv, TypeOK, Found, Books, NoSessionForgotten
<1> QED
  BY <1>1, Invariance, PTL
=============================================================================
