----------------------- MODULE ConnectionManager_proofs -----------------------
(***************************************************************************)
(* For any number of callers and connections: a reference keeps the shared *)
(* connection open, the count is right, no connection leaks, and no holder *)
(* is told that the connection is shut down.                               *)
(***************************************************************************)
EXTENDS ConnectionManager, FiniteSetTheorems, TLAPS

Dialing(k, c) == client[k] = "dialed" /\ held[k] = c

\* A connection just dialled is in one caller's hands and nowhere else.
DialInv ==
  \A k \in Client : client[k] = "dialed" =>
    /\ held[k] \in Conn /\ held[k] # entry
    /\ channel[held[k]] \in Open
    /\ watcher[held[k]] = "none"
    /\ \A j \in Client : Dialing(j, held[k]) => j = k

\* What is open is the entry or in a dialling caller's hands.
OpenInv ==
  /\ entry # NoConn => channel[entry] \in Open
  /\ \A c \in Conn : channel[c] \in Open => c = entry \/ \E k \in Client : Dialing(k, c)
  /\ \A c \in Conn : channel[c] = "undialed" => watcher[c] = "none"

CountInv ==
  /\ \A k \in Holders : held[k] = entry /\ entry # NoConn
  /\ entry # NoConn => refCount[entry] = Cardinality(Holders) /\ Holders # {}

\* What the status goroutines know: "shutdown" only of closed connections.
WatchInv ==
  /\ \A w \in Conn : watcher[w] \in {"read", "seen"} =>
       managed[w] \in Conn /\ channel[managed[w]] # "undialed"
  /\ \A w \in Conn : watcher[w] = "seen" /\ newStatus[w] = "shutdown" =>
       channel[managed[w]] = "closed"
  /\ entry # NoConn => status[entry] # "shutdown"

\* The entry's own goroutine watches the entry.
OwnInv ==
  entry # NoConn =>
    /\ watcher[entry] \in {"top", "read", "seen"}
    /\ watcher[entry] # "top" => managed[entry] = entry

IInv == TypeOK /\ DialInv /\ OpenInv /\ CountInv /\ WatchInv /\ OwnInv

LEMMA InitIInv == Init => IInv
<1> SUFFICES ASSUME Init PROVE IInv
  OBVIOUS
<1>1. TypeOK
  BY DEF Init, TypeOK, Status, Open
<1> QED
  BY <1>1, ConnAssumption
     DEF IInv, Init, DialInv, OpenInv, CountInv, WatchInv, OwnInv, Holders, Open, Dialing

\* Holders are finitely many.
LEMMA HoldersFinite == IsFiniteSet(Holders) /\ Cardinality(Holders) \in Nat
<1>1. IsFiniteSet(Holders)
  BY ConnAssumption, FS_Subset DEF Holders
<1> QED
  BY <1>1, FS_CardinalityType

LEMMA OneMore ==
  ASSUME NEW k \in Client, k \notin Holders, Holders' = Holders \cup {k}
  PROVE  Cardinality(Holders') = Cardinality(Holders) + 1
BY HoldersFinite, FS_AddElement

LEMMA OneLess ==
  ASSUME NEW k \in Client, k \in Holders, Holders' = Holders \ {k}
  PROVE  /\ Cardinality(Holders') = Cardinality(Holders) - 1
         /\ Cardinality(Holders) - 1 = 0 <=> Holders' = {}
<1>1. Cardinality(Holders') = Cardinality(Holders) - 1
  BY HoldersFinite, FS_RemoveElement
<1>2. IsFiniteSet(Holders')
  BY HoldersFinite, FS_Subset
<1>3. Cardinality(Holders') = 0 <=> Holders' = {}
  BY <1>2, FS_EmptySet
<1> QED
  BY <1>1, <1>3

LEMMA StepIInv == IInv /\ [Next]_vars => IInv'
<1> SUFFICES ASSUME IInv, [Next]_vars PROVE IInv'
  OBVIOUS
<1> USE ConnAssumption DEF IInv, TypeOK, Status, Open
<1>0. CASE UNCHANGED vars
  BY <1>0 DEF vars, clientVars, entryVars, watcherVars, DialInv, OpenInv, CountInv, WatchInv,
     OwnInv, Holders, Dialing
<1>1. ASSUME NEW k \in Client, GetHit(k) PROVE IInv'
  <2>1. Holders' = Holders \cup {k} /\ k \notin Holders
    BY <1>1 DEF GetHit, Acquire, Holders
  <2>2. TypeOK' /\ UNCHANGED <<entry, channel, watcher, managed, newStatus, status>>
    BY <1>1 DEF GetHit, Acquire, watcherVars
  <2>3. CountInv'
    BY <1>1, <2>1, OneMore DEF GetHit, Acquire, CountInv, Holders
  <2>4. \A j \in Client, c \in Conn : Dialing(j, c)' <=> Dialing(j, c)
    BY <1>1 DEF GetHit, Acquire, Dialing
  <2>5. DialInv'
    BY <1>1, <2>2, <2>4 DEF GetHit, Acquire, DialInv
  <2>6. OpenInv'
    BY <1>1, <2>2, <2>4 DEF OpenInv
  <2> QED
    BY <2>2, <2>3, <2>5, <2>6 DEF WatchInv, OwnInv
<1>2. ASSUME NEW k \in Client, GetMiss(k) \/ DialFails(k) PROVE IInv'
  <2>1. Holders' = Holders
    BY <1>2 DEF GetMiss, DialFails, Holders
  <2>2. \A j \in Client, c \in Conn : Dialing(j, c)' <=> Dialing(j, c)
    BY <1>2 DEF GetMiss, DialFails, Dialing
  <2>3. UNCHANGED <<held, entry, refCount, status, channel, watcher, managed, newStatus>>
    BY <1>2 DEF GetMiss, DialFails, entryVars, watcherVars
  <2>4. TypeOK'
    BY <1>2, <2>3 DEF GetMiss, DialFails
  <2>5. DialInv'
    BY <1>2, <2>2, <2>3 DEF GetMiss, DialFails, DialInv
  <2>6. OpenInv'
    BY <2>2, <2>3 DEF OpenInv
  <2> QED
    BY <2>1, <2>3, <2>4, <2>5, <2>6 DEF CountInv, WatchInv, OwnInv
<1>3. ASSUME NEW k \in Client, NEW c \in Conn, Dial(k, c) PROVE IInv'
  <2>1. Holders' = Holders
    BY <1>3 DEF Dial, Holders
  <2>2. c # entry /\ watcher[c] = "none" /\ \A j \in Client : ~Dialing(j, c)
    BY <1>3 DEF Dial, OpenInv, DialInv, Dialing
  <2>3. TypeOK'
    BY <1>3 DEF Dial, entryVars, watcherVars
  <2>4. \A j \in Client, d \in Conn : Dialing(j, d)' <=> (Dialing(j, d) \/ (j = k /\ d = c))
    BY <1>3 DEF Dial, Dialing
  <2>5. DialInv'
    BY <1>3, <2>2, <2>4 DEF Dial, DialInv, Dialing, entryVars, watcherVars
  <2>6. OpenInv'
    BY <1>3, <2>2, <2>4 DEF Dial, OpenInv, entryVars, watcherVars
  <2>7. CountInv'
    BY <1>3, <2>1 DEF Dial, CountInv, Holders, entryVars
  <2>8. WatchInv' /\ OwnInv'
    BY <1>3 DEF Dial, WatchInv, OwnInv, entryVars, watcherVars
  <2> QED
    BY <2>3, <2>5, <2>6, <2>7, <2>8
<1>4. ASSUME NEW k \in Client, Publish(k) PROVE IInv'
  <2>1. Holders = {} /\ Holders' = {k}
    BY <1>4 DEF Publish, Holders, CountInv
  <2>2. Cardinality(Holders') = 1
    BY <2>1, FS_Singleton
  <2>3. held[k] \in Conn /\ watcher[held[k]] = "none" /\ channel[held[k]] \in Open
    BY <1>4 DEF Publish, DialInv
  <2>4. TypeOK'
    BY <1>4, <2>3 DEF Publish
  <2>5. \A j \in Client, c \in Conn : Dialing(j, c)' <=> (Dialing(j, c) /\ j # k)
    BY <1>4 DEF Publish, Dialing
  <2>6. DialInv'
    BY <1>4, <2>3, <2>5 DEF Publish, DialInv, Dialing
  <2>7. OpenInv'
    BY <1>4, <2>3, <2>5 DEF Publish, OpenInv, Dialing
  <2>8. CountInv'
    BY <1>4, <2>1, <2>2, <2>3 DEF Publish, CountInv, Holders
  <2>9. WatchInv' /\ OwnInv'
    BY <1>4, <2>3 DEF Publish, WatchInv, OwnInv
  <2> QED
    BY <2>4, <2>6, <2>7, <2>8, <2>9
<1>5. ASSUME NEW k \in Client, Yield(k) PROVE IInv'
  <2>1. Holders' = Holders \cup {k} /\ k \notin Holders
    BY <1>5 DEF Yield, Acquire, Holders
  <2>2. held[k] \in Conn /\ held[k] # entry /\ watcher[held[k]] = "none"
    BY <1>5 DEF Yield, DialInv
  <2>3. TypeOK'
    <3>1. entry \in Conn /\ refCount[entry] + 1 \in Nat
      BY <1>5 DEF Yield
    <3>2. UNCHANGED <<entry, status, watcher, managed, newStatus>>
      BY <1>5 DEF Yield, Acquire, watcherVars
    <3>3. refCount' \in [Conn -> Nat]
      BY <1>5, <3>1 DEF Yield, Acquire
    <3>4. client' \in [Client -> {"idle", "missed", "dialed", "holding"}]
          /\ held' \in [Client -> Conn \cup {NoConn}]
      BY <1>5 DEF Yield, Acquire
    <3>5. channel' \in [Conn -> Open \cup {"undialed", "closed"}]
      BY <1>5 DEF Yield
    <3> QED
      BY <3>2, <3>3, <3>4, <3>5
  <2>4. CountInv'
    BY <1>5, <2>1, OneMore DEF Yield, Acquire, CountInv, Holders
  <2>5. \A j \in Client, c \in Conn : Dialing(j, c)' <=> (Dialing(j, c) /\ j # k)
    BY <1>5 DEF Yield, Acquire, Dialing
  <2>6. DialInv'
    BY <1>5, <2>2, <2>5 DEF Yield, Acquire, DialInv, Dialing, watcherVars
  <2>7. OpenInv'
    BY <1>5, <2>2, <2>5 DEF Yield, Acquire, OpenInv, Dialing, watcherVars
  <2>8. WatchInv' /\ OwnInv'
    BY <1>5, <2>2 DEF Yield, Acquire, WatchInv, OwnInv, watcherVars
  <2> QED
    BY <2>3, <2>4, <2>6, <2>7, <2>8
<1>6. ASSUME NEW k \in Client, Release(k) PROVE IInv'
  <2>1. Holders' = Holders \ {k} /\ k \in Holders
    BY <1>6 DEF Release, Holders
  <2>2. entry \in Conn /\ entry # NoConn /\ refCount[entry] = Cardinality(Holders)
    BY <2>1 DEF CountInv
  <2>3. Drop /\ refCount'[entry] = Cardinality(Holders')
    BY <1>6, <2>1, <2>2, OneLess DEF Release, Drop
  <2>4. IsFiniteSet(Holders') /\ Cardinality(Holders') \in Nat
    BY <2>1, HoldersFinite, FS_Subset, FS_CardinalityType
  <2>5. \A j \in Client, c \in Conn : Dialing(j, c)' <=> Dialing(j, c)
    BY <1>6 DEF Release, Dialing
  <2>6. UNCHANGED <<status, watcher, managed, newStatus>>
    BY <1>6 DEF Release, watcherVars
  <2>7. CASE Holders' = {}
    <3>1. entry' = NoConn /\ channel' = [channel EXCEPT ![entry] = "closed"]
      BY <1>6, <2>2, <2>3, <2>4, <2>7, FS_EmptySet DEF Release
    <3>2. TypeOK'
      BY <1>6, <2>3, <2>4, <2>6, <3>1, <2>2 DEF Release, Drop
    <3>3. DialInv'
      BY <1>6, <2>5, <2>6, <3>1 DEF Release, DialInv
    <3>4. OpenInv'
      BY <2>5, <2>6, <3>1 DEF OpenInv
    <3> QED
      BY <2>6, <2>7, <3>1, <3>2, <3>3, <3>4 DEF CountInv, WatchInv, OwnInv
  <2>8. CASE Holders' # {}
    <3>1. Cardinality(Holders') > 0
      BY <2>4, <2>8, FS_EmptySet
    <3>2. UNCHANGED <<entry, channel>>
      <4>1. ~(refCount'[entry] <= 0)
        BY <2>3, <2>4, <3>1
      <4>2. IF refCount'[entry] <= 0
            THEN entry' = NoConn /\ channel' = [channel EXCEPT ![entry] = "closed"]
            ELSE UNCHANGED <<entry, channel>>
        BY <1>6, <2>2 DEF Release
      <4> QED
        BY <4>1, <4>2, Zenon
    <3>3. TypeOK'
      BY <1>6, <2>2, <2>3, <2>4, <2>6, <3>2 DEF Release, Drop
    <3>4. DialInv'
      BY <1>6, <2>5, <2>6, <3>2 DEF Release, DialInv
    <3>5. OpenInv'
      BY <2>5, <2>6, <3>2 DEF OpenInv
    <3>6. CountInv'
      BY <1>6, <2>3, <2>8, <3>2 DEF Release, CountInv, Holders
    <3> QED
      BY <2>6, <3>2, <3>3, <3>4, <3>5, <3>6 DEF WatchInv, OwnInv
  <2> QED
    BY <2>7, <2>8
<1>7. ASSUME NEW w \in Conn, Watch(w) PROVE IInv'
  <2>0. UNCHANGED <<client, held, entry, refCount, channel>>
    BY <1>7 DEF Watch, WatchRead, WatchState, WatchWrite, clientVars, entryVars
  <2>1. watcher[w] # "none" /\ watcher'[w] # "none"
        /\ \A c \in Conn : c # w => watcher'[c] = watcher[c]
    BY <1>7 DEF Watch, WatchRead, WatchState, WatchWrite
  <2>2. \A j \in Client, c \in Conn : Dialing(j, c)' <=> Dialing(j, c)
    BY <2>0 DEF Dialing
  <2>3. DialInv' /\ OpenInv' /\ CountInv'
    BY <2>0, <2>1, <2>2 DEF DialInv, OpenInv, CountInv, Holders
  <2>4. CASE WatchRead(w)
    BY <2>0, <2>3, <2>4 DEF WatchRead, WatchInv, OwnInv, OpenInv
  <2>5. CASE WatchState(w)
    <3>1. newStatus'[w] \in Status /\ (newStatus'[w] = "shutdown" => channel[managed[w]] = "closed")
      BY <2>5 DEF WatchState, StatusOf
    <3> QED
      BY <2>0, <2>3, <2>5, <3>1 DEF WatchState, WatchInv, OwnInv
  <2>6. CASE WatchWrite(w)
    BY <2>0, <2>3, <2>6 DEF WatchWrite, WatchInv, OwnInv, OpenInv
  <2> QED
    BY <1>7, <2>4, <2>5, <2>6 DEF Watch
<1>8. ASSUME NEW c \in Conn, TransportChanges(c) PROVE IInv'
  BY <1>8 DEF TransportChanges, clientVars, entryVars, watcherVars, DialInv, OpenInv, CountInv,
     WatchInv, OwnInv, Holders, Dialing
<1> QED
  BY <1>0, <1>1, <1>2, <1>3, <1>4, <1>5, <1>6, <1>7, <1>8 DEF Next, Get

\* IInv holds in every reachable state: every interleaving of GetConnection,
\* ReleaseConnection and the status goroutines, for any number of them.
THEOREM Invariance == Spec => []IInv
BY InitIInv, StepIInv, PTL DEF Spec

\* Types are kept.
THEOREM TypeCorrect == Spec => []TypeOK
<1>1. IInv => TypeOK
  BY DEF IInv
<1> QED
  BY <1>1, Invariance, PTL

\* A reference keeps the connection it was given open and managed.
THEOREM References == Spec => []HeldIsOpen
<1>1. IInv => HeldIsOpen
  BY DEF IInv, HeldIsOpen, CountInv, OpenInv
<1> QED
  BY <1>1, Invariance, PTL

\* No open connection is without an owner.
THEOREM NoLeak == Spec => []NoConnectionLeaks
<1>1. IInv => NoConnectionLeaks
  BY DEF IInv, NoConnectionLeaks, OpenInv, Dialing
<1> QED
  BY <1>1, Invariance, PTL

\* No status goroutine, however late, tells a holder that it is shut down.
THEOREM NotShutDown == Spec => []HolderNotShutDown
<1>1. IInv => HolderNotShutDown
  BY DEF IInv, HolderNotShutDown, ConnectionStatus, CountInv, OpenInv, WatchInv, OwnInv, Open
<1> QED
  BY <1>1, Invariance, PTL

\* A managed connection always has a status goroutine that looks at it again.
THEOREM EntryHasWatcher == Spec => []EntryIsWatched
<1>1. IInv => EntryIsWatched
  BY DEF IInv, EntryIsWatched, OwnInv, WatchInv
<1> QED
  BY <1>1, Invariance, PTL
=============================================================================
