-------------------------- MODULE ConnectionManager --------------------------
(***************************************************************************)
(* The shared gRPC connection of plugins/core/reporter/conn_manager.go.    *)
(* The reporter, the CDS manager and the pprof manager get the connection  *)
(* to the backend from one ConnectionManager, which dials it once, counts  *)
(* the references and starts a goroutine that keeps its status.            *)
(*                                                                         *)
(* One server address is modelled: the slots of the map do not touch each  *)
(* other.  A ManagedConnection is named by its connection, and a status    *)
(* goroutine by the connection whose publication started it.  Every        *)
(* critical section of cm.mu is one step; dialling, ClientConn.GetState    *)
(* and the poll interval lie between the steps.                            *)
(***************************************************************************)
EXTENDS Integers, FiniteSets

CONSTANTS Client,    \* the callers of GetConnection
          Conn,      \* the connections that may be dialled
          NoConn     \* no entry in the map, no connection

ASSUME ConnAssumption == IsFiniteSet(Client) /\ NoConn \notin Conn

VARIABLES
  client,     \* where each caller is in GetConnection
  held,       \* the connection it dialled or was given
  entry,      \* cm.connManager[serverAddr]
  refCount,   \* ManagedConnection.refCount
  status,     \* ManagedConnection.status
  channel,    \* state of the ClientConn: ok is Idle, Connecting or Ready
  watcher,    \* where each checkConnectionStatus goroutine is
  managed,    \* its local "managed"
  newStatus   \* its local "newStatus"

clientVars  == <<client, held>>
entryVars   == <<entry, refCount>>
watcherVars == <<watcher, managed, newStatus>>
vars == <<clientVars, entryVars, status, channel, watcherVars>>

Status == {"connected", "disconnect", "shutdown"}
Open   == {"ok", "failing"}

TypeOK ==
  /\ client \in [Client -> {"idle", "missed", "dialed", "holding"}]
  /\ held \in [Client -> Conn \cup {NoConn}]
  /\ entry \in Conn \cup {NoConn}
  /\ refCount \in [Conn -> Nat]
  /\ status \in [Conn -> Status]
  /\ channel \in [Conn -> Open \cup {"undialed", "closed"}]
  /\ watcher \in [Conn -> {"none", "top", "read", "seen", "exited"}]
  /\ managed \in [Conn -> Conn \cup {NoConn}]
  /\ newStatus \in [Conn -> Status]

Init ==
  /\ client = [k \in Client |-> "idle"]
  /\ held = [k \in Client |-> NoConn]
  /\ entry = NoConn
  /\ refCount = [c \in Conn |-> 0]
  /\ status = [c \in Conn |-> "connected"]
  /\ channel = [c \in Conn |-> "undialed"]
  /\ watcher = [c \in Conn |-> "none"]
  /\ managed = [c \in Conn |-> NoConn]
  /\ newStatus = [c \in Conn |-> "connected"]
-----------------------------------------------------------------------------
(* GetConnection *)

\* Mutant of Acquire: an existing connection is shared without being counted.
AcquireUncounted(k) ==
  /\ client' = [client EXCEPT ![k] = "holding"]
  /\ held' = [held EXCEPT ![k] = entry]
  /\ UNCHANGED <<entryVars, status, watcherVars>>

\* The caller gets the managed connection and counts as one more reference.
Acquire(k) ==
  /\ client' = [client EXCEPT ![k] = "holding"]
  /\ held' = [held EXCEPT ![k] = entry]
  /\ refCount' = [refCount EXCEPT ![entry] = @ + 1]
  /\ UNCHANGED <<entry, status, watcherVars>>

\* First critical section: the entry exists, or ...
GetHit(k) ==
  /\ client[k] = "idle"
  /\ entry # NoConn
  /\ Acquire(k)
  /\ UNCHANGED channel

\* ... the caller leaves the lock to dial.
GetMiss(k) ==
  /\ client[k] = "idle"
  /\ entry = NoConn
  /\ client' = [client EXCEPT ![k] = "missed"]
  /\ UNCHANGED <<held, entryVars, status, channel, watcherVars>>

Dial(k, c) ==
  /\ client[k] = "missed"
  /\ channel[c] = "undialed"
  /\ client' = [client EXCEPT ![k] = "dialed"]
  /\ held' = [held EXCEPT ![k] = c]
  /\ channel' = [channel EXCEPT ![c] = "ok"]
  /\ UNCHANGED <<entryVars, status, watcherVars>>

DialFails(k) ==
  /\ client[k] = "missed"
  /\ client' = [client EXCEPT ![k] = "idle"]
  /\ UNCHANGED <<held, entryVars, status, channel, watcherVars>>

\* Mutant of Publish: a status goroutine is started only if none is running.
PublishReusingWatcher(k) ==
  /\ client[k] = "dialed"
  /\ entry = NoConn
  /\ client' = [client EXCEPT ![k] = "holding"]
  /\ entry' = held[k]
  /\ refCount' = [refCount EXCEPT ![held[k]] = 1]
  /\ status' = [status EXCEPT ![held[k]] = "connected"]
  /\ watcher' = IF \A w \in Conn : watcher[w] \in {"none", "exited"}
                THEN [watcher EXCEPT ![held[k]] = "top"] ELSE watcher
  /\ UNCHANGED <<held, channel, managed, newStatus>>

\* Second critical section: nobody else published, or ...
Publish(k) ==
  /\ client[k] = "dialed"
  /\ entry = NoConn
  /\ client' = [client EXCEPT ![k] = "holding"]
  /\ entry' = held[k]
  /\ refCount' = [refCount EXCEPT ![held[k]] = 1]
  /\ status' = [status EXCEPT ![held[k]] = "connected"]
  /\ watcher' = [watcher EXCEPT ![held[k]] = "top"]
  /\ UNCHANGED <<held, channel, managed, newStatus>>

\* Mutant of Yield: the connection that lost the race stays open.
YieldOpen(k) ==
  /\ client[k] = "dialed"
  /\ entry # NoConn
  /\ Acquire(k)
  /\ UNCHANGED channel

\* ... somebody did: share that one and close the connection just dialled
\* (after the unlock, but nobody else has it).
Yield(k) ==
  /\ client[k] = "dialed"
  /\ entry # NoConn
  /\ Acquire(k)
  /\ channel' = [channel EXCEPT ![held[k]] = "closed"]
-----------------------------------------------------------------------------
(* ReleaseConnection; every holder calls it at most once *)

\* managed.refCount-- on whatever entry the map has now
Drop == refCount' = [refCount EXCEPT ![entry] = @ - 1]

Release(k) ==
  /\ client[k] = "holding"
  /\ client' = [client EXCEPT ![k] = "idle"]
  /\ held' = [held EXCEPT ![k] = NoConn]
  /\ \/ /\ entry = NoConn
        /\ UNCHANGED <<entryVars, channel>>
     \/ /\ entry # NoConn
        /\ Drop
        /\ IF refCount'[entry] <= 0
           THEN entry' = NoConn /\ channel' = [channel EXCEPT ![entry] = "closed"]
           ELSE UNCHANGED <<entry, channel>>
  /\ UNCHANGED <<status, watcherVars>>
-----------------------------------------------------------------------------
(* checkConnectionStatus *)

\* Mutant of WatchRead: without an entry the goroutine waits for the next one.
WatchReadForever(w) ==
  /\ watcher[w] = "top"
  /\ entry # NoConn
  /\ watcher' = [watcher EXCEPT ![w] = "read"]
  /\ managed' = [managed EXCEPT ![w] = entry]
  /\ UNCHANGED <<clientVars, entryVars, status, channel, newStatus>>

\* Look the address up again; the goroutine ends when there is no entry.
WatchRead(w) ==
  /\ watcher[w] = "top"
  /\ IF entry = NoConn
     THEN watcher' = [watcher EXCEPT ![w] = "exited"] /\ UNCHANGED managed
     ELSE /\ watcher' = [watcher EXCEPT ![w] = "read"]
          /\ managed' = [managed EXCEPT ![w] = entry]
  /\ UNCHANGED <<clientVars, entryVars, status, channel, newStatus>>

\* Mutant of StatusOf: TransientFailure falls into the default case.
StatusOfDefault(c) == IF channel[c] = "closed" THEN "shutdown" ELSE "connected"

StatusOf(c) == CASE channel[c] = "failing" -> "disconnect"
                 [] channel[c] = "closed"  -> "shutdown"
                 [] OTHER                  -> "connected"

\* conn.GetState(), outside the lock
WatchState(w) ==
  /\ watcher[w] = "read"
  /\ watcher' = [watcher EXCEPT ![w] = "seen"]
  /\ newStatus' = [newStatus EXCEPT ![w] = StatusOf(managed[w])]
  /\ UNCHANGED <<clientVars, entryVars, status, channel, managed>>

\* Mutant of WatchWrite: checks that there is an entry, not that it is the same.
WatchWriteAny(w) ==
  /\ watcher[w] = "seen"
  /\ IF entry = NoConn
     THEN watcher' = [watcher EXCEPT ![w] = "exited"] /\ UNCHANGED status
     ELSE /\ status' = [status EXCEPT ![entry] = newStatus[w]]
          /\ watcher' = [watcher EXCEPT ![w] = "top"]
  /\ UNCHANGED <<clientVars, entryVars, channel, managed, newStatus>>

\* Store it, unless the entry has gone or been replaced meanwhile.
WatchWrite(w) ==
  /\ watcher[w] = "seen"
  /\ IF entry # managed[w]
     THEN watcher' = [watcher EXCEPT ![w] = "exited"] /\ UNCHANGED status
     ELSE /\ status' = [status EXCEPT ![entry] = newStatus[w]]
          /\ watcher' = [watcher EXCEPT ![w] = "top"]
  /\ UNCHANGED <<clientVars, entryVars, channel, managed, newStatus>>

Watch(w) == WatchRead(w) \/ WatchState(w) \/ WatchWrite(w)

\* GetConnectionStatus: what a pipeline loop is told.  Its write of Shutdown is
\* no step of its own: a connection is closed with its entry still in the map
\* nowhere but inside ReleaseConnection's critical section.
ConnectionStatus ==
  IF entry = NoConn \/ channel[entry] = "closed" THEN "shutdown" ELSE status[entry]

\* The transport goes down and comes back (gRPC).
TransportChanges(c) ==
  /\ channel[c] \in Open
  /\ channel' = [channel EXCEPT ![c] = IF @ = "ok" THEN "failing" ELSE "ok"]
  /\ UNCHANGED <<clientVars, entryVars, status, watcherVars>>

Get(k) == GetHit(k) \/ GetMiss(k) \/ DialFails(k) \/ Publish(k) \/ Yield(k)
          \/ \E c \in Conn : Dial(k, c)

Next ==
  \/ \E k \in Client : Get(k) \/ Release(k)
  \/ \E c \in Conn : Watch(c) \/ TransportChanges(c)

Spec == Init /\ [][Next]_vars

\* The status goroutines keep polling; nobody is made to get or to release.
FairSpec == Spec /\ \A w \in Conn : WF_vars(Watch(w))
-----------------------------------------------------------------------------
(* Properties *)

Holders == {k \in Client : client[k] = "holding"}

\* While somebody holds a reference the entry is there, is the connection all
\* holders were given, is counted right and is not closed under them
\* (TestConcurrentGetRelease, conn_manager.go GetConnection/ReleaseConnection).
HeldIsOpen ==
  /\ \A k \in Holders : held[k] = entry /\ entry # NoConn /\ channel[entry] \in Open
  /\ entry # NoConn => refCount[entry] = Cardinality(Holders) /\ Holders # {}

\* Whoever loses the race to publish closes its own connection, and the last
\* release closes the shared one: no ClientConn is left open without an owner.
NoConnectionLeaks ==
  \A c \in Conn : channel[c] \in Open =>
    c = entry \/ \E k \in Client : client[k] = "dialed" /\ held[k] = c

\* A holder is never told Shutdown, on which the pipeline loops would end for
\* good: a goroutine that saw an older connection closed does not write that
\* into the entry that replaced it.
HolderNotShutDown == Holders # {} => ConnectionStatus # "shutdown"

\* The entry always has a goroutine of its own that refreshes its status.
EntryIsWatched == entry # NoConn => watcher[entry] \in {"top", "read", "seen"}

\* A goroutine started for an entry that has gone or been replaced "no longer
\* owns the map slot" (conn_manager.go:503): it watches no other entry.
WatchesOwnEntry == \A w \in Conn : managed[w] \in {w, NoConn}

\* A transport that stays down is reported as such in the end.
OutageIsNoticed ==
  \A c \in Conn :
    (entry = c /\ channel[c] = "failing")
      ~> (status[c] = "disconnect" \/ channel[c] # "failing" \/ entry # c)

\* Once the last reference is gone for good, so are the status goroutines.
WatchersEnd ==
  entry = NoConn ~>
    (entry # NoConn \/ \A w \in Conn : watcher[w] \in {"none", "exited"})
=============================================================================
