------------------------------- MODULE Handler -------------------------------
(***************************************************************************)
(* The connection pool of rzgate: Handler in src/src/handler/handler.rs,   *)
(* on top of the connections and calls of module Connection.               *)
(*                                                                         *)
(* Handler adds to them the slots and the round-robin cursor; the two      *)
(* locks, the Mutex around the cursor and the RwLock around the slots; the *)
(* scan of next_connection, one probe at a time; and the two tasks that    *)
(* run reconnect_closed, the one spawned by Handler::new and the one of    *)
(* maintain_connections.  Every step is a step of Connection or leaves its *)
(* state alone (property Spec of that module).                             *)
(*                                                                         *)
(* The locks have no variables: who holds the cursor, who reads and who    *)
(* writes the slots follows from where the calls and the tasks are.  The   *)
(* order in which tokio grants a lock is left open.                        *)
(***************************************************************************)
EXTENDS Connection

CONSTANTS
  ConnPerNode,  \* number of slots: conn_per_node
  MayRefuse     \* may a connect fail at any time?

ASSUME PoolAssumption == ConnPerNode \in Nat \ {0} /\ MayRefuse \in BOOLEAN

Slot == 0 .. ConnPerNode - 1
Task == {"initial", "maintain"}

VARIABLES
  slots,    \* Slot -> the connection in it, or None
  cursor,   \* next_conn: the slot to probe next
  scan,     \* Req  -> "out", "cursor" (has the Mutex), "probe" (and the read lock)
  left,     \* Req  -> probes left in the scan
  task,     \* Task -> "timer", "lock", "walk", "dial", "done"
  at,       \* Task -> the slot reconnect_closed has reached
  shutdown  \* the cancellation token

poolVars == <<slots, cursor, scan, left, task, at, shutdown>>
allVars == <<vars, poolVars>>

PoolTyped ==
  /\ slots \in [Slot -> Conn \cup {None}]
  /\ cursor \in Slot
  /\ scan \in [Req -> {"out", "cursor", "probe"}]
  /\ left \in [Req -> 0 .. ConnPerNode]
  /\ task \in [Task -> {"timer", "lock", "walk", "dial", "done"}]
  /\ at \in [Task -> 0 .. ConnPerNode]
  /\ shutdown \in BOOLEAN

-----------------------------------------------------------------------------
(* Locks                                                                   *)

CursorFree == \A r \in Req : scan[r] = "out"
NoReader == \A r \in Req : scan[r] # "probe"
NoWriter == \A t \in Task : task[t] \notin {"walk", "dial"}

\* Variants: the cursor is not locked, the slots are not locked for writing.
CursorUnlocked == TRUE
WriterIgnored == TRUE

MayLockCursor == CursorFree
MayRead == NoWriter
MayWrite == NoReader /\ NoWriter

\* A connection that reconnect_closed replaces: none, or one that is closed.
ShouldConnectEmpty(c) == c = None
ShouldConnect(c) == c = None \/ closed[c]

-----------------------------------------------------------------------------
HandlerInit ==
  /\ Init
  /\ slots = [i \in Slot |-> None]
  /\ cursor = 0
  /\ scan = [r \in Req |-> "out"]
  /\ left = [r \in Req |-> 0]
  /\ task = [t \in Task |-> IF t = "initial" THEN "lock" ELSE "timer"]
  /\ at = [t \in Task |-> 0]
  /\ shutdown = FALSE

-----------------------------------------------------------------------------
(* next_connection                                                         *)

\* next_conn.lock().
LockCursor(r) ==
  /\ pc[r] = "pick"
  /\ scan[r] = "out"
  /\ MayLockCursor
  /\ scan' = [scan EXCEPT ![r] = "cursor"]
  /\ UNCHANGED <<vars, slots, cursor, left, task, at, shutdown>>

\* connections.read(): waits, with the cursor locked, while slots are renewed.
LockSlots(r) ==
  /\ scan[r] = "cursor"
  /\ MayRead
  /\ scan' = [scan EXCEPT ![r] = "probe"]
  /\ left' = [left EXCEPT ![r] = ConnPerNode]
  /\ UNCHANGED <<vars, slots, cursor, task, at, shutdown>>

\* Variants: a return that keeps the locks, a cursor without the modulo.
UnlockNot(r) == UNCHANGED scan
AdvanceUnbounded == cursor' = cursor + 1

\* Both locks are released when next_connection returns.
Unlock(r) == scan' = [scan EXCEPT ![r] = "out"]

Advance == cursor' = (cursor + 1) % ConnPerNode

(* One round of the loop, on the slot at the cursor: an open connection is  *)
(* returned, an empty slot or a closed connection passed over.              *)
ProbeHit(r) ==
  /\ scan[r] = "probe"
  /\ left[r] > 0
  /\ slots[cursor] # None
  /\ Pick(r, slots[cursor])
  /\ Advance
  /\ Unlock(r)
  /\ UNCHANGED <<slots, left, task, at, shutdown>>

ProbeMiss(r) ==
  /\ scan[r] = "probe"
  /\ left[r] > 0
  /\ slots[cursor] # None => closed[slots[cursor]]
  /\ left' = [left EXCEPT ![r] = @ - 1]
  /\ Advance
  /\ UNCHANGED <<vars, slots, scan, task, at, shutdown>>

\* The loop is over: None, one more failed attempt.
ScanFails(r) ==
  /\ scan[r] = "probe"
  /\ left[r] = 0
  /\ FailAttempt(r, "unreachable")
  /\ Unlock(r)
  /\ UNCHANGED <<linkVars, conn, id, got, written, slots, cursor, left, task, at, shutdown>>

(* A call is dropped where it awaits: waiting for a lock, but never inside  *)
(* the probes, which do not await.                                          *)
CancelCall(r) ==
  /\ scan[r] # "probe"
  /\ Cancel(r)
  /\ Unlock(r)
  /\ UNCHANGED <<slots, cursor, left, task, at, shutdown>>

-----------------------------------------------------------------------------
(* reconnect_closed and maintain_connections                                *)

\* The interval fires; the first tick is immediate.
Tick ==
  /\ task["maintain"] = "timer"
  /\ task' = [task EXCEPT !["maintain"] = "lock"]
  /\ UNCHANGED <<vars, slots, cursor, scan, left, at, shutdown>>

\* Ctrl+C: the task of main.rs cancels the token.
Shutdown ==
  /\ ~shutdown
  /\ shutdown' = TRUE
  /\ UNCHANGED <<vars, slots, cursor, scan, left, task, at>>

\* The select of maintain_connections sees the token between two rounds only.
StopMaintaining ==
  /\ task["maintain"] = "timer"
  /\ shutdown
  /\ task' = [task EXCEPT !["maintain"] = "done"]
  /\ UNCHANGED <<vars, slots, cursor, scan, left, at, shutdown>>

\* connections.write(): kept until every slot has been dealt with.
LockForRenewal(t) ==
  /\ task[t] = "lock"
  /\ MayWrite
  /\ task' = [task EXCEPT ![t] = "walk"]
  /\ at' = [at EXCEPT ![t] = 0]
  /\ UNCHANGED <<vars, slots, cursor, scan, left, shutdown>>

\* The slot at hand: dial if it is empty or its connection closed.
Inspect(t) ==
  /\ task[t] = "walk"
  /\ at[t] < ConnPerNode
  /\ IF ShouldConnect(slots[at[t]])
     THEN task' = [task EXCEPT ![t] = "dial"] /\ UNCHANGED at
     ELSE at' = [at EXCEPT ![t] = @ + 1] /\ UNCHANGED task
  /\ UNCHANGED <<vars, slots, cursor, scan, left, shutdown>>

NextSlot(t) ==
  /\ task' = [task EXCEPT ![t] = "walk"]
  /\ at' = [at EXCEPT ![t] = @ + 1]

(* Connection::connect returns, with a new connection that takes the slot,  *)
(* or with an error that leaves the slot as it was.  Conn bounds how many   *)
(* connections are ever made: when all are used, a connect fails.           *)
DialSucceeds(t) ==
  \E c \in Conn :
    /\ task[t] = "dial"
    /\ Connect(c)
    /\ slots' = [slots EXCEPT ![at[t]] = c]
    /\ NextSlot(t)
    /\ UNCHANGED <<cursor, scan, left, shutdown>>

DialFails(t) ==
  /\ task[t] = "dial"
  /\ MayRefuse \/ \A c \in Conn : peer[c] # "none"
  /\ NextSlot(t)
  /\ UNCHANGED <<vars, slots, cursor, scan, left, shutdown>>

\* The walk is over and the lock released.
EndRenewal(t) ==
  /\ task[t] = "walk"
  /\ at[t] = ConnPerNode
  /\ task' = [task EXCEPT ![t] = IF t = "initial" THEN "done" ELSE "timer"]
  /\ UNCHANGED <<vars, slots, cursor, scan, left, at, shutdown>>

-----------------------------------------------------------------------------
Scan(r) == LockCursor(r) \/ LockSlots(r) \/ ProbeHit(r) \/ ProbeMiss(r) \/ ScanFails(r)

Dial(t) == DialSucceeds(t) \/ DialFails(t)

Renew(t) == LockForRenewal(t) \/ Inspect(t) \/ Dial(t) \/ EndRenewal(t)

\* Steps of Connection that do not involve the pool.
Beside ==
  /\ \/ \E r \in Req : Call(r) \/ Proceed(r)
     \/ \E c \in Conn : WriteLoop(c) \/ ReadLoop(c) \/ KeepaliveLoop(c) \/ Environment(c)
  /\ UNCHANGED poolVars

HandlerNext ==
  \/ Beside
  \/ \E r \in Req : Scan(r) \/ CancelCall(r)
  \/ \E t \in Task : Renew(t)
  \/ Tick \/ Shutdown \/ StopMaintaining

HandlerSpec == HandlerInit /\ [][HandlerNext]_allVars

(* Tokio's Mutex and RwLock are fair queues, so a waiter that finds its     *)
(* lock free again and again gets it; a connect returns (the kernel gives   *)
(* up on one that gets no answer); the interval keeps ticking.              *)
PoolFairness ==
  /\ \A r \in Req : /\ SF_allVars(LockCursor(r))
                    /\ SF_allVars(LockSlots(r))
                    /\ WF_allVars(ProbeHit(r) \/ ProbeMiss(r) \/ ScanFails(r))
  /\ \A t \in Task : /\ SF_allVars(LockForRenewal(t))
                     /\ WF_allVars(Inspect(t) \/ Dial(t) \/ EndRenewal(t))
  /\ WF_allVars(Tick \/ StopMaintaining)

PoolSpec == HandlerSpec /\ PoolFairness

\* The fairness of module Connection, for the steps beside the pool.
BesideFairness ==
  /\ \A r \in Req : /\ WF_allVars(Proceed(r) /\ UNCHANGED poolVars)
                    /\ SF_allVars(Send(r) /\ UNCHANGED poolVars)
  /\ \A c \in Conn : /\ WF_allVars(WriteLoop(c) /\ UNCHANGED poolVars)
                     /\ WF_allVars(ReadLoop(c) /\ UNCHANGED poolVars)
                     /\ WF_allVars(KeepaliveTick(c) /\ UNCHANGED poolVars)
                     /\ SF_allVars(KeepaliveSend(c) /\ UNCHANGED poolVars)
                     /\ WF_allVars(ServerReply(c) /\ UNCHANGED poolVars)

HandlerFairSpec == PoolSpec /\ BesideFairness

-----------------------------------------------------------------------------
(* Properties                                                              *)

(* An open connection is never lost from the pool: the check of a slot and  *)
(* the store of the new connection are separated by the await of the        *)
(* connect, and two tasks run them.                                         *)
OpenInPool == \A c \in Conn : Open(c) => \E i \in Slot : slots[i] = c

(* A call is not kept in next_connection for ever: not by the other calls   *)
(* that hold the cursor, nor by a renewal that holds the slots.             *)
PickEnds == \A r \in Req : (pc[r] = "pick") ~> (pc[r] # "pick")

Broken(i) == slots[i] # None /\ closed[slots[i]]
NoneFresh == \A c \in Conn : peer[c] # "none"

(* A connection that closed is replaced, until rzgate shuts down or the     *)
(* bound on connections is reached.                                         *)
SlotsRecover == \A i \in Slot : Broken(i) ~> (~Broken(i) \/ NoneFresh \/ shutdown)

\* The tasks of a connection hold the halves of its socket while they run.
SocketHeld(c) == reader[c] = "run" \/ writer[c] = "run"

(* README.md says of --conn-per-node: "TCP connections per node".  There    *)
(* may be more for a moment, while one is replaced, but not for ever.       *)
SocketsSettle == []<>(Cardinality({c \in Conn : SocketHeld(c)}) <= ConnPerNode)
=============================================================================
