---------------------------- MODULE HandlerProofs ----------------------------
(***************************************************************************)
(* Proofs about module Handler, for pools of any size: no open connection  *)
(* is lost from the slots, and whatever the pool does is a step of module  *)
(* Connection, so that what is proved of calls and connections holds of    *)
(* calls that go through the pool.                                         *)
(***************************************************************************)
EXTENDS Handler, ConnectionRpcProofs

-----------------------------------------------------------------------------
(* The inductive invariant                                                  *)

\* How far the cursor has to go to get to a slot.
Ahead(i) == IF i >= cursor THEN i - cursor ELSE i - cursor + ConnPerNode

Writing(t) == task[t] \in {"walk", "dial"}

\* The Mutex: one call scans, and it is about to get its connection.
ScansAlone ==
  /\ \A r, s \in Req : scan[r] # "out" /\ scan[s] # "out" => r = s
  /\ \A r \in Req : scan[r] # "out" => pc[r] = "pick"

\* The RwLock: one writer, or readers.
WritesAlone ==
  /\ NoReader \/ NoWriter
  /\ \A t, u \in Task : Writing(t) /\ Writing(u) => t = u

\* While a task dials, the slot keeps waiting for its connection.
DialsForSlot ==
  \A t \in Task : task[t] = "dial" => at[t] \in Slot /\ ShouldConnect(slots[at[t]])

\* A scan has found nothing in the slots it has passed.
PassedUnusable ==
  \A r \in Req : scan[r] = "probe" =>
    \A i \in Slot : Ahead(i) >= left[r] => ShouldConnect(slots[i])

PoolInv == /\ TInv /\ PoolTyped /\ ScansAlone /\ WritesAlone /\ DialsForSlot
           /\ PassedUnusable /\ OpenInPool

USE PoolAssumption, NoneAssumption DEF Task

LEMMA PoolInvInit == HandlerInit => PoolInv
<1> SUFFICES ASSUME HandlerInit PROVE PoolInv
  OBVIOUS
<1>1. TInv
  BY TInvInit DEF HandlerInit
<1>2. PoolTyped
  <2>1. 0 \in Slot /\ 0 \in 0 .. ConnPerNode
    BY DEF Slot
  <2>2. task \in [Task -> {"timer", "lock", "walk", "dial", "done"}]
    BY DEF HandlerInit
  <2> QED
    BY <2>1, <2>2 DEF HandlerInit, PoolTyped
<1>3. ScansAlone /\ WritesAlone /\ DialsForSlot /\ PassedUnusable
  BY DEF HandlerInit, ScansAlone, WritesAlone, Writing, NoReader, NoWriter, DialsForSlot, PassedUnusable
<1>4. OpenInPool
  BY DEF HandlerInit, Init, OpenInPool, Open
<1> QED
  BY <1>1, <1>2, <1>3, <1>4 DEF PoolInv

-----------------------------------------------------------------------------
(* What the steps do                                                        *)

\* The cursor takes one step around the slots.
LEMMA AdvanceAhead ==
  ASSUME cursor \in Slot, Advance
  PROVE  /\ cursor' \in Slot
         /\ \A i \in Slot : i # cursor => Ahead(i)' = Ahead(i) - 1
         /\ Ahead(cursor) = 0
         /\ \A i \in Slot : Ahead(i) \in Slot
<1>1. cursor' = IF cursor + 1 = ConnPerNode THEN 0 ELSE cursor + 1
  BY DEF Advance, Slot
<1> QED
  BY <1>1 DEF Slot, Ahead

\* A closed connection stays closed, and none opens but by a connect.
LEMMA ClosedStays ==
  ASSUME TInv, [Next]_vars
  PROVE  /\ \A c \in Conn : closed[c] => closed'[c]
         /\ \A c \in Conn : Open(c)' => Open(c) \/ Connect(c)
<1> USE DEF TInv, TypeOK, LinksTyped
<1>0. closed \in [Conn -> BOOLEAN] /\ peer \in [Conn -> {"none", "up", "gone"}]
  OBVIOUS
<1>1. ASSUME NEW r \in Req, Call(r) \/ Choose(r) \/ Proceed(r) \/ Cancel(r)
      PROVE  UNCHANGED <<closed, peer>>
  BY <1>1 DEF Call, Choose, NoConnection, Pick, Proceed, LateClosed, TakeId, Store, Send,
              RecvReply, RecvError, Wake, Cancel, linkVars
<1>2. ASSUME NEW d \in Conn, WriteLoop(d) \/ ReadLoop(d)
      PROVE  UNCHANGED peer /\ \A c \in Conn : closed[c] => closed'[c]
  BY <1>0, <1>2 DEF WriteLoop, WriteFrame, WriteFail, ReadLoop, Dispatch, RejectFrame, ReadEof
<1>3. ASSUME NEW d \in Conn, KeepaliveLoop(d) \/ Environment(d)
      PROVE  UNCHANGED closed /\ \A c \in Conn : peer'[c] # "none" => peer[c] # "none"
  BY <1>0, <1>3 DEF KeepaliveLoop, KeepaliveTick, KeepaliveSend, Environment, ServerReply,
              ServerGarbage, PeerClose
<1>4. ASSUME NEW d \in Conn, Connect(d)
      PROVE  UNCHANGED closed /\ \A c \in Conn \ {d} : peer'[c] = peer[c]
  BY <1>0, <1>4 DEF Connect
<1>5. CASE UNCHANGED vars
  BY <1>5 DEF vars, linkVars, Open
<1>6. CASE \E r \in Req : Call(r) \/ Choose(r) \/ Proceed(r) \/ Cancel(r)
  <2>1. closed' = closed /\ peer' = peer
    BY <1>1, <1>6
  <2> QED
    BY <2>1 DEF Open
<1>7. CASE \E d \in Conn : WriteLoop(d) \/ ReadLoop(d)
  BY <1>2, <1>7 DEF Open
<1>8. CASE \E d \in Conn : KeepaliveLoop(d) \/ Environment(d)
  BY <1>3, <1>8 DEF Open
<1>9. CASE \E d \in Conn : Connect(d)
  BY <1>4, <1>9 DEF Open
<1> QED
  BY <1>5, <1>6, <1>7, <1>8, <1>9 DEF Next, Open

\* Steps beside the pool leave a call in next_connection where it is.
LEMMA BesideSteps ==
  ASSUME TInv, Beside
  PROVE  /\ [Next]_vars
         /\ \A c \in Conn : ~Connect(c)
         /\ \A r \in Req : pc[r] = "pick" => pc'[r] = "pick"
<1> USE DEF TInv, TypeOK, LinksTyped, CallsTyped
<1>1. [Next]_vars
  BY DEF Beside, Next
<1>2. ASSUME NEW r \in Req, Call(r) \/ Proceed(r)
      PROVE  /\ UNCHANGED peer
             /\ \A s \in Req : pc[s] = "pick" => pc'[s] = "pick"
  BY <1>2 DEF Call, Proceed, LateClosed, TakeId, Store, Send, RecvReply, RecvError, Wake,
              FailAttempt, linkVars
<1>3. ASSUME NEW d \in Conn, WriteLoop(d) \/ ReadLoop(d) \/ KeepaliveLoop(d) \/ Environment(d)
      PROVE  /\ UNCHANGED pc
             /\ UNCHANGED peer \/ peer' = [peer EXCEPT ![d] = "gone"]
  BY <1>3 DEF WriteLoop, WriteFrame, WriteFail, ReadLoop, Dispatch, RejectFrame, ReadEof,
              KeepaliveLoop, KeepaliveTick, KeepaliveSend, Environment, ServerReply,
              ServerGarbage, PeerClose, callVars
<1>4. \A c \in Conn : ~Connect(c)
  BY <1>2, <1>3 DEF Beside, Connect
<1> QED
  BY <1>1, <1>2, <1>3, <1>4 DEF Beside

\* When a scan is over without success there is no open connection.
LEMMA NothingPassed ==
  ASSUME PoolInv, NEW r \in Req, scan[r] = "probe", left[r] = 0
  PROVE  \A c \in Conn : ~Open(c)
<1>1. \A i \in Slot : Ahead(i) >= 0
  BY DEF PoolInv, PoolTyped, Ahead, Slot
<1>2. \A i \in Slot : slots[i] = None \/ closed[slots[i]]
  BY <1>1 DEF PoolInv, PassedUnusable, ShouldConnect
<1> QED
  BY <1>2 DEF PoolInv, OpenInPool, Open

\* Every step of the pool is one of the connections, or leaves them alone.
LEMMA PoolStep == ASSUME PoolInv, [HandlerNext]_allVars PROVE [Next]_vars
<1> USE DEF PoolInv
<1>1. CASE Beside
  BY <1>1, BesideSteps
<1>2. ASSUME NEW r \in Req, LockCursor(r) \/ LockSlots(r) \/ ProbeMiss(r) PROVE [Next]_vars
  BY <1>2 DEF LockCursor, LockSlots, ProbeMiss
<1>3. ASSUME NEW r \in Req, ProbeHit(r) PROVE [Next]_vars
  <2>1. cursor \in Slot /\ slots[cursor] \in Conn
    BY <1>3 DEF PoolTyped, ProbeHit
  <2>2. \E c \in Conn : Pick(r, c)
    BY <1>3, <2>1 DEF ProbeHit
  <2> QED
    BY <2>2 DEF Next, Choose
<1>4. ASSUME NEW r \in Req, ScanFails(r) PROVE [Next]_vars
  <2>1. pc[r] = "pick"
    BY <1>4 DEF ScanFails, ScansAlone
  <2>2. NoConnection(r)
    BY <1>4, <2>1, NothingPassed DEF ScanFails, NoConnection
  <2> QED
    BY <2>2 DEF Next, Choose
<1>5. ASSUME NEW r \in Req, CancelCall(r) PROVE [Next]_vars
  BY <1>5 DEF CancelCall, Next
<1>6. ASSUME NEW t \in Task, Renew(t) PROVE [Next]_vars
  BY <1>6 DEF Renew, LockForRenewal, Inspect, Dial, DialSucceeds, DialFails, EndRenewal, Next
<1>7. CASE Tick \/ Shutdown \/ StopMaintaining
  BY <1>7 DEF Tick, Shutdown, StopMaintaining
<1>8. CASE UNCHANGED allVars
  BY <1>8 DEF allVars
<1> QED
  BY <1>1, <1>2, <1>3, <1>4, <1>5, <1>6, <1>7, <1>8 DEF HandlerNext, Scan

-----------------------------------------------------------------------------
(* The invariant is kept                                                    *)

\* What of it depends on connections only through closed and peer: kept by any
\* step that leaves the pool alone and opens no connection.
LEMMA PoolAlone ==
  ASSUME PoolInv, [Next]_vars, UNCHANGED slots, \A c \in Conn : ~Connect(c)
  PROVE  /\ \A i \in Slot : ShouldConnect(slots[i]) => ShouldConnect(slots[i])'
         /\ OpenInPool'
<1>1. \A c \in Conn : (closed[c] => closed'[c]) /\ (Open(c)' => Open(c))
  BY ClosedStays DEF PoolInv
<1>2. \A i \in Slot : slots[i] \in Conn \cup {None}
  BY DEF PoolInv, PoolTyped
<1> QED
  BY <1>1, <1>2 DEF PoolInv, OpenInPool, ShouldConnect

\* What the invariant says of the locks and of the slots.
LocksInv == PoolTyped /\ ScansAlone /\ WritesAlone
SlotsInv == DialsForSlot /\ PassedUnusable /\ OpenInPool

LEMMA BesideKeeps == ASSUME PoolInv, Beside PROVE LocksInv' /\ SlotsInv'
<1>1. UNCHANGED poolVars
  BY DEF Beside
<1>2. [Next]_vars /\ (\A c \in Conn : ~Connect(c)) /\ \A r \in Req : pc[r] = "pick" => pc'[r] = "pick"
  BY BesideSteps DEF PoolInv
<1>3. OpenInPool' /\ \A i \in Slot : ShouldConnect(slots[i]) => ShouldConnect(slots[i])'
  BY <1>1, <1>2, PoolAlone DEF poolVars
<1>4. LocksInv'
  BY <1>1, <1>2 DEF PoolInv, LocksInv, PoolTyped, ScansAlone, WritesAlone, NoReader, NoWriter,
                    Writing, poolVars
<1>5. DialsForSlot' /\ PassedUnusable'
  BY <1>1, <1>3 DEF PoolInv, DialsForSlot, PassedUnusable, Ahead, poolVars
<1> QED
  BY <1>3, <1>4, <1>5 DEF SlotsInv

\* A step that leaves connections and slots alone keeps the pool as it is.
LEMMA StillOpen == ASSUME PoolInv, UNCHANGED <<vars, slots>> PROVE OpenInPool'
  BY DEF PoolInv, OpenInPool, Open, vars, linkVars

LEMMA ScanKeeps ==
  ASSUME PoolInv, NEW r \in Req, Scan(r) PROVE LocksInv' /\ SlotsInv'
<1> USE DEF PoolInv, PoolTyped
<1>1. CASE LockCursor(r)
  <2>1. OpenInPool'
    BY <1>1, StillOpen DEF LockCursor
  <2>2. LocksInv'
    BY <1>1 DEF LockCursor, MayLockCursor, CursorFree, LocksInv, ScansAlone, WritesAlone, NoReader,
                NoWriter, Writing, vars, callVars
  <2>3. DialsForSlot' /\ PassedUnusable'
    BY <1>1 DEF LockCursor, DialsForSlot, PassedUnusable, Ahead, ShouldConnect, vars, linkVars
  <2> QED
    BY <2>1, <2>2, <2>3 DEF SlotsInv
<1>2. CASE LockSlots(r)
  <2>1. OpenInPool'
    BY <1>2, StillOpen DEF LockSlots
  <2>2. LocksInv'
    BY <1>2 DEF LockSlots, MayRead, LocksInv, ScansAlone, WritesAlone, NoReader, NoWriter,
                Writing, vars, callVars
  <2>3. DialsForSlot'
    BY <1>2 DEF LockSlots, DialsForSlot, ShouldConnect, vars, linkVars
  <2>4. PassedUnusable'
    <3>1. \A s \in Req : scan'[s] = "probe" => s = r /\ left'[s] = ConnPerNode
      BY <1>2 DEF LockSlots, ScansAlone
    <3>2. \A i \in Slot : ~(Ahead(i)' >= ConnPerNode)
      BY <1>2 DEF LockSlots, Ahead, Slot
    <3> QED
      BY <3>1, <3>2 DEF PassedUnusable
  <2> QED
    BY <2>1, <2>2, <2>3, <2>4 DEF SlotsInv
<1>3. CASE ProbeHit(r)
  <2>1. cursor' \in Slot
    BY <1>3, AdvanceAhead DEF ProbeHit
  <2>2. UNCHANGED <<peer, closed, slots>> /\ \A s \in Req \ {r} : pc'[s] = pc[s]
    BY <1>3 DEF ProbeHit, Pick, linkVars
  <2>3. scan' = [scan EXCEPT ![r] = "out"] /\ UNCHANGED <<left, task, at, shutdown>>
    BY <1>3 DEF ProbeHit, Unlock
  <2>4. LocksInv'
    BY <2>1, <2>2, <2>3 DEF LocksInv, ScansAlone, WritesAlone, NoReader, NoWriter, Writing
  <2>5. \A s \in Req : scan'[s] # "probe"
    BY <1>3, <2>3 DEF ScansAlone, ProbeHit
  <2>6. SlotsInv'
    BY <2>2, <2>3, <2>5 DEF SlotsInv, DialsForSlot, PassedUnusable, ShouldConnect, OpenInPool, Open
  <2> QED
    BY <2>4, <2>6
<1>4. CASE ProbeMiss(r)
  <2>1. /\ cursor' \in Slot
        /\ \A i \in Slot : i # cursor => Ahead(i)' = Ahead(i) - 1
        /\ \A i \in Slot : Ahead(i) \in Slot
    BY <1>4, AdvanceAhead DEF ProbeMiss
  <2>2. OpenInPool'
    BY <1>4, StillOpen DEF ProbeMiss
  <2>3. left' = [left EXCEPT ![r] = left[r] - 1] /\ left[r] - 1 \in 0 .. ConnPerNode
    BY <1>4 DEF ProbeMiss
  <2>4. LocksInv'
    BY <1>4, <2>1, <2>3 DEF ProbeMiss, LocksInv, ScansAlone, WritesAlone, NoReader, NoWriter,
                            Writing, vars, callVars
  <2>5. DialsForSlot'
    BY <1>4 DEF ProbeMiss, DialsForSlot, ShouldConnect, vars, linkVars
  <2>6. PassedUnusable'
    <3>1. ASSUME NEW s \in Req, scan'[s] = "probe" PROVE s = r /\ left'[s] = left[r] - 1
      BY <1>4, <2>3, <3>1 DEF ProbeMiss, ScansAlone
    <3>2. ASSUME NEW i \in Slot, Ahead(i)' >= left[r] - 1 PROVE ShouldConnect(slots[i])
      <4>1. CASE i = cursor
        BY <1>4, <4>1 DEF ProbeMiss, ShouldConnect
      <4>2. CASE i # cursor
        <5>1. Ahead(i) >= left[r]
          BY <2>1, <3>2, <4>2 DEF Slot
        <5> QED
          BY <1>4, <5>1 DEF ProbeMiss, PassedUnusable
      <4> QED
        BY <4>1, <4>2
    <3>3. UNCHANGED <<slots, closed>>
      BY <1>4 DEF ProbeMiss, vars, linkVars
    <3> QED
      BY <3>1, <3>2, <3>3 DEF PassedUnusable, ShouldConnect
  <2> QED
    BY <2>2, <2>4, <2>5, <2>6 DEF SlotsInv
<1>5. CASE ScanFails(r)
  <2>1. UNCHANGED <<peer, closed, slots>> /\ \A s \in Req \ {r} : pc'[s] = pc[s]
    BY <1>5 DEF ScanFails, FailAttempt, linkVars
  <2>2. scan' = [scan EXCEPT ![r] = "out"] /\ UNCHANGED <<cursor, left, task, at, shutdown>>
    BY <1>5 DEF ScanFails, Unlock
  <2>3. LocksInv'
    BY <2>1, <2>2 DEF LocksInv, ScansAlone, WritesAlone, NoReader, NoWriter, Writing
  <2>4. \A s \in Req : scan'[s] # "probe"
    BY <1>5, <2>2 DEF ScansAlone, ScanFails
  <2>5. SlotsInv'
    BY <2>1, <2>2, <2>4 DEF SlotsInv, DialsForSlot, PassedUnusable, ShouldConnect, OpenInPool, Open
  <2> QED
    BY <2>3, <2>5
<1> QED
  BY <1>1, <1>2, <1>3, <1>4, <1>5 DEF Scan

LEMMA CancelKeeps ==
  ASSUME PoolInv, NEW r \in Req, CancelCall(r) PROVE LocksInv' /\ SlotsInv'
<1> USE DEF PoolInv, PoolTyped
<1>1. UNCHANGED <<peer, closed, slots>> /\ \A s \in Req \ {r} : pc'[s] = pc[s]
  BY DEF CancelCall, Cancel
<1>2. scan' = [scan EXCEPT ![r] = "out"] /\ UNCHANGED <<cursor, left, task, at, shutdown>>
  BY DEF CancelCall, Unlock
<1>3. LocksInv'
  BY <1>1, <1>2 DEF LocksInv, ScansAlone, WritesAlone, NoReader, NoWriter, Writing
<1>4. SlotsInv'
  BY <1>1, <1>2 DEF SlotsInv, DialsForSlot, PassedUnusable, ShouldConnect, OpenInPool, Open, Ahead
<1> QED
  BY <1>3, <1>4

\* Neither the timer nor the token touches a lock, a slot or a connection.
LEMMA TimerKeeps ==
  ASSUME PoolInv, Tick \/ Shutdown \/ StopMaintaining PROVE LocksInv' /\ SlotsInv'
<1> USE DEF PoolInv, PoolTyped
<1>1. UNCHANGED <<vars, slots, cursor, scan, left, at>>
  BY DEF Tick, Shutdown, StopMaintaining
<1>2. /\ task' \in [Task -> {"timer", "lock", "walk", "dial", "done"}]
      /\ shutdown' \in BOOLEAN
      /\ \A t \in Task : task'[t] \in {"walk", "dial"} => task'[t] = task[t]
  BY DEF Tick, Shutdown, StopMaintaining
<1>3. LocksInv'
  BY <1>1, <1>2 DEF LocksInv, ScansAlone, WritesAlone, NoReader, NoWriter, Writing, vars, callVars
<1>4. OpenInPool'
  BY <1>1, StillOpen
<1>5. DialsForSlot' /\ PassedUnusable'
  BY <1>1, <1>2 DEF DialsForSlot, PassedUnusable, ShouldConnect, Ahead, vars, linkVars
<1> QED
  BY <1>3, <1>4, <1>5 DEF SlotsInv

\* A renewal has the slots for itself: no scan is about to conclude anything.
LEMMA RenewKeeps ==
  ASSUME PoolInv, NEW t \in Task, Renew(t) PROVE LocksInv' /\ SlotsInv'
<1> USE DEF PoolInv, PoolTyped
<1>1. CASE LockForRenewal(t)
  <2>1. OpenInPool'
    BY <1>1, StillOpen DEF LockForRenewal
  <2>2. LocksInv'
    BY <1>1 DEF LockForRenewal, MayWrite, LocksInv, ScansAlone, WritesAlone, NoReader, NoWriter,
                Writing, vars, callVars
  <2>3. DialsForSlot' /\ PassedUnusable'
    BY <1>1 DEF LockForRenewal, DialsForSlot, PassedUnusable, Ahead, ShouldConnect, vars, linkVars
  <2> QED
    BY <2>1, <2>2, <2>3 DEF SlotsInv
<1>2. CASE Inspect(t)
  <2>1. OpenInPool'
    BY <1>2, StillOpen DEF Inspect
  <2>2. LocksInv'
    BY <1>2 DEF Inspect, LocksInv, ScansAlone, WritesAlone, NoReader, NoWriter, Writing, vars, callVars
  <2>3. DialsForSlot'
    BY <1>2 DEF Inspect, DialsForSlot, Slot, ShouldConnect, vars, linkVars
  <2>4. PassedUnusable'
    BY <1>2 DEF Inspect, PassedUnusable, Ahead, ShouldConnect, vars, linkVars
  <2> QED
    BY <2>1, <2>2, <2>3, <2>4 DEF SlotsInv
<1>3. ASSUME task[t] = "dial", NextSlot(t), UNCHANGED <<pc, scan, cursor, left, shutdown>>,
             slots' \in [Slot -> Conn \cup {None}]
      PROVE  LocksInv' /\ DialsForSlot' /\ PassedUnusable'
  <2>1. NoReader /\ \A u \in Task \ {t} : ~Writing(u)
    BY <1>3 DEF WritesAlone, NoWriter, Writing
  <2>2. at[t] + 1 \in 0 .. ConnPerNode
    BY <1>3 DEF DialsForSlot, Slot
  <2>3. task' = [task EXCEPT ![t] = "walk"] /\ at' = [at EXCEPT ![t] = at[t] + 1]
    BY <1>3 DEF NextSlot
  <2>4. LocksInv'
    BY <1>3, <2>1, <2>2, <2>3 DEF LocksInv, ScansAlone, WritesAlone, NoReader, NoWriter, Writing
  <2>5. DialsForSlot'
    BY <2>1, <2>3 DEF DialsForSlot, Writing
  <2>6. PassedUnusable'
    BY <1>3, <2>1 DEF PassedUnusable, NoReader
  <2> QED
    BY <2>4, <2>5, <2>6
<1>4. CASE DialSucceeds(t)
  <2>1. PICK c \in Conn : DialSucceeds(t)!(c)
    BY <1>4 DEF DialSucceeds
  <2>2. at[t] \in Slot /\ ShouldConnect(slots[at[t]])
    BY <2>1 DEF DialsForSlot
  <2>3. UNCHANGED closed /\ \A d \in Conn \ {c} : peer'[d] = peer[d]
    BY <2>1 DEF Connect, TInv, TypeOK, LinksTyped
  <2>4. OpenInPool'
    <3> SUFFICES ASSUME NEW d \in Conn, Open(d)' PROVE \E i \in Slot : slots'[i] = d
      BY DEF OpenInPool
    <3>1. CASE d = c
      BY <2>1, <2>2, <3>1
    <3>2. CASE d # c
      <4>1. Open(d)
        BY <2>3, <3>2 DEF Open
      <4>2. PICK i \in Slot : slots[i] = d
        BY <4>1 DEF OpenInPool
      <4>3. i # at[t]
        BY <2>2, <4>1, <4>2 DEF ShouldConnect, Open
      <4> QED
        BY <2>1, <4>2, <4>3
    <3> QED
      BY <3>1, <3>2
  <2>5. LocksInv' /\ DialsForSlot' /\ PassedUnusable'
    BY <1>3, <2>1 DEF Connect, callVars
  <2> QED
    BY <2>4, <2>5 DEF SlotsInv
<1>5. CASE DialFails(t)
  <2>1. OpenInPool'
    BY <1>5, StillOpen DEF DialFails
  <2>2. LocksInv' /\ DialsForSlot' /\ PassedUnusable'
    BY <1>3, <1>5 DEF DialFails, vars, callVars
  <2> QED
    BY <2>1, <2>2 DEF SlotsInv
<1>6. CASE EndRenewal(t)
  <2>1. OpenInPool'
    BY <1>6, StillOpen DEF EndRenewal
  <2>2. LocksInv'
    BY <1>6 DEF EndRenewal, LocksInv, ScansAlone, WritesAlone, NoReader, NoWriter, Writing, vars, callVars
  <2>3. DialsForSlot' /\ PassedUnusable'
    BY <1>6 DEF EndRenewal, DialsForSlot, PassedUnusable, Ahead, ShouldConnect, vars, linkVars
  <2> QED
    BY <2>1, <2>2, <2>3 DEF SlotsInv
<1> QED
  BY <1>1, <1>2, <1>4, <1>5, <1>6 DEF Renew, Dial

LEMMA PoolInvNext == ASSUME PoolInv, [HandlerNext]_allVars PROVE PoolInv'
<1>1. TInv'
  BY PoolStep, TInvNext DEF PoolInv
<1>2. LocksInv' /\ SlotsInv'
  <2>1. CASE UNCHANGED allVars
    BY <2>1 DEF allVars, vars, linkVars, callVars, poolVars, PoolInv, LocksInv, SlotsInv, PoolTyped,
                ScansAlone, WritesAlone, NoReader, NoWriter, Writing, DialsForSlot, PassedUnusable,
                Ahead, ShouldConnect, OpenInPool, Open
  <2> QED
    BY <2>1, BesideKeeps, ScanKeeps, CancelKeeps, TimerKeeps, RenewKeeps DEF HandlerNext
<1> QED
  BY <1>1, <1>2 DEF PoolInv, LocksInv, SlotsInv

-----------------------------------------------------------------------------
(* Theorems                                                                 *)

LEMMA PoolInvAlways == HandlerSpec => []PoolInv
<1>1. PoolInv /\ [HandlerNext]_allVars => PoolInv'
  BY PoolInvNext
<1> QED
  BY <1>1, PoolInvInit, PTL DEF HandlerSpec

(* The cursor stays within the slots, a slot holds a connection or none,    *)
(* and a renewal does not run past the last slot.                           *)
THEOREM PoolTypeCorrect == HandlerSpec => []PoolTyped
<1>1. PoolInv => PoolTyped
  BY DEF PoolInv
<1> QED
  BY <1>1, PoolInvAlways, PTL

(* No open connection drops out of the pool, although a slot is looked at   *)
(* before a connect is awaited and written after it, and two tasks do so.   *)
THEOREM OpenStaysInPool == HandlerSpec => []OpenInPool
<1>1. PoolInv => OpenInPool
  BY DEF PoolInv
<1> QED
  BY <1>1, PoolInvAlways, PTL

(* The pool does what module Connection leaves open: a call gets a          *)
(* connection that is open, and none only when there is none.               *)
THEOREM HandlerImplementsConnection == HandlerSpec => Spec
<1>1. HandlerInit => Init
  BY DEF HandlerInit
<1>2. PoolInv /\ [HandlerNext]_allVars => [Next]_vars
  BY PoolStep
<1> QED
  BY <1>1, <1>2, PoolInvAlways, PTL DEF HandlerSpec, Spec

(* So calls that go through the pool, its renewals and its cursor are       *)
(* at-most-once calls too: what module Gateway takes for its backend.       *)
THEOREM HandlerImplementsRpc == ASSUME ~MayWrap PROVE HandlerSpec => ImplementsRpc
  BY HandlerImplementsConnection, ConnectionImplementsRpc, PTL
=============================================================================
