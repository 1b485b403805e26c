-------------------------- MODULE ConnectionProofs --------------------------
(***************************************************************************)
(* Proofs about module Connection, for any number of connections and calls *)
(* and any behaviour of the server.                                        *)
(***************************************************************************)
EXTENDS Connection, SequenceTheorems, TLAPS

-----------------------------------------------------------------------------
(* Type correctness                                                        *)

\* A call that has picked a connection holds one, until it fails or ends.
Holding == {"got", "store", "send", "wait"}

CallsHeld ==
  \A r \in Req : /\ pc[r] \in Holding => conn[r] \in Conn
                 /\ pc[r] \in {"idle"} \cup InFlight => attempts[r] < MaxAttempts

TInv == TypeOK /\ CallsHeld

LEMMA TInvInit == Init => TInv
  BY IdSpaceAssumption, ChanCapAssumption
  DEF Init, TInv, TypeOK, LinksTyped, CallsTyped, CallsHeld, Ids, MaxAttempts, Holding, InFlight

USE NoneAssumption, IdSpaceAssumption, ChanCapAssumption

\* The frames the program and the server build are frames.
LEMMA FramesTyped ==
  /\ KeepaliveFrame \in Frame
  /\ GarbageFrame \in Frame
  /\ \A r \in Req, i \in Ids, n \in 0 .. MaxAttempts : [id |-> i, req |-> r, try |-> n] \in Frame
  BY DEF Frame, KeepaliveFrame, GarbageFrame, Ids, MaxAttempts

\* Appending to a channel that is not full keeps it a channel.
LEMMA AppendTyped ==
  ASSUME LinksTyped, NEW c \in Conn, NEW f \in Frame, ~Full(c)
  PROVE  /\ [sendq EXCEPT ![c] = Append(@, f)] \in [Conn -> Seq(Frame)]
         /\ \A d \in Conn : Len([sendq EXCEPT ![c] = Append(@, f)][d]) <= ChanCap
<1>1. sendq[c] \in Seq(Frame) /\ Len(sendq[c]) \in Nat /\ Len(sendq[c]) < ChanCap
  BY DEF LinksTyped, Full
<1>2. Append(sendq[c], f) \in Seq(Frame) /\ Len(Append(sendq[c], f)) = Len(sendq[c]) + 1
  BY <1>1
<1> QED
  BY <1>1, <1>2 DEF LinksTyped

\* A failed attempt keeps the state of the calls typed, whatever the verdict.
LEMMA FailTyped ==
  ASSUME TInv, NEW r \in Req, pc[r] \in InFlight, NEW verdict \in Final,
         FailAttempt(r, verdict), UNCHANGED <<conn, id, got, written>>
  PROVE  CallsTyped' /\ CallsHeld'
<1> USE DEF TInv, TypeOK, CallsTyped, CallsHeld, FailAttempt, LastAttempt, InFlight, Final,
            Holding, MaxAttempts
<1>1. attempts[r] \in 0 .. 2 /\ attempts' = [attempts EXCEPT ![r] = attempts[r] + 1]
  OBVIOUS
<1>2. attempts' \in [Req -> 0 .. 3]
  BY <1>1
<1>3. pc' \in [Req -> {"idle"} \cup InFlight \cup Final]
  OBVIOUS
<1>4. CallsHeld'
  BY <1>1
<1> QED
  BY <1>2, <1>3, <1>4

LEMMA TInvNext == TInv /\ [Next]_vars => TInv'
<1> SUFFICES ASSUME TInv, [Next]_vars PROVE TInv'
  OBVIOUS
<1> USE DEF TInv, TypeOK, LinksTyped, CallsTyped, CallsHeld, Holding, InFlight, Final, MaxAttempts
<1>1. ASSUME NEW r \in Req, Call(r) PROVE TInv'
  BY <1>1 DEF Call, linkVars
<1>2. ASSUME NEW r \in Req, NEW c \in Conn, Pick(r, c) PROVE TInv'
  BY <1>2 DEF Pick, linkVars
<1>3. ASSUME NEW r \in Req, NoConnection(r) PROVE TInv'
  <2>1. LinksTyped'
    BY <1>3 DEF NoConnection, linkVars
  <2>2. CallsTyped' /\ CallsHeld'
    BY <1>3, FailTyped DEF NoConnection
  <2> QED
    BY <2>1, <2>2
<1>4. ASSUME NEW r \in Req, LateClosed(r) PROVE TInv'
  <2>1. LinksTyped'
    BY <1>4 DEF LateClosed, linkVars
  <2>2. CallsTyped' /\ CallsHeld'
    BY <1>4, FailTyped DEF LateClosed
  <2> QED
    BY <2>1, <2>2
<1>5. ASSUME NEW r \in Req, TakeId(r) PROVE TInv'
  <2>1. conn[r] \in Conn /\ corr[conn[r]] \in Ids /\ NextId(corr[conn[r]]) \in Ids
    BY <1>5 DEF TakeId, NextId, Ids
  <2>2. LinksTyped'
    BY <1>5, <2>1 DEF TakeId
  <2>3. CallsTyped' /\ CallsHeld'
    BY <1>5, <2>1 DEF TakeId
  <2> QED
    BY <2>2, <2>3
<1>6. ASSUME NEW r \in Req, Store(r) PROVE TInv'
  BY <1>6 DEF Store, Stored
<1>7. ASSUME NEW r \in Req, Send(r) PROVE TInv'
  <2> DEFINE f == [id |-> id[r], req |-> r, try |-> attempts[r]]
  <2>1. conn[r] \in Conn /\ f \in Frame
    BY <1>7, FramesTyped DEF Send
  <2> HIDE DEF f
  <2>2. sendq' = sendq \/ (~Full(conn[r]) /\ sendq' = [sendq EXCEPT ![conn[r]] = Append(@, f)])
    BY <1>7 DEF Send, f
  <2>3. LinksTyped
    OBVIOUS
  <2>4. ~Full(conn[r]) =>
          /\ [sendq EXCEPT ![conn[r]] = Append(@, f)] \in [Conn -> Seq(Frame)]
          /\ \A d \in Conn : Len([sendq EXCEPT ![conn[r]] = Append(@, f)][d]) <= ChanCap
    BY ONLY <2>1, <2>3, AppendTyped
  <2>5. sendq' \in [Conn -> Seq(Frame)] /\ \A d \in Conn : Len(sendq'[d]) <= ChanCap
    BY <2>2, <2>4
  <2>6. LinksTyped'
    BY <1>7, <2>5 DEF Send
  <2>7. CallsTyped' /\ CallsHeld'
    BY <1>7 DEF Send
  <2> QED
    BY <2>6, <2>7
<1>8. ASSUME NEW r \in Req, RecvReply(r) PROVE TInv'
  BY <1>8 DEF RecvReply, linkVars
<1>9. ASSUME NEW r \in Req, RecvError(r) PROVE TInv'
  <2>1. LinksTyped'
    BY <1>9 DEF RecvError, linkVars
  <2>2. CallsTyped' /\ CallsHeld'
    BY <1>9, FailTyped DEF RecvError
  <2> QED
    BY <2>1, <2>2
<1>10. ASSUME NEW r \in Req, Wake(r) PROVE TInv'
  BY <1>10 DEF Wake, linkVars
<1>11. ASSUME NEW r \in Req, Cancel(r) PROVE TInv'
  BY <1>11 DEF Cancel, AfterCancel, AwaitPoints
<1>12. ASSUME NEW c \in Conn, Connect(c) PROVE TInv'
  BY <1>12 DEF Connect, callVars
<1>13. ASSUME NEW c \in Conn, WriteFrame(c) PROVE TInv'
  BY <1>13 DEF WriteFrame
<1>14. ASSUME NEW c \in Conn, WriteFail(c) PROVE TInv'
  BY <1>14 DEF WriteFail, callVars
<1>15. ASSUME NEW c \in Conn, Dispatch(c) PROVE TInv'
  <2>1. PICK f \in inbox[c] : Known(c, f) /\ Dispatch(c)!(f)
    BY <1>15 DEF Dispatch
  <2>2. f \in Frame /\ demux[c][f.id] \in Req /\ f.req \in Req \cup {None} /\ f.id \in Ids
    BY <2>1 DEF Known, Frame
  <2>3. demux' \in [Conn -> [Ids -> Req \cup {None}]]
    BY <2>1, <2>2 DEF Removed
  <2>4. LinksTyped'
    BY <2>1, <2>3
  <2>5. got' \in [Req -> SUBSET (Req \cup {None})]
    BY <2>1, <2>2
  <2>6. CallsTyped' /\ CallsHeld'
    BY <2>1, <2>5
  <2> QED
    BY <2>4, <2>6
<1>16. ASSUME NEW c \in Conn, RejectFrame(c) PROVE TInv'
  BY <1>16 DEF RejectFrame, AfterReadLoop, callVars
<1>17. ASSUME NEW c \in Conn, ReadEof(c) PROVE TInv'
  BY <1>17 DEF ReadEof, AfterReadLoop, callVars
<1>18. ASSUME NEW c \in Conn, KeepaliveTick(c) PROVE TInv'
  BY <1>18 DEF KeepaliveTick, callVars
<1>19. ASSUME NEW c \in Conn, KeepaliveSend(c) PROVE TInv'
  <2>1. sendq' = sendq \/ (~Full(c) /\ sendq' = [sendq EXCEPT ![c] = Append(@, KeepaliveFrame)])
    BY <1>19 DEF KeepaliveSend
  <2>2. LinksTyped
    OBVIOUS
  <2>3. ~Full(c) =>
          /\ [sendq EXCEPT ![c] = Append(@, KeepaliveFrame)] \in [Conn -> Seq(Frame)]
          /\ \A d \in Conn : Len([sendq EXCEPT ![c] = Append(@, KeepaliveFrame)][d]) <= ChanCap
    BY ONLY <2>2, c \in Conn, FramesTyped, AppendTyped
  <2>4. sendq' \in [Conn -> Seq(Frame)] /\ \A d \in Conn : Len(sendq'[d]) <= ChanCap
    BY <2>1, <2>3
  <2>5. LinksTyped'
    BY <1>19, <2>4 DEF KeepaliveSend
  <2>6. CallsTyped' /\ CallsHeld'
    BY <1>19 DEF KeepaliveSend, callVars
  <2> QED
    BY <2>5, <2>6
<1>20. ASSUME NEW c \in Conn, ServerReply(c) PROVE TInv'
  <2>1. PICK f \in wire[c] : ServerReply(c)!(f)
    BY <1>20 DEF ServerReply
  <2>2. f \in Frame
    BY <2>1
  <2>3. inbox' \in [Conn -> SUBSET Frame]
    BY <2>1, <2>2
  <2>4. wire' \in [Conn -> SUBSET Frame]
    <3>1. wire[c] \ {f} \in SUBSET Frame
      OBVIOUS
    <3>2. wire' = [wire EXCEPT ![c] = wire[c] \ {f}] \/ wire' = wire
      BY <2>1
    <3> QED
      BY <3>1, <3>2
  <2>5. LinksTyped'
    BY <2>1, <2>3, <2>4
  <2>6. CallsTyped' /\ CallsHeld'
    BY <2>1 DEF callVars
  <2> QED
    BY <2>5, <2>6
<1>21. ASSUME NEW c \in Conn, ServerGarbage(c) PROVE TInv'
  BY <1>21, FramesTyped DEF ServerGarbage, callVars
<1>22. ASSUME NEW c \in Conn, PeerClose(c) PROVE TInv'
  BY <1>22 DEF PeerClose, callVars
<1>23. CASE UNCHANGED vars
  BY <1>23 DEF vars, linkVars, callVars
<1> QED
  BY <1>1, <1>2, <1>3, <1>4, <1>5, <1>6, <1>7, <1>8, <1>9, <1>10, <1>11, <1>12,
     <1>13, <1>14, <1>15, <1>16, <1>17, <1>18, <1>19, <1>20, <1>21, <1>22, <1>23
  DEF Next, Choose, Proceed, WriteLoop, ReadLoop, KeepaliveLoop, Environment

(* Every variable keeps its type: no counter, queue or table of the request *)
(* path leaves its range, whether or not ids wrap around.                   *)
THEOREM TypeCorrect == Spec => []TypeOK
<1>1. TInv => TypeOK
  BY DEF TInv
<1> QED
  BY <1>1, TInvInit, TInvNext, PTL DEF Spec

-----------------------------------------------------------------------------
(* The inductive invariant behind the safety properties, for ids that do    *)
(* not wrap.  Ids are handed out upwards, so an id leads to one call at     *)
(* most: through the table, through the frames under way and through the    *)
(* calls that hold it.                                                      *)

\* The frames of a connection, in the channel or on the network.
Elems(q) == {q[i] : i \in DOMAIN q}
Queued(c) == Elems(sendq[c])
Carried(c) == Queued(c) \cup wire[c] \cup inbox[c]

Control(f) == f.req = None /\ f.id \in {0, IdSpace}

Issued(c, i) == 1 <= i /\ i < corr[c]

\* A call between the moment it takes an id and the moment it is done with it.
HasId(r) == pc[r] \in {"store", "send", "wait"}

\* Only ids that were handed out have entries.
EntriesIssued ==
  \A c \in Conn : /\ corr[c] >= 1
                  /\ \A i \in Ids : demux[c][i] # None => Issued(c, i)

\* A frame of a call carries an id whose entry is of that call, or gone.
FramesLabelled ==
  \A c \in Conn : \A f \in Carried(c) :
    Control(f) \/ (Issued(c, f.id) /\ demux[c][f.id] \in {None, f.req})

\* Calls that hold an id of the same connection hold different ones.
IdsApart ==
  \A r \in Req : HasId(r) =>
    /\ Issued(conn[r], id[r])
    /\ \A s \in Req \ {r} : HasId(s) /\ conn[s] = conn[r] => id[s] # id[r]

\* Nothing uses the id of a call that has not stored its sender yet.
IdsFresh ==
  \A r \in Req : pc[r] = "store" =>
    /\ demux[conn[r]][id[r]] = None
    /\ \A f \in Carried(conn[r]) : f.id # id[r]

\* The entry of a listening call is its own, until its value has been sent.
EntriesKept ==
  \A r \in Req : Listening(r) =>
    \/ demux[conn[r]][id[r]] = r
    \/ demux[conn[r]][id[r]] = None /\ got[r] # {}

IInv == /\ TInv /\ EntriesIssued /\ FramesLabelled /\ IdsApart /\ IdsFresh /\ EntriesKept
        /\ ReplyMatches

-----------------------------------------------------------------------------
(* What a step may do to the table, to the calls and to the frames          *)

\* All actions but TakeId, Store and Dispatch leave the ids and the table alone.
LEMMA TableSteps ==
  ASSUME TInv, [Next]_vars
  PROVE  \/ UNCHANGED <<corr, demux>>
         \/ \E r \in Req : TakeId(r) \/ Store(r)
         \/ \E c \in Conn : Dispatch(c)
<1>1. demux = [c \in Conn |-> demux[c]]
  BY DEF TInv, TypeOK, LinksTyped
<1>2. ASSUME NEW r \in Req, Call(r) \/ Choose(r) \/ Cancel(r)
      PROVE  UNCHANGED <<corr, demux>>
  BY <1>1, <1>2 DEF Call, Choose, NoConnection, Pick, Cancel, AfterCancel, linkVars
<1>3. ASSUME NEW r \in Req, Proceed(r)
      PROVE  UNCHANGED <<corr, demux>> \/ TakeId(r) \/ Store(r)
  BY <1>3 DEF Proceed, LateClosed, Send, RecvReply, RecvError, Wake, linkVars
<1>4. ASSUME NEW c \in Conn, Connect(c) \/ WriteLoop(c) \/ KeepaliveLoop(c) \/ Environment(c)
      PROVE  UNCHANGED <<corr, demux>>
  BY <1>4 DEF Connect, WriteLoop, WriteFrame, WriteFail, KeepaliveLoop, KeepaliveTick,
              KeepaliveSend, Environment, ServerReply, ServerGarbage, PeerClose
<1>5. ASSUME NEW c \in Conn, ReadLoop(c)
      PROVE  UNCHANGED <<corr, demux>> \/ Dispatch(c)
  BY <1>1, <1>5 DEF ReadLoop, RejectFrame, ReadEof, AfterReadLoop
<1>6. CASE UNCHANGED vars
  BY <1>6 DEF vars, linkVars
<1> QED
  BY <1>2, <1>3, <1>4, <1>5, <1>6 DEF Next

\* A call gets an id in TakeId only, keeps it, and listens from Store on.
LEMMA CallSteps ==
  ASSUME TInv, [Next]_vars, NEW s \in Req
  PROVE  /\ HasId(s)' => TakeId(s) \/ (HasId(s) /\ UNCHANGED <<conn[s], id[s]>>)
         /\ (pc[s] = "store")' => TakeId(s) \/ pc[s] = "store"
         /\ Listening(s)' => Store(s) \/ Listening(s)
<1> USE DEF TInv, TypeOK, CallsTyped, HasId, Listening
<1>1. ASSUME NEW r \in Req, Call(r) \/ Choose(r) \/ Cancel(r)
      PROVE  /\ HasId(s)' => HasId(s) /\ UNCHANGED <<conn[s], id[s]>>
             /\ (pc[s] = "store")' => pc[s] = "store"
             /\ Listening(s)' => Listening(s)
  BY <1>1 DEF Call, Choose, NoConnection, Pick, Cancel, FailAttempt
<1>2. ASSUME NEW r \in Req, TakeId(r) \/ Store(r) \/ Send(r)
      PROVE  /\ HasId(s)' => TakeId(s) \/ (HasId(s) /\ UNCHANGED <<conn[s], id[s]>>)
             /\ (pc[s] = "store")' => TakeId(s) \/ pc[s] = "store"
             /\ Listening(s)' => Store(s) \/ Listening(s)
  <2>1. CASE r = s
    BY <1>2, <2>1 DEF TakeId, Store, Send
  <2>2. CASE r # s
    BY <1>2, <2>2 DEF TakeId, Store, Send
  <2> QED
    BY <2>1, <2>2
<1>3. ASSUME NEW r \in Req, LateClosed(r) \/ RecvReply(r) \/ RecvError(r) \/ Wake(r)
      PROVE  /\ HasId(s)' => HasId(s) /\ UNCHANGED <<conn[s], id[s]>>
             /\ (pc[s] = "store")' => pc[s] = "store"
             /\ Listening(s)' => Listening(s)
  BY <1>3 DEF LateClosed, RecvReply, RecvError, Wake, FailAttempt
<1>4. ASSUME NEW c \in Conn,
             Connect(c) \/ WriteLoop(c) \/ ReadLoop(c) \/ KeepaliveLoop(c) \/ Environment(c)
      PROVE  UNCHANGED <<pc, conn, id>>
  BY <1>4 DEF Connect, WriteLoop, WriteFrame, WriteFail, ReadLoop, Dispatch, RejectFrame,
              ReadEof, KeepaliveLoop, KeepaliveTick, KeepaliveSend, Environment,
              ServerReply, ServerGarbage, PeerClose, callVars
<1>5. CASE UNCHANGED vars
  BY <1>5 DEF vars, callVars
<1> QED
  BY <1>1, <1>2, <1>3, <1>4, <1>5 DEF Next, Proceed

LEMMA FrameTyped == ASSUME TInv, NEW c \in Conn, NEW f \in Carried(c) PROVE f \in Frame
<1>1. sendq[c] \in Seq(Frame) /\ wire[c] \subseteq Frame /\ inbox[c] \subseteq Frame
  BY DEF TInv, TypeOK, LinksTyped
<1>2. Queued(c) \subseteq Frame
  BY <1>1 DEF Queued, Elems
<1> QED
  BY <1>1, <1>2 DEF Carried

\* New frames are control frames, or come from Send.
LEMMA FrameSteps ==
  ASSUME TInv, [Next]_vars, NEW c \in Conn, NEW f \in Carried(c)'
  PROVE  \/ f \in Carried(c)
         \/ Control(f)
         \/ \E r \in Req : Send(r) /\ conn[r] = c /\ f.id = id[r] /\ f.req = r
<1> USE DEF TInv, TypeOK, LinksTyped
<1>1. f \in Queued(c)' \cup wire'[c] \cup inbox'[c]
  BY DEF Carried
<1>2. ASSUME NEW q \in Seq(Frame), NEW g \in Frame
      PROVE  Elems(Append(q, g)) \subseteq Elems(q) \cup {g}
  BY DEF Elems
<1>3. ASSUME NEW q \in Seq(Frame), q # <<>>
      PROVE  Elems(Tail(q)) \subseteq Elems(q) /\ Head(q) \in Elems(q)
  <2>1. 1 \in DOMAIN q /\ Head(q) = q[1]
    <3>1. Len(q) \in Nat \ {0}
      BY <1>3, EmptySeq
    <3> QED
      BY <3>1
  <2>2. \A i \in DOMAIN Tail(q) : i + 1 \in DOMAIN q /\ Tail(q)[i] = q[i + 1]
    OBVIOUS
  <2> QED
    BY <2>1, <2>2 DEF Elems
<1>4. ASSUME UNCHANGED <<sendq, wire, inbox>> PROVE f \in Carried(c)
  BY <1>1, <1>4 DEF Carried, Queued
<1>5. ASSUME NEW r \in Req, Call(r) \/ Choose(r) \/ Cancel(r)
      PROVE  f \in Carried(c)
  BY <1>4, <1>5 DEF Call, Choose, NoConnection, Pick, Cancel, linkVars
<1>6. ASSUME NEW r \in Req, Proceed(r), ~Send(r)
      PROVE  f \in Carried(c)
  BY <1>4, <1>6 DEF Proceed, LateClosed, TakeId, Store, RecvReply, RecvError, Wake, linkVars
<1>7. ASSUME NEW r \in Req, Send(r)
      PROVE  f \in Carried(c) \/ (conn[r] = c /\ f.id = id[r] /\ f.req = r)
  <2> DEFINE g == [id |-> id[r], req |-> r, try |-> attempts[r]]
  <2>1. g \in Frame /\ g.id = id[r] /\ g.req = r
    BY <1>7, FramesTyped DEF Send, CallsTyped, CallsHeld
  <2>2. UNCHANGED sendq \/ sendq' = [sendq EXCEPT ![conn[r]] = Append(@, g)]
    BY <1>7 DEF Send
  <2> HIDE DEF g
  <2>3. Queued(c)' \subseteq Queued(c) \/ (conn[r] = c /\ Queued(c)' \subseteq Queued(c) \cup {g})
    <3>1. CASE UNCHANGED sendq
      BY <3>1 DEF Queued
    <3>2. CASE sendq' = [sendq EXCEPT ![conn[r]] = Append(@, g)]
      <4>1. c # conn[r] => sendq'[c] = sendq[c]
        BY <3>2
      <4>2. c = conn[r] => sendq'[c] = Append(sendq[c], g)
        BY <3>2
      <4>3. sendq[c] \in Seq(Frame)
        OBVIOUS
      <4> QED
        BY <1>2, <2>1, <4>1, <4>2, <4>3 DEF Queued
    <3> QED
      BY <2>2, <3>1, <3>2
  <2> QED
    BY <1>1, <1>7, <2>1, <2>3 DEF Send, Carried
<1>8. ASSUME NEW d \in Conn,
             Connect(d) \/ WriteFail(d) \/ ReadLoop(d) \/ KeepaliveTick(d)
      PROVE  f \in Carried(c)
  <2>1. Queued(c)' \subseteq Queued(c) /\ wire'[c] \subseteq wire[c] /\ inbox'[c] \subseteq inbox[c]
    <3>1. sendq'[c] = sendq[c] \/ sendq'[c] = <<>>
      BY <1>8 DEF Connect, WriteFail, ReadLoop, Dispatch, RejectFrame, ReadEof, KeepaliveTick
    <3>2. Queued(c)' \subseteq Queued(c)
      BY <3>1 DEF Queued, Elems
    <3>3. wire'[c] \subseteq wire[c] /\ inbox'[c] \subseteq inbox[c]
      BY <1>8 DEF Connect, WriteFail, ReadLoop, Dispatch, RejectFrame, ReadEof, KeepaliveTick
    <3> QED
      BY <3>2, <3>3
  <2> QED
    BY <1>1, <2>1 DEF Carried
<1>9. ASSUME NEW d \in Conn, WriteFrame(d)
      PROVE  f \in Carried(c)
  <2>1. sendq[d] \in Seq(Frame) /\ sendq[d] # <<>> /\ Head(sendq[d]) \in Queued(d)
    BY <1>3, <1>9 DEF WriteFrame, Queued
  <2>2. Queued(c)' \subseteq Queued(c)
    BY <1>3, <1>9, <2>1 DEF WriteFrame, Queued
  <2>3. wire'[c] \subseteq wire[c] \cup Queued(c) /\ inbox'[c] = inbox[c]
    BY <1>9, <2>1 DEF WriteFrame
  <2> QED
    BY <1>1, <2>2, <2>3 DEF Carried
<1>10. ASSUME NEW d \in Conn, KeepaliveSend(d)
       PROVE  f \in Carried(c) \/ Control(f)
  <2>1. KeepaliveFrame \in Frame /\ Control(KeepaliveFrame)
    BY FramesTyped DEF KeepaliveFrame, Control
  <2>2. Queued(c)' \subseteq Queued(c) \cup {KeepaliveFrame}
    <3>1. \/ sendq'[c] = sendq[c]
          \/ sendq'[c] = Append(sendq[c], KeepaliveFrame)
      BY <1>10 DEF KeepaliveSend
    <3>2. sendq[c] \in Seq(Frame)
      OBVIOUS
    <3> QED
      BY <1>2, <2>1, <3>1, <3>2 DEF Queued
  <2> QED
    BY <1>1, <1>10, <2>1, <2>2 DEF KeepaliveSend, Carried
<1>11. ASSUME NEW d \in Conn, Environment(d)
       PROVE  f \in Carried(c) \/ Control(f)
  <2>1. Control(GarbageFrame)
    BY DEF GarbageFrame, Control
  <2>2. Queued(c)' = Queued(c)
    BY <1>11 DEF Environment, ServerReply, ServerGarbage, PeerClose, Queued
  <2>3. wire'[c] \subseteq wire[c] /\ inbox'[c] \subseteq inbox[c] \cup wire[c] \cup {GarbageFrame}
    BY <1>11 DEF Environment, ServerReply, ServerGarbage, PeerClose
  <2> QED
    BY <1>1, <2>1, <2>2, <2>3 DEF Carried
<1>12. CASE UNCHANGED vars
  BY <1>4, <1>12 DEF vars, linkVars
<1> QED
  BY <1>5, <1>6, <1>7, <1>8, <1>9, <1>10, <1>11, <1>12
  DEF Next, WriteLoop, KeepaliveLoop

-----------------------------------------------------------------------------
(* The conjuncts of the invariant, one lemma each                          *)

LEMMA IInvInit == Init => IInv
<1> SUFFICES ASSUME Init PROVE IInv
  OBVIOUS
<1>1. TInv
  BY TInvInit
<1>2. EntriesIssued /\ FramesLabelled
  BY DEF Init, EntriesIssued, FramesLabelled, Carried, Queued, Elems
<1>3. IdsApart /\ IdsFresh /\ EntriesKept /\ ReplyMatches
  BY DEF Init, IdsApart, IdsFresh, EntriesKept, ReplyMatches, HasId, Listening
<1> QED
  BY <1>1, <1>2, <1>3 DEF IInv

\* Ids that are not wrapped only grow.
LEMMA CorrGrows ==
  ASSUME ~MayWrap, TInv, [Next]_vars, NEW c \in Conn
  PROVE  /\ corr[c] \in Ids /\ corr'[c] \in Ids /\ corr[c] <= corr'[c]
         /\ \A r \in Req : TakeId(r) /\ conn[r] = c => corr'[c] = corr[c] + 1
<1> USE DEF TInv, TypeOK, LinksTyped, CallsTyped, CallsHeld, Holding
<1>1. corr[c] \in Ids /\ corr[c] \in Int
  BY DEF Ids
<1>2. ASSUME NEW r \in Req, TakeId(r)
      PROVE  /\ corr[c] <= corr'[c] /\ corr'[c] \in Ids
             /\ conn[r] = c => corr'[c] = corr[c] + 1
  BY <1>1, <1>2 DEF TakeId, NextId, Ids
<1>3. UNCHANGED corr => corr[c] <= corr'[c] /\ corr'[c] \in Ids
  BY <1>1
<1>4. ASSUME NEW r \in Req, Store(r) PROVE UNCHANGED corr
  BY <1>4 DEF Store
<1>5. ASSUME NEW d \in Conn, Dispatch(d) PROVE UNCHANGED corr
  BY <1>5 DEF Dispatch
<1> QED
  BY <1>1, <1>2, <1>3, <1>4, <1>5, TableSteps

\* What each of the three actions that change the table makes of an entry.
LEMMA EntrySteps ==
  ASSUME TInv, [Next]_vars, NEW c \in Conn, NEW i \in Ids
  PROVE  \/ demux'[c][i] = demux[c][i]
         \/ demux'[c][i] = None
         \/ \E r \in Req : Store(r) /\ conn[r] = c /\ id[r] = i /\ demux'[c][i] = r
<1> USE DEF TInv, TypeOK, LinksTyped, CallsTyped, CallsHeld, Holding
<1>1. ASSUME NEW r \in Req, TakeId(r) PROVE UNCHANGED demux
  BY <1>1 DEF TakeId
<1>2. ASSUME NEW r \in Req, Store(r)
      PROVE  \/ demux'[c][i] = demux[c][i]
             \/ conn[r] = c /\ id[r] = i /\ demux'[c][i] = r
  BY <1>2 DEF Store, Stored
<1>3. ASSUME NEW d \in Conn, Dispatch(d)
      PROVE  demux'[c][i] = demux[c][i] \/ demux'[c][i] = None
  BY <1>3 DEF Dispatch, Removed
<1> QED
  BY <1>1, <1>2, <1>3, TableSteps

LEMMA EntriesIssuedNext ==
  ASSUME ~MayWrap, IInv, [Next]_vars PROVE EntriesIssued'
<1> SUFFICES ASSUME NEW c \in Conn
             PROVE  /\ corr'[c] >= 1
                    /\ \A i \in Ids : demux'[c][i] # None => 1 <= i /\ i < corr'[c]
  BY DEF EntriesIssued, Issued
<1>1. corr[c] \in Int /\ corr'[c] \in Int /\ corr[c] <= corr'[c] /\ corr[c] >= 1
  BY CorrGrows DEF IInv, EntriesIssued, Ids
<1>2. ASSUME NEW i \in Ids, demux'[c][i] # None PROVE 1 <= i /\ i < corr[c]
  <2>1. CASE demux[c][i] # None
    BY <2>1 DEF IInv, EntriesIssued, Issued
  <2>2. CASE demux[c][i] = None
    <3>1. PICK r \in Req : Store(r) /\ conn[r] = c /\ id[r] = i
      BY <1>2, <2>2, EntrySteps DEF IInv
    <3> QED
      BY <3>1 DEF IInv, IdsApart, HasId, Issued, Store
  <2> QED
    BY <2>1, <2>2
<1> QED
  BY <1>1, <1>2 DEF Ids

LEMMA FramesLabelledNext ==
  ASSUME ~MayWrap, IInv, [Next]_vars PROVE FramesLabelled'
<1> SUFFICES ASSUME NEW c \in Conn, NEW f \in Carried(c)', ~Control(f)
             PROVE  Issued(c, f.id)' /\ demux'[c][f.id] \in {None, f.req}
  BY DEF FramesLabelled, Control
<1>1. corr[c] \in Ids /\ corr'[c] \in Ids /\ corr[c] <= corr'[c]
  BY CorrGrows DEF IInv
<1>2. /\ f.id \in Ids /\ Issued(c, f.id) /\ demux[c][f.id] \in {None, f.req}
      /\ \A r \in Req : Store(r) /\ conn[r] = c => id[r] # f.id
  <2>1. CASE f \in Carried(c)
    <3>1. Issued(c, f.id) /\ demux[c][f.id] \in {None, f.req}
      BY <2>1 DEF IInv, FramesLabelled
    <3>2. f \in Frame
      BY <2>1, FrameTyped DEF IInv
    <3>3. f.id \in Ids
      BY <1>1, <3>1, <3>2 DEF Issued, Frame, Ids
    <3>4. \A r \in Req : Store(r) /\ conn[r] = c => id[r] # f.id
      BY <2>1 DEF IInv, IdsFresh, Store
    <3> QED
      BY <3>1, <3>3, <3>4
  <2>2. CASE f \notin Carried(c)
    <3>1. PICK r \in Req : Send(r) /\ conn[r] = c /\ f.id = id[r] /\ f.req = r
      BY <2>2, FrameSteps DEF IInv
    <3>2. f.id \in Ids
      BY <3>1 DEF IInv, TInv, TypeOK, CallsTyped
    <3>3. Issued(c, f.id) /\ demux[c][f.id] \in {None, f.req}
      BY <3>1 DEF Send, IInv, IdsApart, HasId, EntriesKept, Listening
    <3>4. \A s \in Req : Store(s) /\ conn[s] = c => id[s] # f.id
      BY <3>1 DEF Send, Store, IInv, IdsApart, HasId
    <3> QED
      BY <3>2, <3>3, <3>4
  <2> QED
    BY <2>1, <2>2
<1>3. Issued(c, f.id)'
  BY <1>1, <1>2 DEF Issued, Ids
<1>4. demux'[c][f.id] \in {None, f.req}
  BY <1>2, EntrySteps DEF IInv
<1> QED
  BY <1>3, <1>4

LEMMA IdsApartNext ==
  ASSUME ~MayWrap, IInv, [Next]_vars PROVE IdsApart'
<1> SUFFICES ASSUME NEW r \in Req, HasId(r)'
             PROVE  /\ Issued(conn[r], id[r])'
                    /\ \A s \in Req \ {r} : HasId(s)' /\ conn'[s] = conn'[r] => id'[s] # id'[r]
  BY DEF IdsApart
<1> USE DEF HasId, Issued
\* A call that took its id now has the latest one of its connection.
<1>1. ASSUME NEW s \in Req, TakeId(s)
      PROVE  /\ conn[s] \in Conn /\ corr[conn[s]] \in Ids
             /\ conn' = conn /\ id'[s] = corr[conn[s]]
             /\ corr'[conn[s]] = corr[conn[s]] + 1 /\ corr[conn[s]] >= 1
             /\ pc[s] = "got"
             /\ \A t \in Req \ {s} : id'[t] = id[t] /\ pc'[t] = pc[t]
  BY <1>1, CorrGrows
  DEF TakeId, IInv, TInv, TypeOK, LinksTyped, CallsTyped, CallsHeld, Holding, EntriesIssued
<1>2. ASSUME NEW s \in Req, HasId(s)', ~TakeId(s)
      PROVE  /\ HasId(s) /\ conn'[s] = conn[s] /\ id'[s] = id[s] /\ conn[s] \in Conn
             /\ id[s] \in Ids /\ 1 <= id[s] /\ id[s] < corr[conn[s]]
  BY <1>2, CallSteps DEF IInv, IdsApart, TInv, TypeOK, CallsTyped, CallsHeld, Holding
<1>3. Issued(conn[r], id[r])'
  <2>1. CASE TakeId(r)
    BY <1>1, <2>1 DEF Ids
  <2>2. CASE ~TakeId(r)
    BY <1>2, <2>2, CorrGrows DEF IInv, Ids
  <2> QED
    BY <2>1, <2>2
<1>4. ASSUME NEW s \in Req \ {r}, HasId(s)', conn'[s] = conn'[r]
      PROVE  id'[s] # id'[r]
  <2>1. CASE TakeId(r)
    <3>1. ~TakeId(s)
      BY <1>1, <1>4, <2>1
    <3>2. id[s] < corr[conn[r]] /\ id'[s] = id[s] /\ id[s] \in Ids
      BY <1>1, <1>2, <1>4, <2>1, <3>1
    <3> QED
      BY <1>1, <2>1, <3>2 DEF Ids
  <2>2. CASE TakeId(s)
    <3>1. ~TakeId(r)
      BY <1>1, <1>4, <2>2
    <3>2. id[r] < corr[conn[s]] /\ id'[r] = id[r] /\ id[r] \in Ids
      BY <1>1, <1>2, <1>4, <2>2, <3>1
    <3> QED
      BY <1>1, <2>2, <3>2 DEF Ids
  <2>3. CASE ~TakeId(r) /\ ~TakeId(s)
    BY <1>2, <1>4, <2>3 DEF IInv, IdsApart
  <2> QED
    BY <2>1, <2>2, <2>3
<1> QED
  BY <1>3, <1>4

LEMMA IdsFreshNext ==
  ASSUME ~MayWrap, IInv, [Next]_vars PROVE IdsFresh'
<1> SUFFICES ASSUME NEW r \in Req, (pc[r] = "store")', NEW c, c = conn'[r]
             PROVE  demux'[c][id'[r]] = None /\ \A f \in Carried(c)' : f.id # id'[r]
  BY DEF IdsFresh, Carried, Queued, Elems
\* Before the step nothing uses the id that the call has after it.
<1>1. /\ c \in Conn /\ id'[r] \in Ids /\ id'[r] # 0 /\ id'[r] # IdSpace
      /\ demux[c][id'[r]] = None
      /\ \A f \in Carried(c) : f.id # id'[r]
      /\ \A s \in Req : s # r /\ HasId(s) /\ conn[s] = c => id[s] # id'[r]
  <2>1. CASE TakeId(r)
    <3>1. /\ conn'[r] = conn[r] /\ conn[r] \in Conn
          /\ id'[r] = corr[conn[r]] /\ corr[conn[r]] \in Ids /\ corr[conn[r]] >= 1
      BY <2>1 DEF TakeId, IInv, TInv, TypeOK, LinksTyped, CallsTyped, CallsHeld, Holding,
                  EntriesIssued
    <3>2. demux[conn[r]][corr[conn[r]]] = None
      BY <3>1 DEF IInv, EntriesIssued, Issued, Ids
    <3>3. \A f \in Carried(conn[r]) : f.id # corr[conn[r]]
      BY <3>1, FrameTyped DEF IInv, FramesLabelled, Control, Issued, Ids
    <3>4. \A s \in Req : HasId(s) /\ conn[s] = conn[r] => id[s] # corr[conn[r]]
      BY <3>1 DEF IInv, IdsApart, Issued, Ids
    <3> QED
      BY <3>1, <3>2, <3>3, <3>4 DEF Ids
  <2>2. CASE ~TakeId(r)
    <3>1. pc[r] = "store" /\ conn'[r] = conn[r] /\ id'[r] = id[r]
      BY <2>2, CallSteps DEF IInv, HasId
    <3>2. conn[r] \in Conn /\ id[r] \in Ids /\ 1 <= id[r]
      BY <3>1 DEF IInv, IdsApart, HasId, Issued, TInv, TypeOK, CallsTyped, CallsHeld, Holding
    <3> QED
      BY <3>1, <3>2 DEF IInv, IdsFresh, IdsApart, HasId, Ids
  <2> QED
    BY <2>1, <2>2
<1>2. ASSUME NEW s \in Req, Store(s) \/ Send(s)
      PROVE  s # r /\ HasId(s)
  <2>1. s # r
    BY <1>2 DEF Store, Send, IInv, TInv, TypeOK, CallsTyped
  <2> QED
    BY <1>2, <2>1 DEF Store, Send, HasId
<1>3. demux'[c][id'[r]] = None
  BY <1>1, <1>2, EntrySteps DEF IInv
<1>4. ASSUME NEW f \in Carried(c)' PROVE f.id # id'[r]
  <2>1. \/ f \in Carried(c)
        \/ Control(f)
        \/ \E s \in Req : Send(s) /\ conn[s] = c /\ f.id = id[s] /\ f.req = s
    BY <1>1, FrameSteps DEF IInv
  <2> QED
    BY <1>1, <1>2, <2>1 DEF Control
<1> QED
  BY <1>3, <1>4

\* Only the read loop puts a value into a oneshot.
LEMMA GotSteps ==
  ASSUME TInv, [Next]_vars PROVE UNCHANGED got \/ \E c \in Conn : Dispatch(c)
<1>1. ASSUME NEW r \in Req, Call(r) \/ Choose(r) \/ Proceed(r) \/ Cancel(r)
      PROVE  UNCHANGED got
  BY <1>1 DEF Call, Choose, NoConnection, Pick, Proceed, LateClosed, TakeId, Store, Send,
              RecvReply, RecvError, Wake, Cancel
<1>2. ASSUME NEW c \in Conn,
             Connect(c) \/ WriteLoop(c) \/ ReadLoop(c) \/ KeepaliveLoop(c) \/ Environment(c)
      PROVE  UNCHANGED got \/ Dispatch(c)
  BY <1>2 DEF Connect, WriteLoop, WriteFrame, WriteFail, ReadLoop, RejectFrame, ReadEof,
              KeepaliveLoop, KeepaliveTick, KeepaliveSend, Environment, ServerReply,
              ServerGarbage, PeerClose, callVars
<1>3. CASE UNCHANGED vars
  BY <1>3 DEF vars, callVars
<1> QED
  BY <1>1, <1>2, <1>3 DEF Next

\* What a reply found in the table does: it is for the owner of its entry.
LEMMA DispatchSteps ==
  ASSUME IInv, NEW c \in Conn, Dispatch(c)
  PROVE  \E i \in Ids, r \in Req :
           /\ demux[c][i] = r
           /\ demux' = [demux EXCEPT ![c][i] = None]
           /\ got' = IF Listening(r) /\ conn[r] = c /\ id[r] = i
                     THEN [got EXCEPT ![r] = {r}] ELSE got
           /\ UNCHANGED <<pc, conn, id>>
<1>1. PICK f \in inbox[c] : Known(c, f) /\ Dispatch(c)!(f)
  BY DEF Dispatch
<1>2. /\ f \in Carried(c) /\ f.id \in Ids /\ demux[c][f.id] # None
      /\ demux[c][f.id] \in Req
  BY <1>1 DEF Known, Carried, IInv, TInv, TypeOK, LinksTyped
<1>3. Issued(c, f.id)
  BY <1>2 DEF IInv, EntriesIssued
<1>4. ~Control(f)
  BY <1>2, <1>3 DEF Control, Issued, Ids
<1>5. demux[c][f.id] = f.req
  BY <1>2, <1>4 DEF IInv, FramesLabelled
<1> QED
  BY <1>1, <1>2, <1>5 DEF Removed, IInv, TInv, TypeOK, LinksTyped

LEMMA EntriesKeptNext ==
  ASSUME ~MayWrap, IInv, [Next]_vars PROVE EntriesKept'
<1> SUFFICES ASSUME NEW s \in Req, Listening(s)'
             PROVE  \/ demux'[conn'[s]][id'[s]] = s
                    \/ demux'[conn'[s]][id'[s]] = None /\ got'[s] # {}
  BY DEF EntriesKept
<1> USE DEF TInv, TypeOK, LinksTyped, CallsTyped, CallsHeld, Holding
<1>1. CASE Store(s)
  BY <1>1 DEF Store, Stored, IInv
<1>2. CASE ~Store(s)
  <2>1. /\ Listening(s) /\ HasId(s) /\ conn'[s] = conn[s] /\ id'[s] = id[s]
        /\ conn[s] \in Conn /\ id[s] \in Ids
    <3>1. Listening(s) /\ HasId(s)'
      BY <1>2, CallSteps DEF IInv, HasId, Listening
    <3>2. ~TakeId(s)
      BY <3>1 DEF TakeId, Listening
    <3> QED
      BY <3>1, <3>2, CallSteps DEF IInv, Listening
  <2>2. \/ demux[conn[s]][id[s]] = s
        \/ demux[conn[s]][id[s]] = None /\ got[s] # {}
    BY <2>1 DEF IInv, EntriesKept
  <2>3. CASE UNCHANGED <<corr, demux>> \/ \E r \in Req : TakeId(r)
    <3>1. UNCHANGED <<demux, got>>
      <4>1. UNCHANGED demux
        BY <2>3 DEF TakeId
      <4>2. ASSUME NEW c \in Conn, Dispatch(c) PROVE FALSE
        <5>1. PICK i \in Ids, r \in Req :
                demux[c][i] = r /\ demux' = [demux EXCEPT ![c][i] = None]
          BY <4>2, DispatchSteps
        <5> QED
          BY <4>1, <5>1 DEF IInv
      <4> QED
        BY <4>1, <4>2, GotSteps DEF IInv
    <3> QED
      BY <2>1, <2>2, <3>1
  <2>4. ASSUME NEW r \in Req, Store(r)
        PROVE  demux'[conn[s]][id[s]] = demux[conn[s]][id[s]] /\ got' = got
    BY <1>2, <2>1, <2>4 DEF Store, Stored, IInv, IdsApart, HasId, Listening
  <2>5. ASSUME NEW c \in Conn, Dispatch(c)
        PROVE  \/ demux'[conn[s]][id[s]] = s
               \/ demux'[conn[s]][id[s]] = None /\ got'[s] # {}
    <3>1. PICK i \in Ids, r \in Req :
            /\ demux[c][i] = r
            /\ demux' = [demux EXCEPT ![c][i] = None]
            /\ got' = IF Listening(r) /\ conn[r] = c /\ id[r] = i
                      THEN [got EXCEPT ![r] = {r}] ELSE got
      BY <2>5, DispatchSteps
    <3>2. CASE conn[s] = c /\ id[s] = i
      BY <2>1, <2>2, <3>1, <3>2 DEF IInv
    <3>3. CASE ~(conn[s] = c /\ id[s] = i)
      <4>1. demux'[conn[s]][id[s]] = demux[conn[s]][id[s]]
        BY <2>1, <3>1, <3>3 DEF IInv
      <4>2. got'[s] # {} \/ got'[s] = got[s]
        BY <3>1 DEF IInv
      <4> QED
        BY <2>2, <4>1, <4>2
    <3> QED
      BY <3>2, <3>3
  <2> QED
    BY <2>1, <2>2, <2>3, <2>4, <2>5, TableSteps DEF IInv
<1> QED
  BY <1>1, <1>2

LEMMA ReplyMatchesNext ==
  ASSUME IInv, [Next]_vars PROVE ReplyMatches'
<1>1. CASE UNCHANGED got
  BY <1>1 DEF IInv, ReplyMatches
<1>2. ASSUME NEW c \in Conn, Dispatch(c) PROVE ReplyMatches'
  <2>1. PICK i \in Ids, r \in Req :
          got' = IF Listening(r) /\ conn[r] = c /\ id[r] = i
                 THEN [got EXCEPT ![r] = {r}] ELSE got
    BY <1>2, DispatchSteps
  <2> QED
    BY <2>1 DEF IInv, ReplyMatches, TInv, TypeOK, CallsTyped
<1> QED
  BY <1>1, <1>2, GotSteps DEF IInv

LEMMA IInvNext ==
  ASSUME ~MayWrap, IInv, [Next]_vars PROVE IInv'
<1>1. TInv'
  BY TInvNext DEF IInv
<1>2. EntriesIssued' /\ FramesLabelled' /\ IdsApart'
  BY EntriesIssuedNext, FramesLabelledNext, IdsApartNext
<1>3. IdsFresh' /\ EntriesKept' /\ ReplyMatches'
  BY IdsFreshNext, EntriesKeptNext, ReplyMatchesNext
<1> QED
  BY <1>1, <1>2, <1>3 DEF IInv

LEMMA IInvAlways == ASSUME ~MayWrap PROVE Spec => []IInv
<1>1. IInv /\ [Next]_vars => IInv'
  BY IInvNext
<1> QED
  BY <1>1, IInvInit, PTL DEF Spec

(* Whatever the server repeats, invents or answers late, and whoever is     *)
(* cancelled, a call receives no reply but its own, as long as the ids of a *)
(* connection do not wrap around.                                           *)
THEOREM RepliesMatch == ASSUME ~MayWrap PROVE Spec => []ReplyMatches
<1>1. IInv => ReplyMatches
  BY DEF IInv
<1> QED
  BY <1>1, IInvAlways, PTL

(* The sender of a listening call is never dropped: resp_rx.await does not  *)
(* fail, and execute does not reach its Timeout verdict.                    *)
THEOREM SendersKept == ASSUME ~MayWrap PROVE Spec => []SenderKept
<1>1. IInv => SenderKept
  BY DEF IInv, EntriesKept, SenderKept, Orphaned
<1> QED
  BY <1>1, IInvAlways, PTL
=============================================================================
