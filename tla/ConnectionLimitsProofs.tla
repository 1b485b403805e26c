------------------------ MODULE ConnectionLimitsProofs ------------------------
(***************************************************************************)
(* Two proofs of limits: rzgate closes no connection by itself while the   *)
(* server does its part, and execute sends a call at most as often as it   *)
(* makes attempts.                                                         *)
(***************************************************************************)
EXTENDS ConnectionRpcProofs, FiniteSetTheorems

-----------------------------------------------------------------------------
(* Connections that are closed, while the server answers what it was sent,  *)
(* once, and nothing else                                                   *)

\* The server answers calls, once each, and sends nothing else.
Honest == Faults \cap {"dup", "ka_reply", "garbage"} = {}

Travelling(c) == wire[c] \cup inbox[c]

\* Only calls travel, and each of them once: unanswered or answered.
TravelsOnce ==
  \A c \in Conn :
    /\ \A f \in Travelling(c) : f.req \in Req
    /\ \A f, g \in Travelling(c) : f.req = g.req => f = g
    /\ wire[c] \cap inbox[c] = {}

\* The entry of a call waits as long as its frame or its reply is under way.
EntriesWait ==
  \A c \in Conn : \A f \in Carried(c) : f.req \in Req => demux[c][f.id] = f.req

ClosedByPeer == \A c \in Conn : closed[c] => peer[c] = "gone"

HInv == SInv /\ TravelsOnce /\ EntriesWait /\ ClosedByPeer

LEMMA HInvInit == Init => HInv
<1> SUFFICES ASSUME Init PROVE HInv
  OBVIOUS
<1>1. SInv
  BY SInvInit
<1>2. TravelsOnce /\ ClosedByPeer
  BY DEF Init, TravelsOnce, Travelling, ClosedByPeer
<1>3. \A c \in Conn : Carried(c) = {}
  BY DEF Init, Carried, Queued, Elems
<1> QED
  BY <1>1, <1>2, <1>3 DEF HInv, EntriesWait

-----------------------------------------------------------------------------
(* The network                                                              *)

\* Where the frames that travel on one connection come from.
LEMMA NetworkSteps ==
  ASSUME Honest, TInv, [Next]_vars, NEW c \in Conn
  PROVE  \/ wire'[c] \subseteq wire[c] /\ inbox'[c] \subseteq inbox[c]
         \/ \E f \in wire[c] : wire'[c] = wire[c] \ {f} /\ inbox'[c] = inbox[c] \cup {f}
         \/ /\ WriteFrame(c)
            /\ sendq[c][1].req \in Req
            /\ wire'[c] = wire[c] \cup {sendq[c][1]}
            /\ inbox'[c] = inbox[c]
<1> USE DEF TInv, TypeOK, LinksTyped
<1>1. ASSUME NEW r \in Req, Call(r) \/ Choose(r) \/ Proceed(r) \/ Cancel(r)
      PROVE  wire' = wire /\ inbox' = inbox
  BY <1>1 DEF Call, Choose, NoConnection, Pick, Proceed, LateClosed, TakeId, Store, Send,
              RecvReply, RecvError, Wake, Cancel, linkVars
<1>2. ASSUME NEW d \in Conn, Connect(d) \/ WriteFail(d) \/ KeepaliveLoop(d)
      PROVE  wire' = wire /\ inbox' = inbox
  BY <1>2 DEF Connect, WriteFail, KeepaliveLoop, KeepaliveTick, KeepaliveSend
<1>3. ASSUME NEW d \in Conn, ReadLoop(d)
      PROVE  wire' = wire /\ inbox'[c] \subseteq inbox[c]
  <2>1. CASE Dispatch(d)
    BY <2>1 DEF Dispatch
  <2>2. CASE RejectFrame(d)
    BY <2>2 DEF RejectFrame
  <2>3. CASE ReadEof(d)
    BY <2>3 DEF ReadEof
  <2> QED
    BY <1>3, <2>1, <2>2, <2>3 DEF ReadLoop
<1>4. ASSUME NEW d \in Conn, WriteFrame(d)
      PROVE  \/ wire'[c] = wire[c] /\ inbox'[c] = inbox[c]
             \/ /\ d = c
                /\ sendq[c][1].req \in Req
                /\ wire'[c] = wire[c] \cup {sendq[c][1]}
                /\ inbox'[c] = inbox[c]
  <2>1. sendq[d] \in Seq(Frame) /\ sendq[d] # <<>> /\ sendq[d][1] \in Frame
    BY <1>4, HeadWritten DEF WriteFrame
  <2>2. Head(sendq[d]) = sendq[d][1]
    BY <2>1
  <2>3. inbox' = inbox
    BY <1>4 DEF WriteFrame
  <2>4. \/ wire' = wire
        \/ sendq[d][1].req # None /\ wire' = [wire EXCEPT ![d] = wire[d] \cup {sendq[d][1]}]
    BY <1>4, <2>2 DEF WriteFrame, Honest
  <2>5. sendq[d][1].req \in Req \cup {None}
    BY <2>1 DEF Frame
  <2> QED
    BY <2>3, <2>4, <2>5
<1>5. ASSUME NEW d \in Conn, ServerReply(d)
      PROVE  \/ wire'[c] = wire[c] /\ inbox'[c] = inbox[c]
             \/ \E f \in wire[c] : wire'[c] = wire[c] \ {f} /\ inbox'[c] = inbox[c] \cup {f}
  <2>1. PICK f \in wire[d] : ServerReply(d)!(f)
    BY <1>5 DEF ServerReply
  <2>2. inbox' = [inbox EXCEPT ![d] = inbox[d] \cup {f}] /\ wire' = [wire EXCEPT ![d] = wire[d] \ {f}]
    BY <2>1 DEF Honest
  <2>3. CASE d = c
    BY <2>2, <2>3
  <2>4. CASE d # c
    BY <2>2, <2>4
  <2> QED
    BY <2>3, <2>4
<1>6. ASSUME NEW d \in Conn, ServerGarbage(d) PROVE FALSE
  BY <1>6 DEF ServerGarbage, Honest
<1>7. ASSUME NEW d \in Conn, PeerClose(d)
      PROVE  wire'[c] \subseteq wire[c] /\ inbox'[c] \subseteq inbox[c]
  <2>1. PICK arrived \in SUBSET inbox[d] : inbox' = [inbox EXCEPT ![d] = arrived]
    BY <1>7 DEF PeerClose
  <2>2. wire' = [wire EXCEPT ![d] = {}]
    BY <1>7 DEF PeerClose
  <2> QED
    BY <2>1, <2>2
<1>8. CASE UNCHANGED vars
  BY <1>8 DEF vars, linkVars
<1> QED
  BY <1>1, <1>2, <1>3, <1>4, <1>5, <1>6, <1>7, <1>8 DEF Next, WriteLoop, Environment

LEMMA TravelsOnceNext == ASSUME Honest, HInv, [Next]_vars PROVE TravelsOnce'
<1> SUFFICES ASSUME NEW c \in Conn
             PROVE  /\ \A f \in Travelling(c)' : f.req \in Req
                    /\ \A f, g \in Travelling(c)' : f.req = g.req => f = g
                    /\ wire'[c] \cap inbox'[c] = {}
  BY DEF TravelsOnce
<1>1. /\ \A f \in wire[c] \cup inbox[c] : f.req \in Req
      /\ \A f, g \in wire[c] \cup inbox[c] : f.req = g.req => f = g
      /\ wire[c] \cap inbox[c] = {}
  BY DEF HInv, TravelsOnce, Travelling
<1>2. CASE wire'[c] \subseteq wire[c] /\ inbox'[c] \subseteq inbox[c]
  BY <1>1, <1>2 DEF Travelling
<1>3. CASE \E f \in wire[c] : wire'[c] = wire[c] \ {f} /\ inbox'[c] = inbox[c] \cup {f}
  BY <1>1, <1>3 DEF Travelling
<1>4. CASE /\ WriteFrame(c)
           /\ sendq[c][1].req \in Req
           /\ wire'[c] = wire[c] \cup {sendq[c][1]}
           /\ inbox'[c] = inbox[c]
  <2>1. written[sendq[c][1].req] = 0
    BY <1>4, HeadWritten DEF HInv, SInv, IInv, QueuedUnwritten
  <2>2. \A f \in wire[c] \cup inbox[c] : written[f.req] = 1
    BY <1>1 DEF HInv, SInv, TravelledWritten
  <2>3. \A f \in wire[c] \cup inbox[c] : f.req # sendq[c][1].req
    BY <2>1, <2>2
  <2> QED
    BY <1>1, <1>4, <2>3 DEF Travelling
<1> QED
  BY <1>2, <1>3, <1>4, NetworkSteps DEF HInv, SInv, IInv

-----------------------------------------------------------------------------
(* The table                                                                *)

\* A frame that is under way after a step was so before, or is just sent.
LEMMA EntriesWaitNext == ASSUME ~MayWrap, HInv, [Next]_vars PROVE EntriesWait'
<1> SUFFICES ASSUME NEW c \in Conn, NEW f \in Carried(c)', f.req \in Req
             PROVE  demux'[c][f.id] = f.req
  BY DEF EntriesWait
<1> USE DEF HInv, SInv, IInv
<1>1. ~Control(f)
  BY NoneAssumption DEF Control
<1>2. ASSUME NEW r \in Req, Send(r), conn[r] = c, f.id = id[r], f.req = r
      PROVE  demux'[c][f.id] = f.req
  <2>1. got[r] = {}
    BY <1>2 DEF Send, Unsent, UnsentAbsent, TravelledWritten
  <2>2. demux[c][id[r]] = r
    BY <1>2, <2>1 DEF Send, Listening, EntriesKept
  <2> QED
    BY <1>2, <2>2 DEF Send
<1>3. ASSUME f \in Carried(c) PROVE demux'[c][f.id] = f.req
  <2>1. demux[c][f.id] = f.req /\ f \in Frame
    BY <1>3, FrameTyped DEF EntriesWait
  <2>2. CASE UNCHANGED <<corr, demux>>
    BY <2>1, <2>2
  <2>3. ASSUME NEW r \in Req, TakeId(r) PROVE demux'[c][f.id] = f.req
    BY <2>1, <2>3 DEF TakeId
  <2>4. ASSUME NEW r \in Req, Store(r) PROVE demux'[c][f.id] = f.req
    <3>1. conn[r] = c => f.id # id[r]
      BY <1>3, <2>4 DEF Store, IdsFresh
    <3>2. demux' = [demux EXCEPT ![conn[r]] = [@ EXCEPT ![id[r]] = r]]
      BY <2>4 DEF Store, Stored
    <3> QED
      BY <2>1, <3>1, <3>2 DEF TInv, TypeOK, LinksTyped
  <2>5. ASSUME NEW d \in Conn, Dispatch(d) PROVE demux'[c][f.id] = f.req
    <3>1. PICK g \in inbox[d] : Dispatch(d)!(g)
      BY <2>5 DEF Dispatch
    <3>2. demux' = [demux EXCEPT ![d] = [@ EXCEPT ![g.id] = None]]
      BY <3>1 DEF Removed
    <3>3. CASE d # c
      BY <2>1, <3>2, <3>3 DEF TInv, TypeOK, LinksTyped
    <3>4. CASE d = c
      <4>1. g \in Carried(c) /\ g.req \in Req /\ demux[c][g.id] = g.req
        BY <3>4 DEF TravelsOnce, Travelling, Carried, EntriesWait
      <4>2. f.id # g.id
        <5> SUFFICES ASSUME f.id = g.id PROVE FALSE
          OBVIOUS
        <5>1. f.req = g.req /\ written[g.req] = 1
          BY <2>1, <3>4, <4>1 DEF TravelledWritten
        <5>2. sendq' = sendq /\ wire' = wire /\ inbox' = [inbox EXCEPT ![c] = inbox[c] \ {g}]
          BY <3>1, <3>4
        <5>3. f \notin Queued(c)
          BY <5>1 DEF Queued, Elems, QueuedUnwritten
        <5>4. f \in wire[c] \cup inbox[c] /\ f \in wire'[c] \cup inbox'[c]
          BY <1>3, <5>2, <5>3 DEF Carried, Queued, Elems
        <5>5. f = g
          BY <3>4, <5>1, <5>4 DEF TravelsOnce, Travelling
        <5>6. f \notin wire[c]
          BY <3>4, <5>5 DEF TravelsOnce
        <5> QED
          BY <5>2, <5>4, <5>5, <5>6 DEF TInv, TypeOK, LinksTyped
      <4> QED
        BY <2>1, <3>2, <3>4, <4>2 DEF TInv, TypeOK, LinksTyped
    <3> QED
      BY <3>3, <3>4
  <2> QED
    BY <2>2, <2>3, <2>4, <2>5, TableSteps
<1> QED
  BY <1>1, <1>2, <1>3, FrameSteps

\* Every reply that arrives finds its entry: no frame is rejected.
LEMMA NothingRejected == ASSUME HInv, NEW c \in Conn PROVE ~RejectFrame(c)
<1> SUFFICES ASSUME NEW f \in inbox[c], ~Known(c, f) PROVE FALSE
  BY DEF RejectFrame
<1>1. f \in Carried(c) /\ f.req \in Req
  BY DEF Carried, HInv, TravelsOnce, Travelling
<1>2. demux[c][f.id] = f.req /\ f \in Frame
  BY <1>1, FrameTyped DEF HInv, SInv, IInv, EntriesWait
<1>3. f.id \in Ids
  <2>1. Issued(c, f.id) /\ f.id \in Ids \cup {IdSpace} /\ corr[c] \in Ids
    BY <1>1, <1>2, NoneAssumption
    DEF HInv, SInv, IInv, FramesLabelled, Control, Frame, TInv, TypeOK, LinksTyped
  <2> QED
    BY <2>1, IdSpaceAssumption DEF Issued, Ids
<1> QED
  BY <1>1, <1>2, <1>3, NoneAssumption DEF Known

-----------------------------------------------------------------------------
(* The peer                                                                 *)

LEMMA ClosedByPeerNext == ASSUME HInv, [Next]_vars PROVE ClosedByPeer'
<1> USE DEF HInv, SInv, IInv, TInv, TypeOK, LinksTyped
<1>0. closed \in [Conn -> BOOLEAN] /\ peer \in [Conn -> {"none", "up", "gone"}]
  OBVIOUS
<1>1. ASSUME NEW r \in Req, Call(r) \/ Choose(r) \/ Proceed(r) \/ Cancel(r)
      PROVE  closed' = closed /\ peer' = peer
  BY <1>1 DEF Call, Choose, NoConnection, Pick, Proceed, LateClosed, TakeId, Store, Send,
              RecvReply, RecvError, Wake, Cancel, linkVars
<1>2. ASSUME NEW d \in Conn, WriteLoop(d) \/ ReadLoop(d)
      PROVE  /\ peer' = peer
             /\ \A c \in Conn : closed'[c] => closed[c] \/ peer[c] = "gone"
  BY <1>0, <1>2, NothingRejected
  DEF WriteLoop, WriteFrame, WriteFail, ReadLoop, Dispatch, ReadEof
<1>3. ASSUME NEW d \in Conn, KeepaliveLoop(d) \/ Environment(d)
      PROVE  closed' = closed /\ \A c \in Conn : peer[c] = "gone" => peer'[c] = "gone"
  BY <1>0, <1>3 DEF KeepaliveLoop, KeepaliveTick, KeepaliveSend, Environment, ServerReply,
                    ServerGarbage, PeerClose
<1>4. ASSUME NEW d \in Conn, Connect(d)
      PROVE  closed' = closed /\ \A c \in Conn : peer[c] = "gone" => peer'[c] = "gone"
  BY <1>0, <1>4 DEF Connect
<1>5. CASE UNCHANGED vars
  BY <1>5 DEF vars, linkVars, ClosedByPeer
<1>6. CASE \E r \in Req : Call(r) \/ Choose(r) \/ Proceed(r) \/ Cancel(r)
  BY <1>1, <1>6 DEF ClosedByPeer
<1>7. CASE \E d \in Conn : WriteLoop(d) \/ ReadLoop(d)
  BY <1>2, <1>7 DEF ClosedByPeer
<1>8. CASE \E d \in Conn : Connect(d) \/ KeepaliveLoop(d) \/ Environment(d)
  BY <1>3, <1>4, <1>8 DEF ClosedByPeer
<1> QED
  BY <1>5, <1>6, <1>7, <1>8 DEF Next

LEMMA HInvNext == ASSUME ~MayWrap, Honest, HInv, [Next]_vars PROVE HInv'
<1>1. SInv'
  BY SInvNext DEF HInv
<1> QED
  BY <1>1, TravelsOnceNext, EntriesWaitNext, ClosedByPeerNext DEF HInv

(* While ids do not wrap, a connection is closed only after its peer is     *)
(* gone, unless the server repeats itself, answers keepalives or sends what *)
(* cannot be read: neither cancelled calls nor late replies cost the other  *)
(* calls their connection.                                                  *)
THEOREM OnlyPeersClose == ASSUME ~MayWrap PROVE Spec => []OnlyPeerCloses
<1>1. CASE Honest
  <2>1. HInv /\ [Next]_vars => HInv'
    BY <1>1, HInvNext
  <2>2. HInv => OnlyPeerCloses
    BY DEF HInv, ClosedByPeer, OnlyPeerCloses
  <2> QED
    BY <2>1, <2>2, HInvInit, PTL DEF Spec
<1>2. CASE ~Honest
  <2>1. OnlyPeerCloses
    BY <1>2 DEF OnlyPeerCloses, Honest
  <2> QED
    BY <2>1, PTL
<1> QED
  BY <1>1, <1>2

-----------------------------------------------------------------------------
(* Copies of a call, also when ids wrap around and senders are overwritten.  *)
(* Each copy in a channel carries the number of its attempt; those that were *)
(* written are counted by the history.                                       *)

\* The attempts whose copies of r are in a channel.
Tries(r) ==
  {n \in 0 .. MaxAttempts :
     \E c \in Conn : \E i \in DOMAIN sendq[c] : sendq[c][i].req = r /\ sendq[c][i].try = n}

\* How often r may have passed Send.
Sends(r) == IF pc[r] \in {"wait", "ok", "cancelled"} THEN attempts[r] + 1 ELSE attempts[r]

\* No two copies in the channels are of the same attempt.
TriesApart ==
  \A c, d \in Conn : \A i \in DOMAIN sendq[c], j \in DOMAIN sendq[d] :
    /\ sendq[c][i].req \in Req
    /\ sendq[c][i].req = sendq[d][j].req
    /\ sendq[c][i].try = sendq[d][j].try
    => c = d /\ i = j

TriesPast == \A r \in Req : \A n \in Tries(r) : n < Sends(r)

CopiesCounted == \A r \in Req : written[r] + Cardinality(Tries(r)) <= Sends(r)

AttemptsLeft == \A r \in Req : pc[r] \in {"ok", "cancelled"} => attempts[r] < MaxAttempts

KInv == TInv /\ TriesApart /\ TriesPast /\ CopiesCounted /\ AttemptsLeft

LEMMA AttemptsFinite == IsFiniteSet(0 .. MaxAttempts)
<1>1. 0 \in Int /\ MaxAttempts \in Int
  BY DEF MaxAttempts
<1> QED
  BY <1>1, FS_Interval, Zenon

LEMMA TriesFinite ==
  ASSUME NEW r \in Req PROVE IsFiniteSet(Tries(r)) /\ Cardinality(Tries(r)) \in Nat
<1>1. IsFiniteSet(0 .. MaxAttempts)
  BY AttemptsFinite
<1>2. Tries(r) \in SUBSET (0 .. MaxAttempts)
  BY DEF Tries
<1> QED
  BY <1>1, <1>2, FS_Subset, FS_CardinalityType

LEMMA KInvInit == Init => KInv
<1> SUFFICES ASSUME Init PROVE KInv
  OBVIOUS
<1>1. TInv
  BY TInvInit
<1>2. \A r \in Req : Tries(r) = {}
  BY DEF Init, Tries
<1>3. TriesApart /\ TriesPast /\ AttemptsLeft
  BY <1>2 DEF Init, TriesApart, TriesPast, AttemptsLeft
<1>4. Cardinality({}) = 0
  BY FS_EmptySet, Zenon
<1>5. \A r \in Req : written[r] = 0 /\ Sends(r) = 0
  BY DEF Init, Sends
<1>6. CopiesCounted
  <2> SUFFICES ASSUME NEW r \in Req PROVE written[r] + Cardinality(Tries(r)) <= Sends(r)
    BY DEF CopiesCounted
  <2>1. Cardinality(Tries(r)) = 0
    BY <1>2, <1>4
  <2> QED
    BY <1>5, <2>1
<1> QED
  BY <1>1, <1>3, <1>6 DEF KInv

-----------------------------------------------------------------------------
(* The attempts                                                             *)

\* No step takes a send back, and Send makes room for one.
LEMMA SendsGrow ==
  ASSUME TInv, AttemptsLeft, [Next]_vars, NEW s \in Req
  PROVE  /\ Sends(s) \in 0 .. MaxAttempts /\ Sends(s)' \in 0 .. MaxAttempts
         /\ Sends(s)' >= Sends(s)
         /\ Send(s) => Sends(s) = attempts[s] /\ Sends(s)' = attempts[s] + 1
         /\ pc'[s] \in {"ok", "cancelled"} => attempts'[s] < MaxAttempts
<1> USE DEF TInv, TypeOK, CallsTyped, CallsHeld, AttemptsLeft, Sends, MaxAttempts, InFlight
<1>1. attempts[s] \in 0 .. 3 /\ Sends(s) \in 0 .. 3
  OBVIOUS
<1>2. ASSUME NEW r \in Req, Call(r) \/ Choose(r) \/ Cancel(r)
      PROVE  /\ Sends(s)' \in 0 .. 3 /\ Sends(s)' >= Sends(s) /\ ~Send(s)
             /\ pc'[s] \in {"ok", "cancelled"} => attempts'[s] < 3
  BY <1>1, <1>2 DEF Call, Choose, NoConnection, Pick, Cancel, FailAttempt, LastAttempt,
                    AwaitPoints, Send
<1>3. ASSUME NEW r \in Req, Proceed(r)
      PROVE  /\ Sends(s)' \in 0 .. 3 /\ Sends(s)' >= Sends(s)
             /\ Send(s) => Sends(s) = attempts[s] /\ Sends(s)' = attempts[s] + 1
             /\ pc'[s] \in {"ok", "cancelled"} => attempts'[s] < 3
  <2>1. CASE LateClosed(r) \/ RecvError(r)
    BY <1>1, <2>1 DEF LateClosed, RecvError, FailAttempt, LastAttempt, Send
  <2>2. CASE TakeId(r) \/ Store(r) \/ RecvReply(r) \/ Wake(r)
    BY <1>1, <2>2 DEF TakeId, Store, RecvReply, Wake, Send
  <2>3. CASE Send(r)
    BY <1>1, <2>3 DEF Send
  <2> QED
    BY <1>3, <2>1, <2>2, <2>3 DEF Proceed
<1>4. ASSUME NEW c \in Conn,
             Connect(c) \/ WriteLoop(c) \/ ReadLoop(c) \/ KeepaliveLoop(c) \/ Environment(c)
      PROVE  pc' = pc /\ attempts' = attempts
  BY <1>4 DEF Connect, WriteLoop, WriteFrame, WriteFail, ReadLoop, Dispatch, RejectFrame,
              ReadEof, KeepaliveLoop, KeepaliveTick, KeepaliveSend, Environment,
              ServerReply, ServerGarbage, PeerClose, callVars
<1>5. CASE UNCHANGED <<pc, attempts>>
  BY <1>1, <1>5 DEF Send
<1>6. CASE UNCHANGED vars
  BY <1>5, <1>6 DEF vars, callVars
<1> QED
  BY <1>1, <1>2, <1>3, <1>4, <1>5, <1>6 DEF Next

-----------------------------------------------------------------------------
(* The channels                                                             *)

\* What a step does to the copies of a call: some may be lost, one be added by
\* Send, one be written.
Lost(s) == Tries(s)' \subseteq Tries(s) /\ written'[s] = written[s]
Added(s) == Send(s) /\ Tries(s)' \subseteq Tries(s) \cup {attempts[s]} /\ written'[s] = written[s]
Written(s) == \E n \in Tries(s) : Tries(s)' \subseteq Tries(s) \ {n} /\ written'[s] = written[s] + 1

LEMMA QuietTries ==
  ASSUME TriesApart, written' = written, NEW s \in Req,
         \A c \in Conn : \A i \in DOMAIN sendq'[c] :
           sendq'[c][i].req \in Req => i \in DOMAIN sendq[c] /\ sendq'[c][i] = sendq[c][i]
  PROVE  TriesApart' /\ Lost(s)
<1>1. TriesApart'
  BY DEF TriesApart
<1>2. Tries(s)' \subseteq Tries(s)
  BY DEF Tries
<1> QED
  BY <1>1, <1>2 DEF Lost

LEMMA SendTries ==
  ASSUME KInv, [Next]_vars, NEW r \in Req, Send(r), NEW s \in Req
  PROVE  TriesApart' /\ (Lost(s) \/ Added(s))
<1> DEFINE g == [id |-> id[r], req |-> r, try |-> attempts[r]]
<1>1. g \in Frame /\ g.req = r /\ g.try = attempts[r] /\ conn[r] \in Conn
  BY FramesTyped DEF KInv, TInv, TypeOK, CallsTyped, CallsHeld, Holding, InFlight, Send
<1>2. sendq' = sendq \/ sendq' = [sendq EXCEPT ![conn[r]] = Append(@, g)]
  BY DEF Send
<1>3. written' = written
  BY DEF Send
<1> HIDE DEF g
<1>4. \A c \in Conn : \A i \in DOMAIN sendq'[c] :
        \/ i \in DOMAIN sendq[c] /\ sendq'[c][i] = sendq[c][i]
        \/ c = conn[r] /\ i = Len(sendq[conn[r]]) + 1 /\ sendq'[c][i] = g
  BY <1>1, <1>2, AppendPlaces DEF KInv
<1>5. \A c \in Conn : \A i \in DOMAIN sendq[c] : sendq[c][i].req = r => sendq[c][i].try # attempts[r]
  <2> SUFFICES ASSUME NEW c \in Conn, NEW i \in DOMAIN sendq[c],
                      sendq[c][i].req = r, sendq[c][i].try = attempts[r]
               PROVE  FALSE
    OBVIOUS
  <2>1. attempts[r] \in 0 .. MaxAttempts /\ Sends(r) = attempts[r]
    BY SendsGrow DEF KInv, TInv, TypeOK, CallsTyped
  <2>2. attempts[r] \in Tries(r)
    BY <2>1 DEF Tries
  <2> QED
    BY <2>1, <2>2 DEF KInv, TriesPast, MaxAttempts
<1>6. TriesApart'
  BY <1>1, <1>4, <1>5 DEF KInv, TriesApart
<1>7. s # r => Lost(s)
  BY <1>1, <1>3, <1>4 DEF Lost, Tries
<1>8. s = r => Added(s)
  BY <1>1, <1>3, <1>4 DEF Added, Tries
<1> QED
  BY <1>6, <1>7, <1>8

LEMMA WriteTries ==
  ASSUME KInv, NEW d \in Conn, WriteFrame(d), NEW s \in Req
  PROVE  TriesApart' /\ (Lost(s) \/ Written(s))
<1>1. /\ 1 \in DOMAIN sendq[d] /\ sendq[d][1] \in Frame
      /\ written' = [r \in Req |-> IF r = sendq[d][1].req THEN written[r] + 1 ELSE written[r]]
  BY HeadWritten DEF KInv
\* A copy that is left was in its channel, and it is not the one at the head.
<1>2. ASSUME NEW c \in Conn, NEW i \in DOMAIN sendq'[c], sendq'[c][i].req \in Req
      PROVE  \E j \in DOMAIN sendq[c] :
               /\ sendq'[c][i] = sendq[c][j]
               /\ j = IF c = d THEN i + 1 ELSE i
               /\ sendq[c][j].req = sendq[d][1].req => sendq[c][j].try # sendq[d][1].try
  <2>1. CASE c = d
    <3>1. i \in Nat \ {0} /\ i + 1 \in DOMAIN sendq[c] /\ sendq'[c][i] = sendq[c][i + 1]
      BY <2>1, TailPlaces DEF KInv
    <3>2. i + 1 # 1
      BY <3>1
    <3> QED
      BY <1>1, <1>2, <2>1, <3>1, <3>2 DEF KInv, TriesApart
  <2>2. CASE c # d
    <3>1. i \in DOMAIN sendq[c] /\ sendq'[c][i] = sendq[c][i]
      BY <2>2, TailPlaces DEF KInv
    <3> QED
      BY <1>1, <1>2, <2>2, <3>1 DEF KInv, TriesApart
  <2> QED
    BY <2>1, <2>2
<1>3. TriesApart'
  <2> SUFFICES ASSUME NEW c \in Conn, NEW e \in Conn,
                      NEW i \in DOMAIN sendq'[c], NEW j \in DOMAIN sendq'[e],
                      sendq'[c][i].req \in Req,
                      sendq'[c][i].req = sendq'[e][j].req,
                      sendq'[c][i].try = sendq'[e][j].try
               PROVE  c = e /\ i = j
    BY DEF TriesApart
  <2>1. PICK k \in DOMAIN sendq[c] :
          sendq'[c][i] = sendq[c][k] /\ k = IF c = d THEN i + 1 ELSE i
    BY <1>2
  <2>2. PICK l \in DOMAIN sendq[e] :
          sendq'[e][j] = sendq[e][l] /\ l = IF e = d THEN j + 1 ELSE j
    BY <1>2
  <2>3. c = e /\ k = l
    BY <2>1, <2>2 DEF KInv, TriesApart
  <2>4. c = d => i \in Nat /\ j \in Nat
    BY <2>3, TailPlaces DEF KInv
  <2> QED
    BY <2>1, <2>2, <2>3, <2>4
<1>4. Tries(s)' \subseteq Tries(s)
  BY <1>2 DEF Tries
<1>5. CASE s # sendq[d][1].req
  BY <1>1, <1>3, <1>4, <1>5 DEF Lost
<1>6. CASE s = sendq[d][1].req
  <2> DEFINE n == sendq[d][1].try
  <2>1. n \in Tries(s)
    BY <1>1, <1>6 DEF Tries, Frame
  <2>2. n \notin Tries(s)'
    BY <1>2, <1>6 DEF Tries
  <2>3. written'[s] = written[s] + 1
    BY <1>1, <1>6
  <2> HIDE DEF n
  <2> QED
    BY <1>3, <1>4, <2>1, <2>2, <2>3 DEF Written
<1> QED
  BY <1>3, <1>5, <1>6

LEMMA TriesSteps ==
  ASSUME KInv, [Next]_vars, NEW s \in Req
  PROVE  TriesApart' /\ (Lost(s) \/ Added(s) \/ Written(s))
<1>1. CASE UNCHANGED <<sendq, written>>
  BY <1>1, QuietTries DEF KInv
<1>2. ASSUME NEW d \in Conn, KeepaliveSend(d) PROVE TriesApart' /\ Lost(s)
  <2>1. KeepaliveFrame \in Frame /\ KeepaliveFrame.req \notin Req
    BY FramesTyped, NoneAssumption DEF KeepaliveFrame
  <2>2. sendq' = sendq \/ sendq' = [sendq EXCEPT ![d] = Append(@, KeepaliveFrame)]
    BY <1>2 DEF KeepaliveSend
  <2>3. \A c \in Conn : \A i \in DOMAIN sendq'[c] :
          sendq'[c][i].req \in Req => i \in DOMAIN sendq[c] /\ sendq'[c][i] = sendq[c][i]
    BY <2>1, <2>2, AppendPlaces DEF KInv
  <2> QED
    BY <1>2, <2>3, QuietTries DEF KInv, KeepaliveSend, callVars
<1>3. ASSUME NEW d \in Conn, WriteFail(d) PROVE TriesApart' /\ Lost(s)
  <2>1. \A c \in Conn : sendq'[c] = sendq[c] \/ sendq'[c] = <<>>
    BY <1>3 DEF WriteFail, KInv, TInv, TypeOK, LinksTyped
  <2>2. \A c \in Conn : \A i \in DOMAIN sendq'[c] : i \in DOMAIN sendq[c] /\ sendq'[c][i] = sendq[c][i]
    BY <2>1
  <2> QED
    BY <1>3, <2>2, QuietTries DEF KInv, WriteFail, callVars
<1> QED
  BY <1>1, <1>2, <1>3, SendTries, WriteTries, QueueSteps DEF KInv

-----------------------------------------------------------------------------
LEMMA KInvNext == ASSUME KInv, [Next]_vars PROVE KInv'
<1>1. TInv'
  BY TInvNext DEF KInv
<1>2. ASSUME NEW s \in Req
      PROVE  /\ \A n \in Tries(s)' : n < Sends(s)'
             /\ written'[s] + Cardinality(Tries(s)') <= Sends(s)'
             /\ pc'[s] \in {"ok", "cancelled"} => attempts'[s] < MaxAttempts
  <2>1. /\ IsFiniteSet(Tries(s)) /\ Cardinality(Tries(s)) \in Nat
        /\ written[s] \in Nat /\ attempts[s] \in 0 .. MaxAttempts /\ Tries(s) \subseteq 0 .. MaxAttempts
    BY TriesFinite DEF KInv, TInv, TypeOK, CallsTyped, Tries
  <2>2. IsFiniteSet(Tries(s)') /\ Cardinality(Tries(s)') \in Nat
    <3>1. Tries(s)' \in SUBSET (0 .. MaxAttempts) /\ IsFiniteSet(0 .. MaxAttempts)
      BY AttemptsFinite DEF Tries
    <3> QED
      BY <3>1, FS_Subset, FS_CardinalityType
  <2>3. /\ Sends(s) \in Nat /\ Sends(s)' \in Nat /\ Sends(s)' >= Sends(s)
        /\ Send(s) => Sends(s) = attempts[s] /\ Sends(s)' = attempts[s] + 1
        /\ pc'[s] \in {"ok", "cancelled"} => attempts'[s] < MaxAttempts
    BY SendsGrow DEF KInv, MaxAttempts
  <2>4. /\ \A n \in Tries(s) : n < Sends(s)
        /\ written[s] + Cardinality(Tries(s)) <= Sends(s)
    BY DEF KInv, TriesPast, CopiesCounted
  <2>5. CASE Lost(s)
    <3>1. Cardinality(Tries(s)') <= Cardinality(Tries(s))
      BY <2>1, <2>5, FS_Subset DEF Lost
    <3>2. \A n \in Tries(s)' : n < Sends(s)'
      BY <2>1, <2>3, <2>4, <2>5 DEF Lost, MaxAttempts
    <3> QED
      BY <2>1, <2>2, <2>3, <2>4, <2>5, <3>1, <3>2 DEF Lost
  <2>6. CASE Added(s)
    <3> DEFINE T == Tries(s) \cup {attempts[s]}
    <3>1. IsFiniteSet(T) /\ Cardinality(T) <= Cardinality(Tries(s)) + 1
      <4>1. /\ IsFiniteSet(T)
            /\ Cardinality(T) = IF attempts[s] \in Tries(s) THEN Cardinality(Tries(s))
                                                           ELSE Cardinality(Tries(s)) + 1
        BY <2>1, FS_AddElement, Zenon
      <4> HIDE DEF T
      <4> QED
        BY <2>1, <4>1
    <3>2. Cardinality(Tries(s)') <= Cardinality(T)
      BY <2>6, <3>1, FS_Subset DEF Added
    <3>3. Cardinality(T) \in Nat
      BY <3>1, FS_CardinalityType
    <3>4. \A n \in Tries(s)' : n < Sends(s)'
      BY <2>1, <2>3, <2>4, <2>6 DEF Added, MaxAttempts
    <3> HIDE DEF T
    <3>5. written'[s] = written[s] /\ Sends(s)' = Sends(s) + 1
      BY <2>3, <2>6 DEF Added
    <3> QED
      BY <2>1, <2>2, <2>3, <2>4, <3>1, <3>2, <3>3, <3>4, <3>5
  <2>7. CASE Written(s)
    <3>1. PICK n \in Tries(s) : Tries(s)' \subseteq Tries(s) \ {n} /\ written'[s] = written[s] + 1
      BY <2>7 DEF Written
    <3>2. IsFiniteSet(Tries(s) \ {n}) /\ Cardinality(Tries(s) \ {n}) = Cardinality(Tries(s)) - 1
      BY <2>1, FS_RemoveElement
    <3>3. Cardinality(Tries(s)') <= Cardinality(Tries(s)) - 1
      BY <3>1, <3>2, FS_Subset
    <3>4. \A m \in Tries(s)' : m < Sends(s)'
      BY <2>1, <2>3, <2>4, <3>1 DEF MaxAttempts
    <3> QED
      BY <2>1, <2>2, <2>3, <2>4, <3>1, <3>3, <3>4
  <2> QED
    BY <2>5, <2>6, <2>7, TriesSteps
<1>3. TriesPast' /\ CopiesCounted' /\ AttemptsLeft'
  BY <1>2 DEF TriesPast, CopiesCounted, AttemptsLeft
<1>4. TriesApart'
  <2>1. CASE Req = {}
    BY <2>1 DEF TriesApart
  <2>2. CASE Req # {}
    BY <2>2, TriesSteps
  <2> QED
    BY <2>1, <2>2
<1> QED
  BY <1>1, <1>3, <1>4 DEF KInv

(* Whatever the server and the network do, whether or not ids wrap and      *)
(* entries are overwritten: a call reaches a socket at most as often as     *)
(* execute may try.                                                         *)
THEOREM CopiesStayBounded == Spec => []CopiesBounded
<1>1. KInv => CopiesBounded
  <2> SUFFICES ASSUME KInv, NEW r \in Req PROVE written[r] <= MaxAttempts
    BY DEF CopiesBounded
  <2>1. written[r] + Cardinality(Tries(r)) <= Sends(r) /\ Cardinality(Tries(r)) \in Nat
    BY TriesFinite DEF KInv, CopiesCounted
  <2>2. written[r] \in Nat /\ Sends(r) \in 0 .. MaxAttempts
    BY DEF KInv, TInv, TypeOK, CallsTyped, CallsHeld, InFlight, Final, Sends, AttemptsLeft, MaxAttempts
  <2> QED
    BY <2>1, <2>2 DEF MaxAttempts
<1>2. KInv /\ [Next]_vars => KInv'
  BY KInvNext
<1> QED
  BY <1>1, <1>2, KInvInit, PTL DEF Spec
=============================================================================
