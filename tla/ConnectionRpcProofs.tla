------------------------ MODULE ConnectionRpcProofs ------------------------
(***************************************************************************)
(* Proofs that a call reaches a socket at most once, that a refused call   *)
(* reaches none, and that execute over connections implements module Rpc.  *)
(***************************************************************************)
EXTENDS ConnectionProofs

\* Nothing of the call has entered a channel.
Unsent(r) == pc[r] \in {"idle", "pick", "got", "store", "send", "sleep", "unreachable"}

UnsentAbsent ==
  \A r \in Req : Unsent(r) =>
    written[r] = 0 /\ \A c \in Conn : \A i \in DOMAIN sendq[c] : sendq[c][i].req # r

QueuedUnwritten ==
  \A c \in Conn : \A i \in DOMAIN sendq[c] :
    sendq[c][i].req \in Req => written[sendq[c][i].req] = 0

QueuedOnce ==
  \A c, d \in Conn : \A i \in DOMAIN sendq[c], j \in DOMAIN sendq[d] :
    sendq[c][i].req \in Req /\ sendq[c][i].req = sendq[d][j].req => c = d /\ i = j

\* What travels on the network, and what was answered, was written.
TravelledWritten ==
  /\ \A c \in Conn : \A f \in wire[c] \cup inbox[c] : f.req \in Req => written[f.req] = 1
  /\ \A r \in Req : got[r] # {} => written[r] = 1

\* How a call may have ended.
Ended == \A r \in Req : pc[r] # "timeout" /\ (pc[r] = "ok" => got[r] # {})

SInv == /\ IInv /\ UnsentAbsent /\ QueuedUnwritten /\ QueuedOnce /\ AtMostOnce
        /\ TravelledWritten /\ Ended

LEMMA SInvInit == Init => SInv
<1> SUFFICES ASSUME Init PROVE SInv
  OBVIOUS
<1>1. IInv
  BY IInvInit
<1>2. UnsentAbsent /\ QueuedUnwritten /\ QueuedOnce
  BY DEF Init, UnsentAbsent, QueuedUnwritten, QueuedOnce
<1>3. AtMostOnce /\ TravelledWritten /\ Ended
  BY DEF Init, AtMostOnce, TravelledWritten, Ended
<1> QED
  BY <1>1, <1>2, <1>3 DEF SInv

-----------------------------------------------------------------------------
(* What a step may do to the channels, to the history and to the calls      *)

LEMMA NoRecvError == ASSUME IInv, NEW r \in Req PROVE ~RecvError(r)
  BY DEF IInv, EntriesKept, RecvError, Orphaned, Listening

LEMMA QueueSteps ==
  ASSUME TInv, [Next]_vars
  PROVE  \/ UNCHANGED <<sendq, written>>
         \/ \E r \in Req : Send(r)
         \/ \E c \in Conn : KeepaliveSend(c) \/ WriteFail(c) \/ WriteFrame(c)
<1>1. ASSUME NEW r \in Req, Call(r) \/ Choose(r) \/ Proceed(r) \/ Cancel(r), ~Send(r)
      PROVE  UNCHANGED <<sendq, written>>
  BY <1>1 DEF Call, Choose, NoConnection, Pick, Proceed, LateClosed, TakeId, Store,
              RecvReply, RecvError, Wake, Cancel, linkVars
<1>2. ASSUME NEW c \in Conn, Connect(c) \/ ReadLoop(c) \/ KeepaliveTick(c) \/ Environment(c)
      PROVE  UNCHANGED <<sendq, written>>
  BY <1>2 DEF Connect, ReadLoop, Dispatch, RejectFrame, ReadEof, KeepaliveTick, Environment,
              ServerReply, ServerGarbage, PeerClose, callVars
<1>3. CASE UNCHANGED vars
  BY <1>3 DEF vars, callVars, linkVars
<1> QED
  BY <1>1, <1>2, <1>3 DEF Next, WriteLoop, KeepaliveLoop

\* A call that is unsent after a step was unsent before, and did not send.
LEMMA UnsentSteps ==
  ASSUME IInv, [Next]_vars, NEW s \in Req, Unsent(s)' PROVE Unsent(s) /\ ~Send(s)
<1> USE DEF IInv, TInv, TypeOK, CallsTyped, Unsent
<1>1. ASSUME NEW r \in Req, Call(r) \/ Choose(r) \/ Cancel(r) PROVE Unsent(s) /\ ~Send(s)
  BY <1>1 DEF Call, Choose, NoConnection, Pick, Cancel, FailAttempt, Send
<1>2. ASSUME NEW r \in Req, Proceed(r) PROVE Unsent(s) /\ ~Send(s)
  BY <1>2, NoRecvError DEF Proceed, LateClosed, TakeId, Store, Send, RecvReply, Wake, FailAttempt
<1>3. ASSUME pc' = pc PROVE Unsent(s) /\ ~Send(s)
  BY <1>3 DEF Send
<1>4. ASSUME NEW c \in Conn,
             Connect(c) \/ WriteLoop(c) \/ ReadLoop(c) \/ KeepaliveLoop(c) \/ Environment(c)
      PROVE  pc' = pc
  BY <1>4 DEF Connect, WriteLoop, WriteFrame, WriteFail, ReadLoop, Dispatch, RejectFrame,
              ReadEof, KeepaliveLoop, KeepaliveTick, KeepaliveSend, Environment,
              ServerReply, ServerGarbage, PeerClose, callVars
<1>5. CASE UNCHANGED vars
  BY <1>3, <1>5 DEF vars, callVars
<1> QED
  BY <1>1, <1>2, <1>3, <1>4, <1>5 DEF Next

\* A place of a channel after a step that appends g, if it appends at all.
LEMMA AppendPlaces ==
  ASSUME TInv, NEW d \in Conn, NEW g \in Frame,
         sendq' = sendq \/ sendq' = [sendq EXCEPT ![d] = Append(@, g)],
         NEW c \in Conn, NEW i \in DOMAIN sendq'[c]
  PROVE  \/ i \in DOMAIN sendq[c] /\ sendq'[c][i] = sendq[c][i]
         \/ c = d /\ i = Len(sendq[d]) + 1 /\ sendq'[c][i] = g
<1>1. sendq[c] \in Seq(Frame) /\ sendq[d] \in Seq(Frame)
  BY DEF TInv, TypeOK, LinksTyped
<1>2. CASE sendq'[c] = sendq[c]
  BY <1>2
<1>3. CASE c = d /\ sendq'[c] = Append(sendq[d], g)
  BY <1>1, <1>3
<1> QED
  BY <1>2, <1>3 DEF TInv, TypeOK, LinksTyped

\* A place of a channel after its head was written: one further before.
LEMMA TailPlaces ==
  ASSUME TInv, NEW d \in Conn, WriteFrame(d), NEW c \in Conn, NEW i \in DOMAIN sendq'[c]
  PROVE  /\ c # d => i \in DOMAIN sendq[c] /\ sendq'[c][i] = sendq[c][i]
         /\ c = d => /\ i \in Nat \ {0} /\ i + 1 \in DOMAIN sendq[c]
                     /\ sendq'[c][i] = sendq[c][i + 1]
<1>1. sendq[d] \in Seq(Frame) /\ sendq[d] # <<>>
  BY DEF WriteFrame, TInv, TypeOK, LinksTyped
<1>2. c # d => sendq'[c] = sendq[c]
  BY DEF WriteFrame, TInv, TypeOK, LinksTyped
<1>3. c = d => sendq'[c] = Tail(sendq[c])
  BY DEF WriteFrame, TInv, TypeOK, LinksTyped
<1>4. CASE c = d
  <2> DEFINE q == sendq[d]
  <2>1. q \in Seq(Frame) /\ q # <<>> /\ sendq[c] = q /\ sendq'[c] = Tail(q)
    BY <1>1, <1>3, <1>4
  <2> HIDE DEF q
  <2>2. Tail(q) \in Seq(Frame) /\ Len(Tail(q)) = Len(q) - 1 /\ Len(q) \in Nat
    BY <2>1, HeadTailProperties
  <2>3. i \in 1 .. Len(Tail(q))
    BY <2>1, <2>2
  <2>4. Tail(q)[i] = q[i + 1]
    BY <2>1, <2>3, HeadTailProperties
  <2>5. i \in Nat \ {0} /\ i + 1 \in 1 .. Len(q)
    BY <2>2, <2>3
  <2>6. i + 1 \in DOMAIN q
    BY <2>1, <2>5
  <2> QED
    BY <1>4, <2>1, <2>4, <2>5, <2>6
<1> QED
  BY <1>2, <1>4

\* The frame that is written, and what it does to the history.
LEMMA HeadWritten ==
  ASSUME TInv, NEW d \in Conn, WriteFrame(d)
  PROVE  /\ 1 \in DOMAIN sendq[d] /\ sendq[d][1] \in Frame
         /\ written' = [r \in Req |-> IF r = sendq[d][1].req THEN written[r] + 1 ELSE written[r]]
         /\ \A c \in Conn : wire'[c] \subseteq wire[c] \cup {sendq[d][1]}
         /\ inbox' = inbox /\ got' = got /\ pc' = pc
<1>1. sendq[d] \in Seq(Frame) /\ sendq[d] # <<>>
  BY DEF WriteFrame, TInv, TypeOK, LinksTyped
<1>2. Len(sendq[d]) \in Nat \ {0}
  BY <1>1, EmptySeq
<1>3. 1 \in DOMAIN sendq[d] /\ sendq[d][1] \in Frame /\ Head(sendq[d]) = sendq[d][1]
  BY <1>1, <1>2
<1>4. \A c \in Conn : wire'[c] \subseteq wire[c] \cup {Head(sendq[d])}
  BY DEF WriteFrame, TInv, TypeOK, LinksTyped
<1> QED
  BY <1>3, <1>4 DEF WriteFrame

-----------------------------------------------------------------------------
(* The channels and the history, for each kind of step                      *)

ChannelInv == UnsentAbsent /\ QueuedUnwritten /\ QueuedOnce /\ AtMostOnce

LEMMA SendChannel ==
  ASSUME SInv, [Next]_vars, NEW r \in Req, Send(r) PROVE ChannelInv'
<1> DEFINE g == [id |-> id[r], req |-> r, try |-> attempts[r]]
<1>1. g \in Frame /\ g.req = r /\ conn[r] \in Conn
  BY FramesTyped DEF SInv, IInv, TInv, TypeOK, CallsTyped, CallsHeld, Holding, InFlight, Send
<1>2. sendq' = sendq \/ sendq' = [sendq EXCEPT ![conn[r]] = Append(@, g)]
  BY DEF Send
<1>3. written' = written /\ written[r] = 0
  BY DEF Send, SInv, UnsentAbsent, Unsent
<1>4. \A c \in Conn : \A i \in DOMAIN sendq[c] : sendq[c][i].req # r
  BY DEF Send, SInv, UnsentAbsent, Unsent
<1> HIDE DEF g
<1>5. \A c \in Conn : \A i \in DOMAIN sendq'[c] :
        \/ i \in DOMAIN sendq[c] /\ sendq'[c][i] = sendq[c][i]
        \/ c = conn[r] /\ i = Len(sendq[conn[r]]) + 1 /\ sendq'[c][i] = g
  BY <1>1, <1>2, AppendPlaces DEF SInv, IInv
<1>6. UnsentAbsent'
  <2> SUFFICES ASSUME NEW s \in Req, Unsent(s)'
               PROVE  written'[s] = 0 /\ \A c \in Conn : \A i \in DOMAIN sendq'[c] : sendq'[c][i].req # s
    BY DEF UnsentAbsent, Unsent
  <2>1. Unsent(s) /\ s # r
    BY UnsentSteps DEF SInv
  <2> QED
    BY <1>1, <1>3, <1>5, <2>1 DEF SInv, UnsentAbsent
<1>7. QueuedUnwritten'
  BY <1>1, <1>3, <1>5 DEF SInv, QueuedUnwritten
<1>8. QueuedOnce'
  BY <1>1, <1>4, <1>5 DEF SInv, QueuedOnce
<1>9. AtMostOnce'
  BY <1>3 DEF SInv, AtMostOnce
<1> QED
  BY <1>6, <1>7, <1>8, <1>9 DEF ChannelInv

LEMMA KeepaliveChannel ==
  ASSUME SInv, [Next]_vars, NEW d \in Conn, KeepaliveSend(d) PROVE ChannelInv'
<1>1. KeepaliveFrame \in Frame /\ KeepaliveFrame.req \notin Req
  BY FramesTyped, NoneAssumption DEF KeepaliveFrame
<1>2. sendq' = sendq \/ sendq' = [sendq EXCEPT ![d] = Append(@, KeepaliveFrame)]
  BY DEF KeepaliveSend
<1>3. written' = written
  BY DEF KeepaliveSend, callVars
<1>4. \A c \in Conn : \A i \in DOMAIN sendq'[c] :
        sendq'[c][i].req \in Req => i \in DOMAIN sendq[c] /\ sendq'[c][i] = sendq[c][i]
  BY <1>1, <1>2, AppendPlaces DEF SInv, IInv
<1>5. UnsentAbsent'
  <2> SUFFICES ASSUME NEW s \in Req, Unsent(s)'
               PROVE  written'[s] = 0 /\ \A c \in Conn : \A i \in DOMAIN sendq'[c] : sendq'[c][i].req # s
    BY DEF UnsentAbsent, Unsent
  <2>1. Unsent(s)
    BY UnsentSteps DEF SInv
  <2> QED
    BY <1>3, <1>4, <2>1 DEF SInv, UnsentAbsent
<1>6. QueuedUnwritten'
  BY <1>3, <1>4 DEF SInv, QueuedUnwritten
<1>7. QueuedOnce'
  BY <1>4 DEF SInv, QueuedOnce
<1>8. AtMostOnce'
  BY <1>3 DEF SInv, AtMostOnce
<1> QED
  BY <1>5, <1>6, <1>7, <1>8 DEF ChannelInv

\* Every other step that does not write leaves the channels, or empties one.
LEMMA QuietChannel ==
  ASSUME SInv, [Next]_vars, written' = written,
         \A c \in Conn : sendq'[c] = sendq[c] \/ sendq'[c] = <<>>
  PROVE  ChannelInv'
<1>1. \A c \in Conn : \A i \in DOMAIN sendq'[c] : i \in DOMAIN sendq[c] /\ sendq'[c][i] = sendq[c][i]
  OBVIOUS
<1>2. UnsentAbsent'
  <2> SUFFICES ASSUME NEW s \in Req, Unsent(s)'
               PROVE  written'[s] = 0 /\ \A c \in Conn : \A i \in DOMAIN sendq'[c] : sendq'[c][i].req # s
    BY DEF UnsentAbsent, Unsent
  <2>1. Unsent(s)
    BY UnsentSteps DEF SInv
  <2> QED
    BY <1>1, <2>1 DEF SInv, UnsentAbsent
<1>3. QueuedUnwritten' /\ QueuedOnce' /\ AtMostOnce'
  BY <1>1 DEF SInv, QueuedUnwritten, QueuedOnce, AtMostOnce
<1> QED
  BY <1>2, <1>3 DEF ChannelInv

LEMMA WriteChannel ==
  ASSUME SInv, [Next]_vars, NEW d \in Conn, WriteFrame(d) PROVE ChannelInv'
<1>1. /\ 1 \in DOMAIN sendq[d]
      /\ written' = [r \in Req |-> IF r = sendq[d][1].req THEN written[r] + 1 ELSE written[r]]
  BY HeadWritten DEF SInv, IInv
\* What is left in the channels is not the call that was written.
<1>2. ASSUME NEW c \in Conn, NEW i \in DOMAIN sendq'[c], sendq'[c][i].req \in Req
      PROVE  \E j \in DOMAIN sendq[c] : /\ sendq'[c][i] = sendq[c][j]
                                        /\ j = IF c = d THEN i + 1 ELSE i
                                        /\ sendq[c][j].req # sendq[d][1].req
  <2>1. CASE c = d
    <3>1. i \in Nat \ {0} /\ i + 1 \in DOMAIN sendq[c] /\ sendq'[c][i] = sendq[c][i + 1]
      BY <2>1, TailPlaces DEF SInv, IInv
    <3>2. i + 1 # 1
      BY <3>1
    <3> QED
      BY <1>1, <1>2, <2>1, <3>1, <3>2 DEF SInv, QueuedOnce
  <2>2. CASE c # d
    <3>1. i \in DOMAIN sendq[c] /\ sendq'[c][i] = sendq[c][i]
      BY <2>2, TailPlaces DEF SInv, IInv
    <3> QED
      BY <1>1, <1>2, <2>2, <3>1 DEF SInv, QueuedOnce
  <2> QED
    BY <2>1, <2>2
<1>3. UnsentAbsent'
  <2> SUFFICES ASSUME NEW s \in Req, Unsent(s)'
               PROVE  written'[s] = 0 /\ \A c \in Conn : \A i \in DOMAIN sendq'[c] : sendq'[c][i].req # s
    BY DEF UnsentAbsent, Unsent
  <2>1. Unsent(s)
    BY UnsentSteps DEF SInv
  <2> QED
    BY <1>1, <1>2, <2>1 DEF SInv, UnsentAbsent
<1>4. QueuedUnwritten'
  BY <1>1, <1>2 DEF SInv, QueuedUnwritten
<1>5. QueuedOnce'
  <2> SUFFICES ASSUME NEW c \in Conn, NEW e \in Conn,
                      NEW i \in DOMAIN sendq'[c], NEW j \in DOMAIN sendq'[e],
                      sendq'[c][i].req \in Req, sendq'[c][i].req = sendq'[e][j].req
               PROVE  c = e /\ i = j
    BY DEF QueuedOnce
  <2>1. PICK k \in DOMAIN sendq[c] :
          sendq'[c][i] = sendq[c][k] /\ k = IF c = d THEN i + 1 ELSE i
    BY <1>2
  <2>2. PICK l \in DOMAIN sendq[e] :
          sendq'[e][j] = sendq[e][l] /\ l = IF e = d THEN j + 1 ELSE j
    BY <1>2
  <2>3. c = e /\ k = l
    BY <2>1, <2>2 DEF SInv, QueuedOnce
  <2>4. c = d => i \in Nat /\ j \in Nat
    BY <2>3, TailPlaces DEF SInv, IInv
  <2> QED
    BY <2>1, <2>2, <2>3, <2>4
<1>6. AtMostOnce'
  <2> SUFFICES ASSUME NEW r \in Req PROVE written'[r] <= 1
    BY DEF AtMostOnce
  <2>1. r = sendq[d][1].req => written[r] = 0
    BY <1>1 DEF SInv, QueuedUnwritten
  <2> QED
    BY <1>1, <2>1 DEF SInv, AtMostOnce
<1> QED
  BY <1>3, <1>4, <1>5, <1>6 DEF ChannelInv

LEMMA ChannelNext == ASSUME SInv, [Next]_vars PROVE ChannelInv'
<1>1. CASE UNCHANGED <<sendq, written>>
  BY <1>1, QuietChannel
<1>2. ASSUME NEW c \in Conn, WriteFail(c) PROVE ChannelInv'
  BY <1>2, QuietChannel DEF WriteFail, callVars, SInv, IInv, TInv, TypeOK, LinksTyped
<1> QED
  BY <1>1, <1>2, SendChannel, KeepaliveChannel, WriteChannel, QueueSteps DEF SInv, IInv

-----------------------------------------------------------------------------
(* The network, the answers and the ends of the calls                       *)

\* The history of a call never goes down, and stays at one once it is there.
LEMMA WrittenGrows ==
  ASSUME SInv, [Next]_vars, NEW r \in Req, written[r] = 1 PROVE written'[r] = 1
<1>1. written' = written \/ \E d \in Conn : WriteFrame(d)
  BY QueueSteps DEF SInv, IInv, Send, KeepaliveSend, WriteFail, callVars
<1>2. ASSUME NEW d \in Conn, WriteFrame(d) PROVE written'[r] = 1
  <2>1. /\ 1 \in DOMAIN sendq[d]
        /\ written' = [s \in Req |-> IF s = sendq[d][1].req THEN written[s] + 1 ELSE written[s]]
    BY <1>2, HeadWritten DEF SInv, IInv
  <2>2. r # sendq[d][1].req
    BY <2>1 DEF SInv, QueuedUnwritten
  <2> QED
    BY <2>1, <2>2
<1> QED
  BY <1>1, <1>2

\* What appears on the network with a call was written just now.
LEMMA TravelSteps ==
  ASSUME TInv, [Next]_vars, NEW c \in Conn,
         NEW f \in (wire'[c] \cup inbox'[c]) \ (wire[c] \cup inbox[c]), f.req \in Req
  PROVE  \E d \in Conn : WriteFrame(d) /\ f = sendq[d][1]
<1> USE DEF TInv, TypeOK, LinksTyped
<1>1. ASSUME UNCHANGED <<wire, inbox>> PROVE FALSE
  BY <1>1
<1>2. ASSUME NEW r \in Req, Call(r) \/ Choose(r) \/ Proceed(r) \/ Cancel(r)
      PROVE  UNCHANGED <<wire, inbox>>
  BY <1>2 DEF Call, Choose, NoConnection, Pick, Proceed, LateClosed, TakeId, Store, Send,
              RecvReply, RecvError, Wake, Cancel, linkVars
<1>3. ASSUME NEW d \in Conn, Connect(d) \/ WriteFail(d) \/ KeepaliveLoop(d)
      PROVE  UNCHANGED <<wire, inbox>>
  BY <1>3 DEF Connect, WriteFail, KeepaliveLoop, KeepaliveTick, KeepaliveSend
<1>4. ASSUME NEW d \in Conn, ReadLoop(d) \/ Environment(d) PROVE FALSE
  <2>1. GarbageFrame.req \notin Req
    BY NoneAssumption DEF GarbageFrame
  <2>2. /\ wire'[c] \subseteq wire[c]
        /\ inbox'[c] \subseteq inbox[c] \cup wire[c] \cup {GarbageFrame}
    <3>1. CASE ReadLoop(d)
      <4>1. wire' = wire /\ inbox'[c] \subseteq inbox[c]
        <5>1. CASE Dispatch(d)
          BY <5>1 DEF Dispatch
        <5>2. CASE RejectFrame(d)
          BY <5>2 DEF RejectFrame
        <5>3. CASE ReadEof(d)
          BY <5>3 DEF ReadEof
        <5> QED
          BY <3>1, <5>1, <5>2, <5>3 DEF ReadLoop
      <4> QED
        BY <4>1
    <3>2. CASE ServerReply(d)
      BY <3>2 DEF ServerReply
    <3>3. CASE ServerGarbage(d)
      BY <3>3 DEF ServerGarbage
    <3>4. CASE PeerClose(d)
      <4>1. PICK arrived \in SUBSET inbox[d] : inbox' = [inbox EXCEPT ![d] = arrived]
        BY <3>4 DEF PeerClose
      <4>2. wire' = [wire EXCEPT ![d] = {}]
        BY <3>4 DEF PeerClose
      <4>3. inbox'[c] \subseteq inbox[c]
        BY <4>1
      <4>4. wire'[c] \subseteq wire[c]
        BY <4>2
      <4> QED
        BY <4>3, <4>4
    <3> QED
      BY <1>4, <3>1, <3>2, <3>3, <3>4 DEF Environment
  <2> QED
    BY <2>1, <2>2
<1>5. ASSUME NEW d \in Conn, WriteFrame(d) PROVE f = sendq[d][1]
  BY <1>5, HeadWritten
<1>6. CASE UNCHANGED vars
  BY <1>1, <1>6 DEF vars, linkVars
<1> QED
  BY <1>1, <1>2, <1>3, <1>4, <1>5, <1>6 DEF Next, WriteLoop

LEMMA TravelledNext == ASSUME ~MayWrap, SInv, [Next]_vars PROVE TravelledWritten'
<1>1. ASSUME NEW c \in Conn, NEW f \in wire'[c] \cup inbox'[c], f.req \in Req
      PROVE  written'[f.req] = 1
  <2>1. CASE f \in wire[c] \cup inbox[c]
    BY <1>1, <2>1, WrittenGrows DEF SInv, TravelledWritten
  <2>2. CASE f \notin wire[c] \cup inbox[c]
    <3>1. PICK d \in Conn : WriteFrame(d) /\ f = sendq[d][1]
      BY <1>1, <2>2, TravelSteps DEF SInv, IInv
    <3>2. written[f.req] = 0
      BY <1>1, <3>1, HeadWritten DEF SInv, IInv, QueuedUnwritten
    <3> QED
      BY <1>1, <3>1, <3>2, HeadWritten DEF SInv, IInv
  <2> QED
    BY <2>1, <2>2
<1>2. ASSUME NEW r \in Req, got'[r] # {} PROVE written'[r] = 1
  <2>1. CASE got[r] # {}
    BY <2>1, WrittenGrows DEF SInv, TravelledWritten
  <2>2. CASE got[r] = {}
    <3>1. PICK c \in Conn : Dispatch(c)
      BY <1>2, <2>2, GotSteps DEF SInv, IInv
    <3>2. PICK f \in inbox[c] : Dispatch(c)!(f)
      BY <3>1 DEF Dispatch
    <3>3. got'[r] \in {got[r], {f.req}}
      BY <3>2 DEF SInv, IInv, TInv, TypeOK, CallsTyped
    <3>4. ReplyMatches'
      BY ReplyMatchesNext DEF SInv
    <3>5. f.req = r
      BY <1>2, <2>2, <3>3, <3>4 DEF ReplyMatches
    <3> QED
      BY <3>2, <3>5, WrittenGrows DEF SInv, TravelledWritten
  <2> QED
    BY <2>1, <2>2
<1> QED
  BY <1>1, <1>2 DEF TravelledWritten

LEMMA EndedNext == ASSUME SInv, [Next]_vars PROVE Ended'
<1> SUFFICES ASSUME NEW s \in Req
             PROVE  pc'[s] # "timeout" /\ (pc'[s] = "ok" => got'[s] # {})
  BY DEF Ended
<1>0. TInv
  BY DEF SInv, IInv
<1>1. got'[s] # {} \/ got'[s] = got[s]
  <2>1. CASE got'[s] = got[s]
    BY <2>1
  <2>2. ASSUME NEW c \in Conn, Dispatch(c) PROVE got'[s] # {} \/ got'[s] = got[s]
    <3>1. PICK r \in Req : got' = [got EXCEPT ![r] = {r}] \/ got' = got
      BY <2>2, DispatchSteps DEF SInv
    <3>2. got \in [Req -> SUBSET (Req \cup {None})]
      BY <1>0 DEF TInv, TypeOK, CallsTyped
    <3> QED
      BY <3>1, <3>2
  <2> QED
    BY <1>0, <2>1, <2>2, GotSteps
<1> USE DEF SInv, IInv, TInv, TypeOK, CallsTyped, Ended
<1>2. pc'[s] # "timeout" /\ (pc'[s] = "ok" => got[s] # {})
  <2>1. ASSUME NEW r \in Req, Call(r) \/ Choose(r) \/ Cancel(r)
        PROVE  pc'[s] = pc[s] \/ pc'[s] \notin {"timeout", "ok"}
    BY <2>1 DEF Call, Choose, NoConnection, Pick, Cancel, FailAttempt
  <2>2. ASSUME NEW r \in Req, Proceed(r), ~RecvReply(r)
        PROVE  pc'[s] = pc[s] \/ pc'[s] \notin {"timeout", "ok"}
    BY <2>2, NoRecvError DEF Proceed, LateClosed, TakeId, Store, Send, Wake, FailAttempt
  <2>3. ASSUME NEW r \in Req, RecvReply(r)
        PROVE  pc'[s] = pc[s] \/ (pc'[s] = "ok" /\ got[s] # {})
    BY <2>3 DEF RecvReply
  <2>4. ASSUME NEW c \in Conn,
               Connect(c) \/ WriteLoop(c) \/ ReadLoop(c) \/ KeepaliveLoop(c) \/ Environment(c)
        PROVE  pc' = pc
    BY <2>4 DEF Connect, WriteLoop, WriteFrame, WriteFail, ReadLoop, Dispatch, RejectFrame,
                ReadEof, KeepaliveLoop, KeepaliveTick, KeepaliveSend, Environment,
                ServerReply, ServerGarbage, PeerClose, callVars
  <2>5. CASE UNCHANGED vars
    BY <2>5 DEF vars, callVars
  <2>6. pc[s] # "timeout" /\ (pc[s] = "ok" => got[s] # {})
    OBVIOUS
  <2>7. \/ pc'[s] = pc[s]
        \/ pc'[s] \notin {"timeout", "ok"}
        \/ pc'[s] = "ok" /\ got[s] # {}
    BY <2>1, <2>2, <2>3, <2>4, <2>5 DEF Next
  <2> QED
    BY <2>6, <2>7
<1> QED
  BY <1>1, <1>2

LEMMA SInvNext == ASSUME ~MayWrap, SInv, [Next]_vars PROVE SInv'
<1>1. IInv'
  BY IInvNext DEF SInv
<1> QED
  BY <1>1, ChannelNext, TravelledNext, EndedNext DEF SInv, ChannelInv

LEMMA SInvAlways == ASSUME ~MayWrap PROVE Spec => []SInv
<1>1. SInv /\ [Next]_vars => SInv'
  BY SInvNext
<1> QED
  BY <1>1, SInvInit, PTL DEF Spec

(* Whatever retries, cancellations and lost connections do, a call is       *)
(* written to a socket at most once.                                        *)
THEOREM CallsAtMostOnce == ASSUME ~MayWrap PROVE Spec => []AtMostOnce
<1>1. SInv => AtMostOnce
  BY DEF SInv
<1> QED
  BY <1>1, SInvAlways, PTL

(* A call refused as unreachable was never written and waits in no channel, *)
(* so it is safe to repeat.                                                 *)
THEOREM RefusedNeverSent == ASSUME ~MayWrap PROVE Spec => []RefusedUnsent
<1>1. SInv => RefusedUnsent
  BY DEF SInv, UnsentAbsent, Unsent, RefusedUnsent
<1> QED
  BY <1>1, SInvAlways, PTL

-----------------------------------------------------------------------------
(* Refinement: every step is a step of module Rpc, or a stutter.            *)

\* How the phase of a call follows its pc.
LEMMA PhaseOf ==
  ASSUME SInv, NEW r \in Req
  PROVE  /\ pc[r] = "idle" => Phase(r) = "idle"
         /\ pc[r] \in InFlight => Phase(r) = "busy"
         /\ pc[r] = "ok" => Phase(r) = "ok"
         /\ pc[r] = "unreachable" => Phase(r) = "refused"
         /\ pc[r] = "cancelled" => Phase(r) = "abandoned"
<1>1. pc[r] = "ok" => got[r] = {r}
  BY DEF SInv, Ended, IInv, ReplyMatches
<1> QED
  BY <1>1 DEF Phase, InFlight

LEMMA RpcInit == Init => Abstract!Init
<1> SUFFICES ASSUME Init PROVE Abstract!Init
  OBVIOUS
<1>1. \A r \in Req : Phase(r) = "idle"
  <2>1. \A r \in Req : pc[r] = "idle"
    BY DEF Init
  <2> QED
    BY <2>1 DEF Phase, InFlight
<1> QED
  BY <1>1 DEF Init, Abstract!Init

LEMMA RpcStep ==
  ASSUME ~MayWrap, SInv, [Next]_vars
  PROVE  [Abstract!Next]_(Abstract!rpcVars)
<1> USE DEF SInv, IInv, TInv, TypeOK, CallsTyped
<1>1. SInv'
  BY SInvNext
<1>2. ASSUME pc' = pc PROVE \A r \in Req : Phase(r)' = Phase(r)
  <2>1. \A r \in Req : pc[r] = "ok" => got[r] = {r} /\ got'[r] = {r}
    BY <1>1, <1>2 DEF Ended, ReplyMatches
  <2> QED
    BY <1>2, <2>1 DEF Phase
<1>3. CASE pc' = pc /\ written' = written
  <2>1. \A r \in Req : Phase(r)' = Phase(r)
    BY <1>2, <1>3
  <2> QED
    BY <1>3, <2>1 DEF Abstract!rpcVars
\* A step of one call.
<1>4. ASSUME NEW r \in Req, NEW p, written' = written, pc' = [pc EXCEPT ![r] = p]
      PROVE  [s \in Req |-> Phase(s)]' = [[s \in Req |-> Phase(s)] EXCEPT ![r] = Phase(r)']
  <2>1. \A s \in Req \ {r} : pc'[s] = pc[s]
    BY <1>4
  <2>2. \A s \in Req : pc'[s] = "ok" => got'[s] = {s}
    BY <1>1 DEF Ended, ReplyMatches
  <2>3. \A s \in Req : pc[s] = "ok" => got[s] = {s}
    BY DEF Ended, ReplyMatches
  <2>4. \A s \in Req \ {r} : Phase(s)' = Phase(s)
    BY <2>1, <2>2, <2>3 DEF Phase
  <2> QED
    BY <2>4
<1>5. ASSUME NEW r \in Req, Call(r) PROVE Abstract!Submit(r)
  <2>1. Phase(r) = "idle" /\ Phase(r)' = "busy"
    BY <1>1, <1>5 DEF Call, Phase, InFlight
  <2> QED
    BY <1>4, <1>5, <2>1 DEF Call, Abstract!Submit, Abstract!Become
<1>6. ASSUME NEW r \in Req, Cancel(r) PROVE Abstract!Abandon(r)
  <2>1. Phase(r) = "busy" /\ Phase(r)' = "abandoned"
    BY <1>1, <1>6 DEF Cancel, Phase, InFlight, AwaitPoints
  <2> QED
    BY <1>4, <1>6, <2>1 DEF Cancel, Abstract!Abandon, Abstract!Become
<1>7. ASSUME NEW r \in Req, RecvReply(r) PROVE Abstract!Answer(r)
  <2>1. Phase(r) = "busy" /\ Phase(r)' = "ok"
    BY <1>1, <1>7 DEF RecvReply, Phase, InFlight, Ended, ReplyMatches
  <2>2. written[r] = 1
    BY <1>7 DEF RecvReply, TravelledWritten
  <2> QED
    BY <1>4, <1>7, <2>1, <2>2 DEF RecvReply, Abstract!Answer, Abstract!Become
\* The other steps of a call leave it busy, or refuse it.
<1>8. ASSUME NEW r \in Req, Choose(r) \/ Proceed(r), ~RecvReply(r)
      PROVE  Abstract!Refuse(r) \/ UNCHANGED Abstract!rpcVars
  <2>1. /\ written' = written /\ pc[r] \in InFlight
        /\ \E p \in InFlight \cup {"unreachable"} :
             pc' = [pc EXCEPT ![r] = p] /\ (p = "unreachable" => pc[r] \in {"pick", "got"})
    BY <1>8, NoRecvError
    DEF Choose, NoConnection, Pick, Proceed, LateClosed, TakeId, Store, Send, Wake,
        FailAttempt, InFlight
  <2>2. PICK p \in InFlight \cup {"unreachable"} :
          pc' = [pc EXCEPT ![r] = p] /\ (p = "unreachable" => pc[r] \in {"pick", "got"})
    BY <2>1
  <2>3. Phase(r) = "busy"
    BY <2>1, PhaseOf
  <2>4. CASE p \in InFlight
    <3>1. Phase(r)' = "busy"
      BY <2>2, <2>4 DEF Phase, InFlight
    <3>2. [s \in Req |-> Phase(s)]' = [s \in Req |-> Phase(s)]
      BY <1>4, <2>1, <2>2, <2>3, <3>1
    <3> QED
      BY <2>1, <3>2 DEF Abstract!rpcVars
  <2>5. CASE p = "unreachable"
    <3>1. Phase(r)' = "refused"
      BY <2>2, <2>5 DEF Phase, InFlight
    <3>2. written[r] = 0
      BY <2>2, <2>5 DEF UnsentAbsent, Unsent
    <3> QED
      BY <1>4, <2>1, <2>2, <2>3, <3>1, <3>2 DEF Abstract!Refuse, Abstract!Become
  <2> QED
    BY <2>4, <2>5
<1>9. ASSUME NEW c \in Conn, WriteFrame(c)
      PROVE  [Abstract!Next]_(Abstract!rpcVars)
  <2> DEFINE r == sendq[c][1].req
  <2>1. /\ 1 \in DOMAIN sendq[c] /\ pc' = pc /\ sendq[c][1] \in Frame
        /\ written' = [s \in Req |-> IF s = r THEN written[s] + 1 ELSE written[s]]
    BY <1>9, HeadWritten
  <2>2. CASE r \notin Req
    BY <1>3, <2>1, <2>2
  <2>3. CASE r \in Req
    <3>1. written[r] = 0
      BY <2>1, <2>3 DEF QueuedUnwritten
    <3>2. pc[r] \in {"wait", "cancelled"}
      <4>1. ~Unsent(r)
        BY <2>1, <2>3 DEF UnsentAbsent
      <4>2. pc[r] # "ok" /\ pc[r] # "timeout"
        BY <2>3, <3>1 DEF Ended, TravelledWritten
      <4> QED
        BY <2>3, <4>1, <4>2 DEF Unsent, InFlight, Final
    <3>3. Phase(r) \in {"busy", "abandoned"}
      BY <2>3, <3>2, PhaseOf DEF InFlight
    <3>4. written' = [written EXCEPT ![r] = 1]
      <4> HIDE DEF r
      <4>1. \A s \in Req : written'[s] = IF s = r THEN 1 ELSE written[s]
        BY <2>1, <3>1
      <4> QED
        BY <2>1, <2>3, <4>1
    <3>5. [s \in Req |-> Phase(s)]' = [s \in Req |-> Phase(s)]
      BY <1>2, <2>1
    <3>6. Abstract!HandOver(r)
      BY <2>3, <3>1, <3>3, <3>4, <3>5 DEF Abstract!HandOver
    <3> QED
      BY <2>3, <3>6 DEF Abstract!Next
  <2> QED
    BY <2>2, <2>3
<1>10. ASSUME NEW c \in Conn,
              Connect(c) \/ WriteFail(c) \/ ReadLoop(c) \/ KeepaliveLoop(c) \/ Environment(c)
       PROVE  pc' = pc /\ written' = written
  BY <1>10 DEF Connect, WriteFail, ReadLoop, Dispatch, RejectFrame, ReadEof, KeepaliveLoop,
               KeepaliveTick, KeepaliveSend, Environment, ServerReply, ServerGarbage,
               PeerClose, callVars
<1>11. CASE UNCHANGED vars
  BY <1>3, <1>11 DEF vars, callVars
<1>12. CASE \E r \in Req : Call(r) \/ Choose(r) \/ Proceed(r) \/ Cancel(r)
  BY <1>5, <1>6, <1>7, <1>8, <1>12 DEF Abstract!Next
<1> QED
  BY <1>3, <1>9, <1>10, <1>11, <1>12 DEF Next, WriteLoop

(* execute over any number of connections implements the at-most-once call  *)
(* of module Rpc: own answers only, one copy at most, refusals that are     *)
(* safe to repeat.                                                          *)
THEOREM ConnectionImplementsRpc == ASSUME ~MayWrap PROVE Spec => ImplementsRpc
<1>1. Init => Abstract!Init
  BY RpcInit
<1>2. SInv /\ [Next]_vars => [Abstract!Next]_(Abstract!rpcVars)
  BY RpcStep
<1> QED
  BY <1>1, <1>2, SInvAlways, PTL DEF Spec, ImplementsRpc, Abstract!Spec
=============================================================================
