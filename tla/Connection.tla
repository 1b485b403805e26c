----------------------------- MODULE Connection -----------------------------
(***************************************************************************)
(* The request path of rzgate between Handler::execute and one backend     *)
(* socket: src/src/handler/connection.rs (the three tasks a connection     *)
(* spawns), src/src/handler/demux.rs (the table that matches replies to    *)
(* callers) and the retry loop of Handler::execute in handler.rs.          *)
(*                                                                         *)
(* Every Connection object of the program is one element of Conn; it is    *)
(* connected at most once, as in the code, which builds a new object for   *)
(* each reconnect.  Every call of execute is one element of Req.  How      *)
(* next_connection picks a connection is left open here (any connection    *)
(* that is not closed); module Handler gives the pool and its cursor.      *)
(*                                                                         *)
(* Abstractions.  A frame is its correlation id, the call it carries and   *)
(* the number of attempts made before it; the bytes are out of scope.      *)
(* Replies travel as a set: the server may answer in any order, so any     *)
(* order of arrival is possible.  A oneshot channel needs no variable: its *)
(* sender lives in the demux entry, its value in got, and the receiver is  *)
(* orphaned exactly when both are gone.                                    *)
(***************************************************************************)
EXTENDS Integers, Sequences, FiniteSets

CONSTANTS
  Conn,     \* connection objects
  Req,      \* calls of Handler::execute
  None,     \* no call, no connection
  IdSpace,  \* number of correlation ids; 2^32 in the code (AtomicU32)
  ChanCap,  \* capacity of the send channel; max(max_active_conns, 2048)
  MayWrap,  \* bound: FALSE stops a connection before its ids wrap around
  Faults    \* what the network and the server may do wrong

FaultKinds == {"close", "dup", "ka_reply", "garbage"}

ASSUME NoneAssumption == None \notin Req /\ None \notin Conn
ASSUME IdSpaceAssumption == IdSpace \in Nat /\ IdSpace >= 2
ASSUME ChanCapAssumption == ChanCap \in Nat \ {0}
ASSUME SwitchAssumption == MayWrap \in BOOLEAN /\ Faults \subseteq FaultKinds

Ids == 0 .. IdSpace - 1

MaxAttempts == 3

(* A frame in either direction.  Control frames (keepalives) carry no call  *)
(* and id 0; a frame that drain_frame_async rejects has no id in Ids.       *)
Frame == [id : Ids \cup {IdSpace}, req : Req \cup {None}, try : 0 .. MaxAttempts]

KeepaliveFrame == [id |-> 0, req |-> None, try |-> 0]
GarbageFrame == [id |-> IdSpace, req |-> None, try |-> 0]

VARIABLES
  peer,      \* Conn -> the TCP peer: "none" before connect, "up", "gone"
  closed,    \* Conn -> ConnectionInner.closed
  corr,      \* Conn -> ConnectionInner.corr_id, the next id
  demux,     \* Conn -> Ids -> the call whose oneshot sender is stored
  sendq,     \* Conn -> the frames in the mpsc channel
  writer,    \* Conn -> write loop: "off", "run", "done"
  reader,    \* Conn -> read loop: "off", "run", "done"
  ka,        \* Conn -> keepalive task: "off", "tick", "send", "done"
  wire,      \* Conn -> frames the server has received and not answered
  inbox,     \* Conn -> frames on their way from the server
  pc,        \* Req  -> where the call is in execute
  conn,      \* Req  -> the connection it holds
  id,        \* Req  -> its correlation id
  attempts,  \* Req  -> failed attempts
  got,       \* Req  -> the calls whose replies its oneshot received
  written    \* Req  -> history: how many frames of it reached a socket

linkVars == <<peer, closed, corr, demux, sendq, writer, reader, ka, wire, inbox>>
callVars == <<pc, conn, id, attempts, got, written>>
vars == <<linkVars, callVars>>

InFlight == {"pick", "got", "store", "send", "wait", "sleep"}
Final == {"ok", "unreachable", "timeout", "cancelled"}
\* The await points of execute, where axum may drop the future.
AwaitPoints == {"pick", "store", "send", "wait", "sleep"}

LinksTyped ==
  /\ peer \in [Conn -> {"none", "up", "gone"}]
  /\ closed \in [Conn -> BOOLEAN]
  /\ corr \in [Conn -> Ids]
  /\ demux \in [Conn -> [Ids -> Req \cup {None}]]
  /\ sendq \in [Conn -> Seq(Frame)]
  /\ \A c \in Conn : Len(sendq[c]) <= ChanCap
  /\ writer \in [Conn -> {"off", "run", "done"}]
  /\ reader \in [Conn -> {"off", "run", "done"}]
  /\ ka \in [Conn -> {"off", "tick", "send", "done"}]
  /\ wire \in [Conn -> SUBSET Frame]
  /\ inbox \in [Conn -> SUBSET Frame]

CallsTyped ==
  /\ pc \in [Req -> {"idle"} \cup InFlight \cup Final]
  /\ conn \in [Req -> Conn \cup {None}]
  /\ id \in [Req -> Ids]
  /\ attempts \in [Req -> 0 .. MaxAttempts]
  /\ got \in [Req -> SUBSET (Req \cup {None})]
  /\ written \in [Req -> Nat]

TypeOK == LinksTyped /\ CallsTyped

-----------------------------------------------------------------------------
(* Helpers                                                                 *)

Open(c) == peer[c] # "none" /\ ~closed[c]

Full(c) == Len(sendq[c]) >= ChanCap

(* Variants of the definitions below that a bug could put in their place;   *)
(* the mutation runs use them, the specification does not.                  *)
NextIdStuck(k) == k
NextIdUnbounded(k) == k + 1
AfterCancelForgets(table, r) == [i \in Ids |-> IF table[i] = r THEN None ELSE table[i]]
AfterReadLoopDrained(table) == [i \in Ids |-> None]
LastAttemptOffByOne(n) == n >= MaxAttempts

\* fetch_add on an AtomicU32 wraps around.
NextId(k) == IF k + 1 = IdSpace THEN 0 ELSE k + 1

\* What inserting r under id i makes of a table: a previous sender is dropped.
Stored(table, i, r) == [table EXCEPT ![i] = r]

\* load_remove.
Removed(table, i) == [table EXCEPT ![i] = None]

\* A reply the read loop can hand to somebody.
Known(c, f) == f.id \in Ids /\ demux[c][f.id] # None

\* The table after the caller's future is dropped: nothing removes its entry.
AfterCancel(table, r) == table

\* The table after the read loop ends: nothing drains it.
AfterReadLoop(table) == table

\* The attempt after which execute gives up.
LastAttempt(n) == n + 1 >= MaxAttempts

\* The receiver of the oneshot of r still waits for a value.
Listening(r) == pc[r] \in {"send", "wait"}

\* The sender of the oneshot of r is gone and no value was sent.
Orphaned(r) == got[r] = {} /\ demux[conn[r]][id[r]] # r

-----------------------------------------------------------------------------
Init ==
  /\ peer = [c \in Conn |-> "none"]
  /\ closed = [c \in Conn |-> FALSE]
  /\ corr = [c \in Conn |-> 1]
  /\ demux = [c \in Conn |-> [i \in Ids |-> None]]
  /\ sendq = [c \in Conn |-> <<>>]
  /\ writer = [c \in Conn |-> "off"]
  /\ reader = [c \in Conn |-> "off"]
  /\ ka = [c \in Conn |-> "off"]
  /\ wire = [c \in Conn |-> {}]
  /\ inbox = [c \in Conn |-> {}]
  /\ pc = [r \in Req |-> "idle"]
  /\ conn = [r \in Req |-> None]
  /\ id = [r \in Req |-> 0]
  /\ attempts = [r \in Req |-> 0]
  /\ got = [r \in Req |-> {}]
  /\ written = [r \in Req |-> 0]

(* Connection::connect succeeds: the object is built with a fresh demux     *)
(* and corr_id 1 (their initial values) and its three tasks are spawned.    *)
Connect(c) ==
  /\ peer[c] = "none"
  /\ peer' = [peer EXCEPT ![c] = "up"]
  /\ writer' = [writer EXCEPT ![c] = "run"]
  /\ reader' = [reader EXCEPT ![c] = "run"]
  /\ ka' = [ka EXCEPT ![c] = "tick"]
  /\ UNCHANGED <<closed, corr, demux, sendq, wire, inbox, callVars>>

-----------------------------------------------------------------------------
(* Handler::execute.  The payload is never empty: every processor pushes    *)
(* at least its command name, so the Validation return is not reachable.    *)

Call(r) ==
  /\ pc[r] = "idle"
  /\ pc' = [pc EXCEPT ![r] = "pick"]
  /\ UNCHANGED <<linkVars, conn, id, attempts, got, written>>

\* One more failed attempt: give up with the verdict, or back off.
FailAttempt(r, verdict) ==
  /\ attempts' = [attempts EXCEPT ![r] = @ + 1]
  /\ pc' = [pc EXCEPT ![r] = IF LastAttempt(attempts[r]) THEN verdict ELSE "sleep"]

\* next_connection returns a connection that was open when it looked.
Pick(r, c) ==
  /\ pc[r] = "pick"
  /\ Open(c)
  /\ pc' = [pc EXCEPT ![r] = "got"]
  /\ conn' = [conn EXCEPT ![r] = c]
  /\ UNCHANGED <<linkVars, id, attempts, got, written>>

\* next_connection returns None.
NoConnection(r) ==
  /\ pc[r] = "pick"
  /\ \A c \in Conn : ~Open(c)
  /\ FailAttempt(r, "unreachable")
  /\ UNCHANGED <<linkVars, conn, id, got, written>>

\* The guard "Some(c) if !c.is_closed()" fails: closed since the pick.
LateClosed(r) ==
  /\ pc[r] = "got"
  /\ closed[conn[r]]
  /\ FailAttempt(r, "unreachable")
  /\ UNCHANGED <<linkVars, conn, id, got, written>>

(* The guard holds and next_corr_id runs.  The frame is built here: it is  *)
(* determined by the id, the call and its attempts.                        *)
TakeId(r) ==
  LET c == conn[r] IN
  /\ pc[r] = "got"
  /\ ~closed[c]
  /\ MayWrap \/ corr[c] + 1 < IdSpace
  /\ id' = [id EXCEPT ![r] = corr[c]]
  /\ corr' = [corr EXCEPT ![c] = NextId(corr[c])]
  /\ pc' = [pc EXCEPT ![r] = "store"]
  /\ UNCHANGED <<peer, closed, demux, sendq, writer, reader, ka, wire, inbox,
                 conn, attempts, got, written>>

\* DemuxMap::store.  Nothing looks at closed again from here on.
Store(r) ==
  LET c == conn[r] IN
  /\ pc[r] = "store"
  /\ demux' = [demux EXCEPT ![c] = Stored(@, id[r], r)]
  /\ pc' = [pc EXCEPT ![r] = "send"]
  /\ UNCHANGED <<peer, closed, corr, sendq, writer, reader, ka, wire, inbox,
                 conn, id, attempts, got, written>>

(* send_frame: waits for room in the channel; when the write loop is gone   *)
(* the send fails at once and execute ignores the error.                    *)
Send(r) ==
  LET c == conn[r]
      f == [id |-> id[r], req |-> r, try |-> attempts[r]]
  IN
  /\ pc[r] = "send"
  /\ \/ writer[c] = "run" /\ ~Full(c) /\ sendq' = [sendq EXCEPT ![c] = Append(@, f)]
     \/ writer[c] = "done" /\ UNCHANGED sendq
  /\ pc' = [pc EXCEPT ![r] = "wait"]
  /\ UNCHANGED <<peer, closed, corr, demux, writer, reader, ka, wire, inbox,
                 conn, id, attempts, got, written>>

\* resp_rx.await returns the bytes of a reply.
RecvReply(r) ==
  /\ pc[r] = "wait"
  /\ got[r] # {}
  /\ pc' = [pc EXCEPT ![r] = "ok"]
  /\ UNCHANGED <<linkVars, conn, id, attempts, got, written>>

\* resp_rx.await fails because the sender was dropped.
RecvError(r) ==
  /\ pc[r] = "wait"
  /\ Orphaned(r)
  /\ FailAttempt(r, "timeout")
  /\ UNCHANGED <<linkVars, conn, id, got, written>>

\* The back-off sleep is over; the loop starts again.
Wake(r) ==
  /\ pc[r] = "sleep"
  /\ pc' = [pc EXCEPT ![r] = "pick"]
  /\ UNCHANGED <<linkVars, conn, id, attempts, got, written>>

\* The HTTP client went away: the future is dropped where it awaits.
Cancel(r) ==
  /\ pc[r] \in AwaitPoints
  /\ pc' = [pc EXCEPT ![r] = "cancelled"]
  /\ demux' = [c \in Conn |-> AfterCancel(demux[c], r)]
  /\ UNCHANGED <<peer, closed, corr, sendq, writer, reader, ka, wire, inbox,
                 conn, id, attempts, got, written>>

-----------------------------------------------------------------------------
(* The write loop.  The task owns an Arc of the connection and with it a    *)
(* sender of its own channel, so recv never reports the channel as closed:  *)
(* the loop ends only when a write fails.                                   *)

(* write_all and flush succeed.  They also succeed for a while after the    *)
(* peer is gone; those bytes are lost.  The server swallows keepalives      *)
(* unless it is one that answers them.                                      *)
WriteFrame(c) ==
  LET f == Head(sendq[c]) IN
  /\ writer[c] = "run"
  /\ sendq[c] # <<>>
  /\ sendq' = [sendq EXCEPT ![c] = Tail(@)]
  /\ wire' = IF peer[c] = "up" /\ (f.req # None \/ "ka_reply" \in Faults)
             THEN [wire EXCEPT ![c] = @ \cup {f}]
             ELSE wire
  /\ written' = [r \in Req |-> IF r = f.req THEN written[r] + 1 ELSE written[r]]
  /\ UNCHANGED <<peer, closed, corr, demux, writer, reader, ka, inbox,
                 pc, conn, id, attempts, got>>

(* A write fails: the loop sets closed and the receiver is dropped with     *)
(* every frame in it.                                                       *)
WriteFail(c) ==
  /\ writer[c] = "run"
  /\ sendq[c] # <<>>
  /\ peer[c] = "gone"
  /\ writer' = [writer EXCEPT ![c] = "done"]
  /\ closed' = [closed EXCEPT ![c] = TRUE]
  /\ sendq' = [sendq EXCEPT ![c] = <<>>]
  /\ UNCHANGED <<peer, corr, demux, reader, ka, wire, inbox, callVars>>

-----------------------------------------------------------------------------
(* The read loop                                                           *)

(* One round of the loop with a known id: load_remove, then tx.send, whose  *)
(* result is ignored: the receiver may have been dropped by a cancellation. *)
Dispatch(c) ==
  \E f \in inbox[c] :
    /\ reader[c] = "run"
    /\ Known(c, f)
    /\ LET r == demux[c][f.id] IN
         got' = IF Listening(r) /\ conn[r] = c /\ id[r] = f.id
                THEN [got EXCEPT ![r] = {f.req}]
                ELSE got
    /\ demux' = [demux EXCEPT ![c] = Removed(@, f.id)]
    /\ inbox' = [inbox EXCEPT ![c] = @ \ {f}]
    /\ UNCHANGED <<peer, closed, corr, sendq, writer, reader, ka, wire,
                   pc, conn, id, attempts, written>>

\* The loop breaks: drain_frame_async rejects the frame or its id is unknown.
RejectFrame(c) ==
  \E f \in inbox[c] :
    /\ reader[c] = "run"
    /\ ~Known(c, f)
    /\ reader' = [reader EXCEPT ![c] = "done"]
    /\ closed' = [closed EXCEPT ![c] = TRUE]
    /\ inbox' = [inbox EXCEPT ![c] = @ \ {f}]
    /\ demux' = [demux EXCEPT ![c] = AfterReadLoop(@)]
    /\ UNCHANGED <<peer, corr, sendq, writer, ka, wire, callVars>>

\* Variant: the end of the stream does not mark the connection closed.
ReadEofUnmarked(c) ==
  /\ reader[c] = "run"
  /\ peer[c] = "gone"
  /\ inbox[c] = {}
  /\ reader' = [reader EXCEPT ![c] = "done"]
  /\ UNCHANGED <<peer, closed, corr, demux, sendq, writer, ka, wire, inbox, callVars>>

\* The loop breaks: end of stream.
ReadEof(c) ==
  /\ reader[c] = "run"
  /\ peer[c] = "gone"
  /\ inbox[c] = {}
  /\ reader' = [reader EXCEPT ![c] = "done"]
  /\ closed' = [closed EXCEPT ![c] = TRUE]
  /\ demux' = [demux EXCEPT ![c] = AfterReadLoop(@)]
  /\ UNCHANGED <<peer, corr, sendq, writer, ka, wire, inbox, callVars>>

-----------------------------------------------------------------------------
(* The keepalive task                                                      *)

\* Variant: the tick does not look at closed.
KeepaliveTickBlind(c) ==
  /\ ka[c] = "tick"
  /\ ka' = [ka EXCEPT ![c] = "send"]
  /\ UNCHANGED <<peer, closed, corr, demux, sendq, writer, reader, wire, inbox, callVars>>

\* A tick: stop if the connection is closed, else go and send a keepalive.
KeepaliveTick(c) ==
  /\ ka[c] = "tick"
  /\ ka' = [ka EXCEPT ![c] = IF closed[c] THEN "done" ELSE "send"]
  /\ UNCHANGED <<peer, closed, corr, demux, sendq, writer, reader, wire, inbox, callVars>>

\* The send of the keepalive: waits for room, ends the task on an error.
KeepaliveSend(c) ==
  /\ ka[c] = "send"
  /\ \/ /\ writer[c] = "run"
        /\ ~Full(c)
        /\ sendq' = [sendq EXCEPT ![c] = Append(@, KeepaliveFrame)]
        /\ ka' = [ka EXCEPT ![c] = "tick"]
     \/ /\ writer[c] = "done"
        /\ ka' = [ka EXCEPT ![c] = "done"]
        /\ UNCHANGED sendq
  /\ UNCHANGED <<peer, closed, corr, demux, writer, reader, wire, inbox, callVars>>

-----------------------------------------------------------------------------
(* External: the Roomzin server and the network, as this code meets them.   *)

(* The server answers a frame it received.  One that answers twice keeps    *)
(* the frame; replies to a peer that is gone are lost.                      *)
ServerReply(c) ==
  \E f \in wire[c] :
    /\ peer[c] = "up"
    /\ inbox' = [inbox EXCEPT ![c] = @ \cup {f}]
    /\ \/ wire' = [wire EXCEPT ![c] = @ \ {f}]
       \/ "dup" \in Faults /\ UNCHANGED wire
    /\ UNCHANGED <<peer, closed, corr, demux, sendq, writer, reader, ka, callVars>>

ServerGarbage(c) ==
  /\ "garbage" \in Faults
  /\ peer[c] = "up"
  /\ inbox' = [inbox EXCEPT ![c] = @ \cup {GarbageFrame}]
  /\ UNCHANGED <<peer, closed, corr, demux, sendq, writer, reader, ka, wire, callVars>>

\* The peer goes away; of the replies under way any part may be lost.
PeerClose(c) ==
  /\ "close" \in Faults
  /\ peer[c] = "up"
  /\ peer' = [peer EXCEPT ![c] = "gone"]
  /\ wire' = [wire EXCEPT ![c] = {}]
  /\ \E arrived \in SUBSET inbox[c] : inbox' = [inbox EXCEPT ![c] = arrived]
  /\ UNCHANGED <<closed, corr, demux, sendq, writer, reader, ka, callVars>>

-----------------------------------------------------------------------------
\* What a call does by itself once it is started.
Proceed(r) ==
  \/ LateClosed(r) \/ TakeId(r) \/ Store(r) \/ Send(r)
  \/ RecvReply(r) \/ RecvError(r) \/ Wake(r)

Choose(r) == NoConnection(r) \/ \E c \in Conn : Pick(r, c)

\* What the three tasks of a connection do.
WriteLoop(c) == WriteFrame(c) \/ WriteFail(c)
ReadLoop(c) == Dispatch(c) \/ RejectFrame(c) \/ ReadEof(c)
KeepaliveLoop(c) == KeepaliveTick(c) \/ KeepaliveSend(c)

Environment(c) == ServerReply(c) \/ ServerGarbage(c) \/ PeerClose(c)

Next ==
  \/ \E r \in Req : Call(r) \/ Choose(r) \/ Proceed(r) \/ Cancel(r)
  \/ \E c \in Conn : \/ Connect(c)
                     \/ WriteLoop(c) \/ ReadLoop(c) \/ KeepaliveLoop(c)
                     \/ Environment(c)

Spec == Init /\ [][Next]_vars

(* Tokio polls every ready task again, and tokio's mpsc hands out capacity  *)
(* in the order the senders asked for it, so a send that finds room again   *)
(* and again gets it: strong fairness.  The server is assumed to answer     *)
(* what it received.  Nothing makes a client call, hang up, or a peer fail. *)
Fairness ==
  /\ \A r \in Req : /\ WF_vars(Choose(r))
                    /\ WF_vars(Proceed(r))
                    /\ SF_vars(Send(r))
  /\ \A c \in Conn : /\ WF_vars(WriteLoop(c))
                     /\ WF_vars(ReadLoop(c))
                     /\ WF_vars(KeepaliveTick(c))
                     /\ SF_vars(KeepaliveSend(c))
                     /\ WF_vars(ServerReply(c))

FairSpec == Spec /\ Fairness

-----------------------------------------------------------------------------
(* Properties                                                              *)

(* No call receives the reply of another one: the id of a frame leads back  *)
(* to its caller through the table, whatever the server repeats, invents    *)
(* or answers late and whoever cancels.  Needs ids that do not wrap.        *)
ReplyMatches == \A r \in Req : got[r] \subseteq {r}

(* At most one copy of a call, a write above all, reaches a socket, in      *)
(* spite of the retry loop.  Needs ids that do not wrap.                    *)
AtMostOnce == \A r \in Req : written[r] <= 1

(* A call refused as unreachable reached no socket and sits in no channel:  *)
(* the client may send it again without doing it twice.                     *)
RefusedUnsent ==
  \A r \in Req : pc[r] = "unreachable" =>
    /\ written[r] = 0
    /\ \A c \in Conn : \A i \in DOMAIN sendq[c] : sendq[c][i].req # r

(* The sender of a waiting call stays in the table until its reply is       *)
(* delivered, so that resp_rx.await never fails and the Timeout verdict of  *)
(* execute is never reached, unless ids wrap and an entry is overwritten.   *)
SenderKept == \A r \in Req : Listening(r) => ~Orphaned(r)

(* rzgate closes a connection by itself only because of what the server did *)
(* on it: not because of cancelled calls, late replies or keepalives.       *)
OnlyPeerCloses ==
  \A c \in Conn : closed[c] => peer[c] = "gone" \/ Faults \cap {"dup", "ka_reply", "garbage"} # {}

(* Even when ids wrap and a stored sender is overwritten, execute sends a   *)
(* call no more often than its attempts allow.                              *)
CopiesBounded == \A r \in Req : written[r] <= MaxAttempts

(* Every call that starts ends, in an answer or an error.  What README.md   *)
(* says of --timeout-sec ("Request timeout", default 2 seconds).            *)
EveryCallResolves == \A r \in Req : (pc[r] = "pick") ~> (pc[r] \in Final)

(* What the code gives instead when peers may fail: a call that does not    *)
(* end waits on a connection that is marked closed, so that the pool        *)
(* replaces it and later calls do not join it.                              *)
ResolvesOrConnectionDies ==
  \A r \in Req : (pc[r] = "pick") ~>
    (pc[r] \in Final \/ (pc[r] = "wait" /\ closed[conn[r]]))

(* The keepalive task of a closed connection ends, so that it does not keep *)
(* the connection alive and does not write to it for ever.                  *)
KeepaliveEnds == \A c \in Conn : closed[c] ~> (ka[c] = "done")

-----------------------------------------------------------------------------
(* The abstract specification of a call, and how its state appears here.    *)

Phase(r) ==
  CASE pc[r] = "idle" -> "idle"
    [] pc[r] \in InFlight -> "busy"
    [] pc[r] = "ok" -> IF got[r] = {r} THEN "ok" ELSE "misdelivered"
    [] pc[r] = "unreachable" -> "refused"
    [] pc[r] = "cancelled" -> "abandoned"
    [] OTHER -> "timeout"

Abstract == INSTANCE Rpc WITH phase <- [r \in Req |-> Phase(r)], copies <- written

(* execute over connections implements the at-most-once call of module Rpc. *)
ImplementsRpc == Abstract!Spec
=============================================================================
