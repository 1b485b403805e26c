------------------------------- MODULE Encoding -------------------------------
(***************************************************************************)
(* The frames that rzgate writes to a backend, src/src/protocol/mod.rs,    *)
(* and what a reader of such a frame makes of it.                          *)
(*                                                                         *)
(* A frame is the record of its parts.  Segments and payloads carry their  *)
(* length in bytes with them: what matters is the length that a frame      *)
(* declares and the number of bytes that are there.  A request has at most *)
(* two megabytes (the default of axum), so a length of four bytes never    *)
(* overflows; the length of a segment has one byte.                        *)
(***************************************************************************)
EXTENDS Integers

CONSTANT Byte   \* a length of one byte is counted modulo this; 256 in the code

\* The names that rzgate itself gives to segments fit.
ASSUME ByteAssumption == Byte \in Nat /\ Byte > 13

\* SHARD_MAGIC and ROUTER_MAGIC.
Shard == "shard"
Router == "router"

\* magic, clrid and the length of the payload.
ShardHeader == 9

\* The frame of standalone mode: no segment, no flag.
prepend_header(clrid, payload) ==
  [magic |-> Shard, clrid |-> clrid, total_len |-> payload.len, payload |-> payload]

\* What a router frame has in front of the shard frame; the total is that of
\* the length of the segment, the segment, the flag and the shard frame.
RouterFrame(segment, is_write, shard, shard_frame_len) ==
  [magic |-> Router,
   total_len |-> 1 + segment.len + 1 + shard_frame_len,
   segment_len |-> segment.len % Byte,
   segment |-> segment,
   is_write |-> is_write,
   shard |-> shard]

\* Variant: a total that forgets the header of the shard frame.
ShortTotal(segment, is_write, clrid, payload) ==
  RouterFrame(segment, is_write, prepend_header(clrid, payload), payload.len)

\* The frame of router mode.
prepend_router_header(segment, is_write, clrid, payload) ==
  RouterFrame(segment, is_write, prepend_header(clrid, payload), ShardHeader + payload.len)

\* The frame of the keepalive task, in either mode: no call, an empty payload.
build_keepalive_frame(keepalive_segment, empty) ==
  RouterFrame(keepalive_segment, FALSE, prepend_header(0, empty), ShardHeader)

-----------------------------------------------------------------------------
(* The reader of router frames, a program of its own                        *)

\* The next frame begins where the total says.
StaysInStep(f) == f.total_len = 1 + f.segment.len + 1 + (ShardHeader + f.shard.payload.len)

(* The reader looks for the flag and the shard frame behind as many bytes   *)
(* as the segment is said to have; otherwise it takes bytes of the segment  *)
(* or of the payload for them.                                              *)
FindsShard(f) == f.segment_len = f.segment.len

Understood(f, segment, is_write, clrid, payload) ==
  /\ f.magic = Router
  /\ StaysInStep(f)
  /\ FindsShard(f)
  /\ f.segment = segment
  /\ f.is_write = is_write
  /\ f.shard = [magic |-> Shard, clrid |-> clrid, total_len |-> payload.len, payload |-> payload]
=============================================================================
