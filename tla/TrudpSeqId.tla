----------------------------- MODULE TrudpSeqId -----------------------------
(***************************************************************************)
(* Packet id arithmetic of trudp_channel.c and trudp_utils.c.              *)
(*                                                                         *)
(* Ids live in 0 .. PacketIdLimit - 1.  Id 0 opens a session and is never  *)
(* produced by an increment: the sequence of a session is                  *)
(* 0, 1, 2, ..., PacketIdLimit - 1, 1, 2, ...                              *)
(***************************************************************************)
EXTENDS Integers

CONSTANT PacketIdLimit      \* PACKET_ID_LIMIT, 2^32 in trudp_const.h

ASSUME PacketIdLimitAssumption == PacketIdLimit \in Nat /\ PacketIdLimit >= 4

PacketIds == 0 .. PacketIdLimit - 1

\* The 64-bit sums of the code cannot overflow for ids of at most 32 bits.
ModAddU(a, b, m) == ((a % m) + (b % m)) % m

ModSubU(a, b, m) == ((a % m) + m - (b % m)) % m

\* mutants of GetNextSeqId: no wrap, a wrap through 0
NextWithoutWrap(id) == id + 1
NextThroughZero(id) == ModAddU(id, 1, PacketIdLimit)

\* _trudpGetNextSeqId
GetNextSeqId(id) ==
    LET next == ModAddU(id, 1, PacketIdLimit)
    IN  IF next # 0 THEN next ELSE ModAddU(next, 1, PacketIdLimit)

\* _trudpGetSeqIdDistance: how far toId is ahead of (> 0) or behind (< 0) fromId
GetSeqIdDistance(fromId, toId) ==
    LET diff == ModSubU(toId, fromId, PacketIdLimit)
    IN  IF diff < PacketIdLimit \div 2 THEN diff ELSE diff - PacketIdLimit

-----------------------------------------------------------------------------
\* The id reached from id by i increments, in closed form: up to the limit,
\* and from there on round and round through 1 .. PacketIdLimit - 1.
IdAfter(id, i) ==
    IF id + i < PacketIdLimit
    THEN id + i
    ELSE 1 + ((id + i - PacketIdLimit) % (PacketIdLimit - 1))
=============================================================================
