-------------------------------- MODULE AAA ---------------------------------
(***************************************************************************)
(* The AAA protocol as its two ends see it (src/src/common/aaa.h and       *)
(* aaa.cpp): packet types, limits, and what a header carries.              *)
(*                                                                         *)
(* A header is two bytes: 2 bits of type, 7 bits of count, 7 bits of       *)
(* session.  SendPacket takes the count and the session as C++ chars,      *)
(* signed on the platforms the project is built for, so a session may be   *)
(* negative; WireCount and WireSession say what the receiver then reads.   *)
(* Module AAAHeader models the header byte by byte and CodecProofs         *)
(* proves that these two operators are what its setters and getters        *)
(* compute when SessionMod is 128.                                         *)
(***************************************************************************)
EXTENDS Integers, Sequences

CONSTANTS
    SessionMod,          \* session ids that fit in a header; 2^7 in the code
    MaxCount,            \* AAA_MAX_COUNT, 127 in the code
    MaxRetransmissions   \* AAA_MAX_RETRANSMISSIONS, 12 in the code

ASSUME AAAAssumption ==
    /\ SessionMod \in Nat \ {0}
    /\ MaxCount \in Nat \ {0}
    /\ MaxRetransmissions \in Nat

Unset == -1     \* (char)-1: no session, no packet counter

PacketType == {"ACK", "DATA", "ERROR"}

(* The values of a char that holds a session id, scaled with SessionMod.   *)
SessionChar == -SessionMod .. SessionMod - 1

WireSessions == 0 .. SessionMod - 1

(* The next char after s: C++20 conversion of s + 1 back to char, which    *)
(* wraps from the largest value to the smallest.                           *)
NextSession(s) == IF s = SessionMod - 1 THEN -SessionMod ELSE s + 1

(* Mutant of WireSession: the session is not cut to seven bits.            *)
WholeSession(session) == session

(* SetSessionId runs last and ORs the session into byte 1: a negative char *)
(* has its top bit set, and the top bit of byte 1 is the low bit of the    *)
(* count.                                                                  *)
WireSession(session) == session % SessionMod

WireCount(count, session) ==
    IF session < 0 /\ count % 2 = 0 THEN count + 1 ELSE count
=============================================================================
