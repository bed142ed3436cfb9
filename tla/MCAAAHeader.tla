---------------------------- MODULE MCAAAHeader -----------------------------
(***************************************************************************)
(* Instances of AAAHeader and Dissector for TLC, with the setters and      *)
(* getters written once more as the code writes them, bit by bit.          *)
(***************************************************************************)
EXTENDS Dissector, Bitwise

AllTypes == PacketType

BoundaryCounts == {0, 1, 2, 3, 63, 64, 65, 126, 127}

BoundarySessions == {-128, -127, -126, -65, -64, -2, -1, 0, 1, 2, 63, 64, 126, 127}

(* Nothing, the start of an HTTP text ("H"), a byte with its top bit set.  *)
SomePayloads == {<<>>, <<72, 84>>, <<200>>}

-----------------------------------------------------------------------------
TYPE_MASK == 192

SESSION_MASK == 127

(* ~mask, in one byte.                                                     *)
Inverted(mask) == 255 - mask

BitsGetCount(h) ==
    ((2 * (h[1] & Inverted(TYPE_MASK))) % 256) | ((h[2] & Inverted(SESSION_MASK)) \div 128)

BitsSetType(h, type) ==
    <<(h[1] & Inverted(TYPE_MASK)) | (64 * TypeBits[type]), h[2]>>

BitsSetCount(h, count) ==
    << (h[1] & TYPE_MASK) | ((count \div 2) % 256),
       (h[2] & SESSION_MASK) | ((count * 128) % 256) >>

BitsSetSessionId(h, session) ==
    <<h[1], (h[2] & Inverted(SESSION_MASK)) | (session % 256)>>

(* The arithmetic of AAAHeader and the bit operations of aaa.cpp agree on  *)
(* every header that SendPacket goes through, and for a negative count,    *)
(* which only the mocks can be told to send.                               *)
BitsAgree ==
    /\ BitsGetCount(header) = GetCount(header)
    /\ header[2] & SESSION_MASK = GetSessionId(header)
    /\ BitsSetType(header, call.type) = SetType(header, call.type)
    /\ \A c \in {call.count, -call.count} :
          BitsSetCount(header, c) = SetCount(header, c)
    /\ BitsSetSessionId(header, call.session)
          = SetSessionId(header, call.session)
=============================================================================
