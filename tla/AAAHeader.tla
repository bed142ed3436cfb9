----------------------------- MODULE AAAHeader ------------------------------
(***************************************************************************)
(* The bytes of an AAA header (src/src/common/aaa.cpp), how SendPacket     *)
(* fills them in and puts them in a datagram, and what the receiver reads. *)
(* A byte is a number below 256, a char the same byte read as a signed     *)
(* number.  The masks and shifts of the code are written as arithmetic;    *)
(* MCAAAHeader compares them with the code's own & and |.                  *)
(***************************************************************************)
EXTENDS AAA

CONSTANTS
    Types, Counts, Sessions,   \* what SendPacket is called with
    Payloads                   \* sequences of bytes

Byte == 0 .. 255

Char == -128 .. 127

ASSUME HeaderAssumption ==
    /\ SessionMod = 128 /\ MaxCount = 127
    /\ Types \subseteq PacketType
    /\ Counts \subseteq 0 .. MaxCount
    /\ Sessions \subseteq Char
    /\ Payloads \subseteq Seq(Byte)

TypeBits == [ACK |-> 1, DATA |-> 2, ERROR |-> 3]

GetType(h) ==
    CASE h[1] \div 64 = 1 -> "ACK"
      [] h[1] \div 64 = 2 -> "DATA"
      [] h[1] \div 64 = 3 -> "ERROR"
      [] OTHER -> "UNKNOWN"

SetType(h, type) == <<(h[1] % 64) + 64 * TypeBits[type], h[2]>>

(* Mutant of GetCount: the bit in byte 1 is left out.                      *)
UpperCount(h) == 2 * (h[1] % 64)

GetCount(h) == 2 * (h[1] % 64) + h[2] \div 128

(* Mutant of SetCount: byte 1 is not masked, and loses its session.        *)
UnmaskedCount(h, count) ==
    <<64 * (h[1] \div 64) + count \div 2, 128 * (count % 2)>>

(* The top bits of a negative count overwrite the type.                    *)
SetCount(h, count) ==
    << IF count >= 0 THEN 64 * (h[1] \div 64) + count \div 2
                     ELSE (count \div 2) % 256,
       (h[2] % 128) + 128 * (count % 2) >>

GetSessionId(h) == h[2] % 128

(* The top bit of a negative session overwrites the lowest of the count.   *)
SetSessionId(h, session) ==
    << h[1],
       IF session >= 0 THEN 128 * (h[2] \div 128) + session
                       ELSE 128 + (session % 128) >>

(* SendPacket's header.                                                    *)
HeaderBytes(type, count, session) ==
    SetSessionId(SetCount(SetType(<<0, 0>>, type), count), session)

-----------------------------------------------------------------------------
(***************************************************************************)
(* One datagram on its way: SendPacket fills in the header field by field  *)
(* and sends it with the payload, ReceivePacket reads it.                  *)
(***************************************************************************)
VARIABLES step, call, header, datagram

headerVars == <<step, call, header, datagram>>

Call == [sender: {"proxy", "device"}, type: Types, count: Counts,
         session: Sessions, payload: Payloads]

HeaderInit ==
    /\ step = "type"
    /\ call \in Call
    /\ header = <<0, 0>>
    /\ datagram = <<>>

FillType ==
    /\ step = "type" /\ step' = "count"
    /\ header' = SetType(header, call.type)
    /\ UNCHANGED <<call, datagram>>

FillCount ==
    /\ step = "count" /\ step' = "session"
    /\ header' = SetCount(header, call.count)
    /\ UNCHANGED <<call, datagram>>

FillSession ==
    /\ step = "session" /\ step' = "send"
    /\ header' = SetSessionId(header, call.session)
    /\ UNCHANGED <<call, datagram>>

(* The proxy puts both bytes before the payload; the device takes the      *)
(* header for a string that ends at a zero byte.                           *)
SendDatagram ==
    /\ step = "send" /\ step' = "sent"
    /\ datagram' = (IF call.sender = "device" /\ header[2] = 0
                      THEN <<header[1]>> ELSE header) \o call.payload
    /\ UNCHANGED <<call, header>>

HeaderNext == FillType \/ FillCount \/ FillSession \/ SendDatagram

HeaderSpec == HeaderInit /\ [][HeaderNext]_headerVars

-----------------------------------------------------------------------------
(* The receiver's buffer is cleared before recv.                           *)
Buffer == <<datagram[1], IF Len(datagram) > 1 THEN datagram[2] ELSE 0>>

(* Is byte 1 of the header zero?                                           *)
Zero ==
    /\ WireCount(call.count, call.session) % 2 = 0
    /\ WireSession(call.session) = 0

(* The receiver reads the type, and the count and the session that         *)
(* WireCount and WireSession say; but when byte 1 of the header is zero a  *)
(* device's payload takes its place (aaa.cpp, the masks and shifts of the  *)
(* setters and getters; device.cpp, `header + data`).                      *)
ReadAsModelled ==
    step = "sent" =>
        /\ GetType(Buffer) = call.type
        /\ LET count == WireCount(call.count, call.session)
               session == WireSession(call.session)
           IN  IF call.sender = "device" /\ Zero /\ call.payload # <<>>
                 THEN GetCount(Buffer) \in {count, count + 1}
                 ELSE GetCount(Buffer) = count
                      /\ GetSessionId(Buffer) = session
=============================================================================
