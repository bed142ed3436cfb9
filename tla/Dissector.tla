----------------------------- MODULE Dissector ------------------------------
(***************************************************************************)
(* The Wireshark dissector (src/src/wireshark/tin-aaa.lua): what it shows  *)
(* of a datagram the proxy or a device has sent.                           *)
(***************************************************************************)
EXTENDS AAAHeader

(* get_msg_type of the first byte, floor(code / 2^6).                      *)
ShownType == [n \in 0 .. 3 |-> <<"UNKNOWN", "ACK", "DATA", "ERROR">>[n + 1]]

(* ProtoFields with the masks 0x3F80 and 0x007F on the first two bytes.    *)
Word == 256 * datagram[1] + datagram[2]

(* Mutant of ShownNumber: a mask that leaves out the top bit of the count. *)
ShortNumber == (Word % 8192) \div 128

ShownNumber == (Word % 16384) \div 128

ShownSession == Word % 128

-----------------------------------------------------------------------------
(* The dissector shows what the peers read (tin-aaa.lua, the three masks,  *)
(* against the getters of aaa.cpp).                                        *)
ShownAsRead ==
    step = "sent" /\ Len(datagram) > 1 =>
        /\ ShownType[datagram[1] \div 64] = GetType(Buffer)
        /\ ShownNumber = GetCount(Buffer)
        /\ ShownSession = GetSessionId(Buffer)
=============================================================================
