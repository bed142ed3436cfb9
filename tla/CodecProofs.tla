---------------------------- MODULE CodecProofs -----------------------------
(***************************************************************************)
(* What is written at one place is read at another as it was meant: the    *)
(* header of a datagram by aaa.cpp and by the dissector, the path of a     *)
(* request by the proxy and by the device, a text that is cut into chunks, *)
(* the fields of a query string, the attributes of a header field, and a   *)
(* whole message line by line.                                             *)
(***************************************************************************)
EXTENDS Dissector, Routing, HttpParser, MCFieldTexts, TLAPS, WellFoundedInduction, SequenceTheorems

(* The bytes that the setters, in SendPacket's order, leave of a header.   *)
FirstByte(type, count) == 64 * TypeBits[type] + count \div 2

SecondByte(count, session) ==
    IF session >= 0 THEN 128 * (count % 2) + session ELSE 128 + (session % 128)

LEMMA Encoded ==
    ASSUME NEW type \in PacketType, NEW count \in 0 .. 127, NEW session \in Char
    PROVE  HeaderBytes(type, count, session) =
             <<FirstByte(type, count), SecondByte(count, session)>>
<1>1. TypeBits[type] \in 1 .. 3
  BY DEF TypeBits, PacketType
<1>2. SetType(<<0, 0>>, type) = <<64 * TypeBits[type], 0>>
  BY <1>1 DEF SetType
<1>3. SetCount(<<64 * TypeBits[type], 0>>, count) =
        <<64 * TypeBits[type] + count \div 2, 128 * (count % 2)>>
  BY <1>1 DEF SetCount
<1>4. (128 * (count % 2)) \div 128 = count % 2
  OBVIOUS
<1> QED
  BY <1>2, <1>3, <1>4 DEF HeaderBytes, SetSessionId, FirstByte, SecondByte

LEMMA EncodedIsTwoBytes ==
    ASSUME NEW type \in PacketType, NEW count \in 0 .. 127, NEW session \in Char
    PROVE  \E b1, b2 \in Byte : HeaderBytes(type, count, session) = <<b1, b2>>
<1>1. TypeBits[type] \in 1 .. 3
  BY DEF TypeBits, PacketType
<1> DEFINE b1 == FirstByte(type, count)
           b2 == SecondByte(count, session)
<1>2. b1 \in Byte
  BY <1>1 DEF Byte, FirstByte
<1>3. b2 \in Byte
  BY DEF Byte, Char, SecondByte
<1>4. HeaderBytes(type, count, session) = <<b1, b2>>
  BY Encoded
<1> HIDE DEF b1, b2
<1> QED
  BY <1>2, <1>3, <1>4

(* The getters of aaa.cpp undo its setters, but for what the sign of a     *)
(* session does to the count: type, count and session are read as          *)
(* WireCount and WireSession say, and a header byte 1 is zero only for an  *)
(* even count and a session that is 0 on the wire.                         *)
THEOREM HeaderRoundTrip ==
    ASSUME NEW type \in PacketType, NEW count \in 0 .. 127, NEW session \in Char,
           SessionMod = 128
    PROVE  LET h == HeaderBytes(type, count, session)
           IN  /\ GetType(h) = type
               /\ GetCount(h) = WireCount(count, session)
               /\ GetSessionId(h) = WireSession(session)
               /\ h[2] = 0 <=> /\ WireCount(count, session) % 2 = 0
                               /\ WireSession(session) = 0
<1> DEFINE b1 == FirstByte(type, count)
           b2 == SecondByte(count, session)
<1>1. HeaderBytes(type, count, session) = <<b1, b2>>
  BY Encoded
<1> USE DEF FirstByte, SecondByte
<1>2. TypeBits[type] \in 1 .. 3 /\ b1 \in Byte
  BY DEF TypeBits, PacketType, Byte
<1>3. b1 \div 64 = TypeBits[type] /\ b1 % 64 = count \div 2
  BY <1>2
<1>4. b2 \in Byte
  BY DEF Byte, Char
<1>5. GetType(<<b1, b2>>) = type
  BY <1>3 DEF GetType, TypeBits, PacketType
<1>6. GetCount(<<b1, b2>>) = WireCount(count, session)
  <2>1. CASE session >= 0
    <3>1. b2 \div 128 = count % 2
      BY <2>1 DEF Char
    <3> QED
      BY <2>1, <3>1, <1>3 DEF GetCount, WireCount, Char
  <2>2. CASE session < 0
    <3>1. b2 \div 128 = 1
      BY <2>2 DEF Char
    <3> QED
      BY <2>2, <3>1, <1>3 DEF GetCount, WireCount, Char
  <2> QED
    BY <2>1, <2>2 DEF Char
<1>7. GetSessionId(<<b1, b2>>) = WireSession(session)
  BY DEF GetSessionId, WireSession, Char
<1>8. b2 = 0 <=> WireCount(count, session) % 2 = 0 /\ WireSession(session) = 0
  BY DEF WireCount, WireSession, Char
<1> QED
  BY <1>1, <1>5, <1>6, <1>7, <1>8
-----------------------------------------------------------------------------
(* What SendPacket has put in the header so far, and then in the datagram. *)
HeaderSoFar ==
    /\ call \in Call
    /\ step = "type" => header = <<0, 0>>
    /\ step = "count" => header = SetType(<<0, 0>>, call.type)
    /\ step = "session" =>
          header = SetCount(SetType(<<0, 0>>, call.type), call.count)
    /\ step \in {"send", "sent"} =>
          header = HeaderBytes(call.type, call.count, call.session)
    /\ step = "sent" =>
          datagram = (IF call.sender = "device" /\ header[2] = 0
                        THEN <<header[1]>> ELSE header) \o call.payload

LEMMA HeaderSoFarInvariant == HeaderSpec => []HeaderSoFar
<1>1. HeaderInit => HeaderSoFar
  BY DEF HeaderInit, HeaderSoFar
<1>2. HeaderSoFar /\ [HeaderNext]_headerVars => HeaderSoFar'
  <2> SUFFICES ASSUME HeaderSoFar, [HeaderNext]_headerVars PROVE HeaderSoFar'
    OBVIOUS
  <2> USE DEF HeaderSoFar
  <2>1. CASE FillType
    BY <2>1 DEF FillType, Call
  <2>2. CASE FillCount
    BY <2>2 DEF FillCount, Call
  <2>3. CASE FillSession
    BY <2>3 DEF FillSession, HeaderBytes, Call
  <2>4. CASE SendDatagram
    BY <2>4 DEF SendDatagram, Call
  <2>5. CASE UNCHANGED headerVars
    BY <2>5 DEF headerVars, Call
  <2> QED
    BY <2>1, <2>2, <2>3, <2>4, <2>5 DEF HeaderNext
<1> QED
  BY <1>1, <1>2, PTL DEF HeaderSpec

(* Every datagram the proxy or a device sends is read as the protocol      *)
(* modules say: they may take a packet for a record of its fields.         *)
THEOREM DatagramsReadAsModelled == HeaderSpec => []ReadAsModelled
<1>1. HeaderSoFar => ReadAsModelled
  <2> SUFFICES ASSUME HeaderSoFar, step = "sent" PROVE ReadAsModelled
    BY DEF ReadAsModelled
  <2> DEFINE h == HeaderBytes(call.type, call.count, call.session)
             count == WireCount(call.count, call.session)
             session == WireSession(call.session)
  <2>1. /\ call.type \in PacketType /\ call.count \in 0 .. 127
        /\ call.session \in Char /\ call.payload \in Seq(Byte)
        /\ SessionMod = 128
    BY HeaderAssumption DEF HeaderSoFar, Call
  <2>2. /\ GetType(h) = call.type
        /\ GetCount(h) = count
        /\ GetSessionId(h) = session
        /\ h[2] = 0 <=> Zero
    BY <2>1, HeaderRoundTrip DEF Zero
  <2>3. PICK b1, b2 \in Byte : h = <<b1, b2>>
    BY <2>1, EncodedIsTwoBytes
  <2>4. CASE call.sender = "device" /\ Zero
    <3>1. datagram = <<b1>> \o call.payload
      BY <2>2, <2>3, <2>4 DEF HeaderSoFar
    <3>2. CASE call.payload = <<>>
      <4>1. Buffer = <<b1, 0>>
        BY <2>3, <3>1, <3>2 DEF Buffer, Byte
      <4> QED
        BY <2>2, <2>3, <2>4, <3>2, <4>1 DEF ReadAsModelled
    <3>3. CASE call.payload # <<>>
      <4>1. call.payload[1] \in Byte /\ Buffer = <<b1, call.payload[1]>>
        <5>1. Len(call.payload) \in Nat \ {0} /\ call.payload[1] \in Byte
          BY <2>1, <3>3
        <5>2. datagram[1] = b1 /\ datagram[2] = call.payload[1]
          BY <2>1, <3>1, <5>1
        <5>3. Len(datagram) > 1
          BY <2>1, <3>1, <5>1
        <5> QED
          BY <5>1, <5>2, <5>3 DEF Buffer
      <4>2. GetType(Buffer) = call.type
        BY <2>2, <2>3, <4>1 DEF GetType, Byte
      <4>3. count = 2 * (b1 % 64)
        BY <2>2, <2>3, <2>4 DEF GetCount, Byte
      <4>4. GetCount(Buffer) \in {count, count + 1}
        BY <2>3, <4>1, <4>3 DEF GetCount, Byte
      <4> QED
        BY <2>4, <3>3, <4>2, <4>4 DEF ReadAsModelled
    <3> QED
      BY <3>2, <3>3
  <2>5. CASE ~(call.sender = "device" /\ Zero)
    <3>1. datagram = <<b1, b2>> \o call.payload
      BY <2>2, <2>3, <2>5 DEF HeaderSoFar
    <3>2. Buffer = h
      BY <2>1, <2>3, <3>1 DEF Buffer, Byte
    <3> QED
      BY <2>2, <2>5, <3>2 DEF ReadAsModelled
  <2> QED
    BY <2>4, <2>5
<1> QED
  BY <1>1, HeaderSoFarInvariant, PTL

-----------------------------------------------------------------------------
(* The masks of the dissector, on the first two bytes as one number, take  *)
(* out what the getters of aaa.cpp read from each byte.                    *)
LEMMA MasksAreGetters ==
    ASSUME NEW b1 \in Byte, NEW b2 \in Byte
    PROVE  /\ ShownType[b1 \div 64] = GetType(<<b1, b2>>)
           /\ ((256 * b1 + b2) % 16384) \div 128 = GetCount(<<b1, b2>>)
           /\ (256 * b1 + b2) % 128 = GetSessionId(<<b1, b2>>)
<1>1. b1 \div 64 \in 0 .. 3
  BY DEF Byte
<1>2. ShownType[b1 \div 64] = GetType(<<b1, b2>>)
  BY <1>1 DEF ShownType, GetType
<1>3. (256 * b1 + b2) % 16384 = 256 * (b1 % 64) + b2
  BY DEF Byte
<1>4. ((256 * b1 + b2) % 16384) \div 128 = GetCount(<<b1, b2>>)
  BY <1>3 DEF GetCount, Byte
<1>5. (256 * b1 + b2) % 128 = GetSessionId(<<b1, b2>>)
  BY DEF GetSessionId, Byte
<1>6. QED
  BY <1>2, <1>4, <1>5

(* The dissector shows of every datagram that has two bytes the type, the  *)
(* count and the session that the proxy and the devices read (tin-aaa.lua).*)
THEOREM DissectorShowsAsRead == HeaderSpec => []ShownAsRead
<1>1. HeaderSoFar => ShownAsRead
  <2> SUFFICES ASSUME HeaderSoFar, step = "sent", Len(datagram) > 1
               PROVE  /\ ShownType[datagram[1] \div 64] = GetType(Buffer)
                      /\ ShownNumber = GetCount(Buffer)
                      /\ ShownSession = GetSessionId(Buffer)
    BY DEF ShownAsRead
  <2>1. /\ call.type \in PacketType /\ call.count \in 0 .. 127
        /\ call.session \in Char /\ call.payload \in Seq(Byte)
    BY HeaderAssumption DEF HeaderSoFar, Call
  <2>2. PICK b1, b2 \in Byte : HeaderBytes(call.type, call.count, call.session) = <<b1, b2>>
    BY <2>1, EncodedIsTwoBytes
  <2>3. datagram[1] \in Byte /\ datagram[2] \in Byte
    <3>1. <<b1>> \in Seq(Byte) /\ <<b1, b2>> \in Seq(Byte)
      OBVIOUS
    <3>2. header = <<b1, b2>>
      BY <2>2 DEF HeaderSoFar
    <3>3. \E s \in Seq(Byte) : datagram = s \o call.payload
      BY <3>1, <3>2 DEF HeaderSoFar
    <3>4. datagram \in Seq(Byte)
      BY <2>1, <3>3
    <3>5. QED
      BY <3>4
  <2>4. Buffer = <<datagram[1], datagram[2]>>
    BY DEF Buffer
  <2>5. QED
    BY <2>3, <2>4, MasksAreGetters DEF ShownNumber, ShownSession, Word
<1>2. QED
  BY <1>1, HeaderSoFarInvariant, PTL

-----------------------------------------------------------------------------
(* Induction. The library states it for a predicate, which the provers     *)
(* cannot instantiate; stated for a set it is a fact of first order, and   *)
(* it follows from the well-foundedness of < on the naturals.              *)

(* < on the naturals, as a relation.                                       *)
Below == OpToRel(<, Nat)

(* The relation is well-founded, and holds what it should.                 *)
LEMMA BelowIsWellFounded ==
    /\ IsWellFoundedOn(Below, Nat)
    /\ \A m, n \in Nat : m < n => <<m, n>> \in Below
<1>1. \A m, n \in Nat : m < n => <<m, n>> \in Below
  BY DEF OpToRel, Below
<1>2. IsWellFoundedOn(Below, Nat)
  BY NatLessThanWellFounded DEF Below
<1>3. QED
  BY <1>1, <1>2

(* A set of naturals that is not empty has a least one.                    *)
LEMMA LeastNatural ==
    ASSUME NEW T, T \subseteq Nat, T # {}
    PROVE  \E x \in T : \A y \in T : x <= y
<1>1. PICK x \in T : \A y \in T : ~(<<y, x>> \in Below)
  <2>1. IsWellFoundedOn(Below, Nat)
    BY BelowIsWellFounded
  <2>2. QED
    BY <2>1, WFMin, Zenon
<1>2. \A y \in T : ~(y < x)
  BY <1>1, BelowIsWellFounded
<1>3. QED
  BY <1>2

(* A set that has 0, and the successor of each natural it has, has them    *)
(* all.                                                                    *)
LEMMA NatSetInduction ==
    ASSUME NEW S, 0 \in S, \A n \in Nat : n \in S => n + 1 \in S
    PROVE  \A n \in Nat : n \in S
<1> DEFINE T == Nat \ S
<1> SUFFICES ASSUME T # {} PROVE FALSE
  OBVIOUS
<1>1. PICK x \in T : \A y \in T : x <= y
  <2>1. T \subseteq Nat
    OBVIOUS
  <2> HIDE DEF T
  <2>2. QED
    BY <2>1, LeastNatural
<1>2. x \in Nat /\ x # 0
  OBVIOUS
<1>3. x - 1 \in Nat /\ x - 1 < x /\ (x - 1) + 1 = x
  BY <1>2
<1>4. QED
  BY <1>1, <1>2, <1>3

(* A set of positions that is not empty has a greatest one, which is Max.  *)
LEMMA MaxOfSome ==
    ASSUME NEW n \in Nat, NEW s \in SUBSET (1 .. n), s # {}
    PROVE  Max(s) \in s /\ \A y \in s : y <= Max(s)
<1> DEFINE T == {k \in Nat : \A y \in s : y <= k}
<1>1. n \in T
  OBVIOUS
<1>2. PICK k \in T : \A y \in T : k <= y
  <2>1. T \subseteq Nat /\ T # {}
    BY <1>1
  <2> HIDE DEF T
  <2>2. QED
    BY <2>1, LeastNatural
<1>3. k \in s
  <2> SUFFICES ASSUME k \notin s PROVE FALSE
    OBVIOUS
  <2>1. PICK y \in s : TRUE
    OBVIOUS
  <2>2. k # 0 /\ k \in Nat
    BY <2>1
  <2>3. \A z \in s : z <= k - 1
    BY <2>2
  <2>4. k - 1 \in T
    BY <2>2, <2>3
  <2>5. QED
    BY <1>2, <2>2, <2>4
<1>4. \E x \in s : \A y \in s : x >= y
  BY <1>3
<1>5. QED
  BY <1>4 DEF Max

(* Positions 1 to n without the greatest are positions 1 to n - 1.         *)
LEMMA MaxOfInterval ==
    ASSUME NEW n \in Nat \ {0}
    PROVE  Max(1 .. n) = n /\ (1 .. n) \ {n} = 1 .. n - 1
<1>1. Max(1 .. n) \in 1 .. n /\ \A y \in 1 .. n : y <= Max(1 .. n)
  <2>1. 1 .. n \in SUBSET (1 .. n) /\ 1 .. n # {} /\ n \in Nat
    OBVIOUS
  <2>2. QED
    BY <2>1, MaxOfSome
<1>2. QED
  BY <1>1

-----------------------------------------------------------------------------
(* Folds. FoldLeft goes through the sets of positions; as far as its steps *)
(* stay in a set A, its value is what the steps from the first position to *)
(* the last lead to. F is a function of a position and a value.            *)

(* The steps of F stay in A.                                               *)
StaysIn(F, n, A) == \A k \in 1 .. n, a \in A : F[<<k, a>>] \in A

(* What a fold over the positions of a sequence computes, for each set of  *)
(* positions.                                                              *)
Folds(g, F, base, n) ==
    \A s \in SUBSET (1 .. n) :
        g[s] = IF s = {} THEN base ELSE F[<<Max(s), g[s \ {Max(s)}]>>]

(* A fold over m - 1 positions has a continuation to m.                    *)
LEMMA FoldOfOneMore ==
    ASSUME NEW A, NEW base \in A, NEW m \in Nat \ {0},
           NEW F, \A a \in A : F[<<m, a>>] \in A,
           NEW g \in [SUBSET (1 .. m - 1) -> A], Folds(g, F, base, m - 1)
    PROVE  \E h \in [SUBSET (1 .. m) -> A] : Folds(h, F, base, m)
<1> DEFINE Rest(s) == s \ {m}
           h == [s \in SUBSET (1 .. m) |->
                   IF m \in s THEN F[<<m, g[Rest(s)]>>] ELSE g[s]]
<1>1. 1 .. m - 1 = (1 .. m) \ {m}
  OBVIOUS
<1>2. \A s \in SUBSET (1 .. m) : Rest(s) \in SUBSET (1 .. m - 1) /\ m \notin Rest(s)
  BY <1>1, Zenon
<1>3. \A s \in SUBSET (1 .. m) : m \notin s => s \in SUBSET (1 .. m - 1) /\ Rest(s) = s
  BY <1>1, Zenon
<1> HIDE DEF Rest
<1>4. h \in [SUBSET (1 .. m) -> A]
  BY <1>2, <1>3, Zenon
<1>5. ASSUME NEW s \in SUBSET (1 .. m), m \in s
      PROVE  h[s] = IF s = {} THEN base ELSE F[<<Max(s), h[s \ {Max(s)}]>>]
  <2>1. Max(s) = m
    <3>1. Max(s) \in s /\ \A y \in s : y <= Max(s)
      BY <1>5, MaxOfSome
    <3>2. Max(s) \in 1 .. m /\ m <= Max(s)
      BY <1>5, <3>1
    <3>3. QED
      BY <3>2
  <2>2. h[s] = F[<<m, g[Rest(s)]>>]
    BY <1>5, Zenon
  <2>3. h[Rest(s)] = g[Rest(s)]
    <3>1. Rest(s) \in SUBSET (1 .. m) /\ m \notin Rest(s)
      BY <1>2, Zenon DEF Rest
    <3>2. QED
      BY <3>1, Zenon
  <2>4. s # {} /\ s \ {m} = Rest(s)
    BY <1>5 DEF Rest
  <2> HIDE DEF h
  <2>5. QED
    BY <2>1, <2>2, <2>3, <2>4
<1>6. ASSUME NEW s \in SUBSET (1 .. m), m \notin s
      PROVE  h[s] = IF s = {} THEN base ELSE F[<<Max(s), h[s \ {Max(s)}]>>]
  <2>1. h[s] = g[s] /\ s \in SUBSET (1 .. m - 1)
    BY <1>3, <1>6, Zenon
  <2>2. h[s \ {Max(s)}] = g[s \ {Max(s)}]
    <3>1. s \ {Max(s)} \in SUBSET (1 .. m) /\ m \notin s \ {Max(s)}
      BY <1>6, Zenon
    <3>2. QED
      BY <3>1, Zenon
  <2> HIDE DEF h
  <2>3. QED
    BY <2>1, <2>2, Zenon DEF Folds
<1> HIDE DEF h
<1>7. Folds(h, F, base, m)
  BY <1>5, <1>6, Zenon DEF Folds
<1>8. QED
  BY <1>4, <1>7, Zenon

(* There is a function with the values a fold defines: CHOOSE finds one.   *)
LEMMA FoldExists ==
    ASSUME NEW A, NEW base \in A, NEW n \in Nat,
           NEW F, StaysIn(F, n, A)
    PROVE  \E g \in [SUBSET (1 .. n) -> A] : Folds(g, F, base, n)
<1> DEFINE Ok(k) == \E g \in [SUBSET (1 .. k) -> A] : Folds(g, F, base, k)
           S == {k \in Nat : k <= n => Ok(k)}
<1>1. Ok(0)
  <2> DEFINE g == [s \in SUBSET (1 .. 0) |-> base]
  <2>1. 1 .. 0 = {}
    OBVIOUS
  <2>2. g \in [SUBSET (1 .. 0) -> A]
    BY Zenon
  <2>3. Folds(g, F, base, 0)
    BY <2>1, Zenon DEF Folds
  <2> HIDE DEF g
  <2>4. QED
    BY <2>2, <2>3, Zenon
<1>2. ASSUME NEW k \in Nat, k + 1 <= n, Ok(k) PROVE Ok(k + 1)
  <2> DEFINE m == k + 1
  <2>1. m \in Nat \ {0} /\ m \in 1 .. n /\ k = m - 1
    BY <1>2
  <2> HIDE DEF m
  <2>2. \A a \in A : F[<<m, a>>] \in A
    BY <2>1 DEF StaysIn
  <2>3. PICK g \in [SUBSET (1 .. m - 1) -> A] : Folds(g, F, base, m - 1)
    BY <1>2, <2>1, Zenon
  <2>4. \E h \in [SUBSET (1 .. m) -> A] : Folds(h, F, base, m)
    BY <2>1, <2>2, <2>3, FoldOfOneMore, Zenon
  <2>5. QED
    BY <2>4 DEF m
<1> HIDE DEF Ok
<1>3. 0 \in S
  BY <1>1
<1>4. \A k \in Nat : k \in S => k + 1 \in S
  BY <1>2
<1> HIDE DEF S
<1>5. n \in S
  BY <1>3, <1>4, NatSetInduction
<1>6. Ok(n)
  BY <1>5 DEF S
<1>7. QED
  BY <1>6 DEF Ok

(* What a fold is defined by, as far as its steps stay in A.               *)
IsFold(h, F, base, n, A) ==
    /\ h[{}] = base
    /\ \A t \in SUBSET (1 .. n) :
          t # {} /\ h[t \ {Max(t)}] \in A => h[t] = F[<<Max(t), h[t \ {Max(t)}]>>]

(* The steps of F from the first position to the last.                     *)
Steps(items, F, base, n) ==
    /\ items[0] = base
    /\ \A k \in 1 .. n : items[k] = F[<<k, items[k - 1]>>]

(* A fold h over all positions is what the steps lead to.                  *)
LEMMA FoldSteps ==
    ASSUME NEW A, NEW base \in A, NEW n \in Nat,
           NEW F, StaysIn(F, n, A), NEW h, IsFold(h, F, base, n, A)
    PROVE  \E items \in [0 .. n -> A] : Steps(items, F, base, n) /\ items[n] = h[1 .. n]
<1> DEFINE items == [k \in 0 .. n |-> h[1 .. k]]
           S == {k \in Nat : k <= n => h[1 .. k] \in A}
<1>1. 1 .. 0 = {}
  OBVIOUS
<1>2. ASSUME NEW k \in 1 .. n, h[1 .. k - 1] \in A
      PROVE  h[1 .. k] = F[<<k, h[1 .. k - 1]>>]
  <2>1. 1 .. k \in SUBSET (1 .. n) /\ 1 .. k # {} /\ k \in Nat \ {0}
    OBVIOUS
  <2>2. Max(1 .. k) = k /\ (1 .. k) \ {k} = 1 .. k - 1
    BY <2>1, MaxOfInterval
  <2>3. QED
    BY <1>2, <2>1, <2>2, Zenon DEF IsFold
<1>3. 0 \in S
  BY <1>1 DEF IsFold
<1>4. ASSUME NEW k \in Nat, k \in S PROVE k + 1 \in S
  <2> SUFFICES ASSUME k + 1 <= n PROVE h[1 .. k + 1] \in A
    OBVIOUS
  <2>1. k + 1 \in 1 .. n /\ (k + 1) - 1 = k /\ h[1 .. k] \in A
    BY <1>4
  <2>2. h[1 .. k + 1] = F[<<k + 1, h[1 .. k]>>]
    BY <1>2, <2>1
  <2>3. QED
    BY <2>1, <2>2 DEF StaysIn
<1> HIDE DEF S
<1>5. \A k \in Nat : k \in S
  BY <1>3, <1>4, NatSetInduction
<1>6. \A k \in 0 .. n : h[1 .. k] \in A
  BY <1>5 DEF S
<1>7. items \in [0 .. n -> A]
  BY <1>6, Zenon
<1>8. 0 \in 0 .. n /\ n \in 0 .. n /\ \A k \in 1 .. n : k \in 0 .. n /\ k - 1 \in 0 .. n
  OBVIOUS
<1>9. items[0] = base /\ items[n] = h[1 .. n]
  BY <1>1, <1>8, Zenon DEF IsFold
<1>10. \A k \in 1 .. n : items[k] = F[<<k, items[k - 1]>>]
  BY <1>2, <1>6, <1>8, Zenon
<1> HIDE DEF items
<1>11. QED
  BY <1>7, <1>9, <1>10 DEF Steps

-----------------------------------------------------------------------------
(* Texts: what concatenation, SubSeq, Front and the searches return.       *)

(* u is s and then t, character by character.                              *)
IsConcat(u, C, s, t) ==
    /\ u \in Seq(C) /\ Len(u) = Len(s) + Len(t)
    /\ \A i \in 1 .. Len(s) : u[i] = s[i]
    /\ \A i \in 1 .. Len(t) : u[Len(s) + i] = t[i]

(* s \o t is.                                                              *)
LEMMA Concatenated ==
    ASSUME NEW C, NEW s \in Seq(C), NEW t \in Seq(C)
    PROVE  IsConcat(s \o t, C, s, t)
<1>1. Len(s) \in Nat /\ Len(t) \in Nat
  OBVIOUS
<1>2. /\ s \o t \in Seq(C) /\ Len(s \o t) = Len(s) + Len(t)
      /\ \A i \in 1 .. Len(s) + Len(t) : (s \o t)[i] =
            IF i <= Len(s) THEN s[i] ELSE t[i - Len(s)]
  BY ConcatProperties
<1>3. PICK u : u = s \o t
  OBVIOUS
<1>4. /\ u \in Seq(C) /\ Len(u) = Len(s) + Len(t)
      /\ \A i \in 1 .. Len(s) + Len(t) : u[i] =
            IF i <= Len(s) THEN s[i] ELSE t[i - Len(s)]
  BY <1>2, <1>3, Zenon
<1>5. \A i \in 1 .. Len(t) : u[Len(s) + i] = t[i]
  <2> TAKE i \in 1 .. Len(t)
  <2> DEFINE j == Len(s) + i
  <2>1. j \in 1 .. Len(s) + Len(t) /\ ~(j <= Len(s)) /\ j - Len(s) = i
    BY <1>1
  <2> HIDE DEF j
  <2>2. u[j] = t[i]
    BY <1>4, <2>1
  <2>3. QED
    BY <2>2 DEF j
<1>6. \A i \in 1 .. Len(s) : u[i] = s[i]
  <2> TAKE i \in 1 .. Len(s)
  <2>1. i \in 1 .. Len(s) + Len(t) /\ i <= Len(s)
    BY <1>1
  <2>2. QED
    BY <1>4, <2>1
<1>7. IsConcat(u, C, s, t)
  BY <1>4, <1>5, <1>6, Zenon DEF IsConcat
<1>8. QED
  BY <1>3, <1>7, Zenon

(* s is a, then c, then b, character by character.                         *)
IsAround(s, C, a, c, b) ==
    /\ s \in Seq(C) /\ Len(s) = Len(a) + 1 + Len(b)
    /\ \A i \in 1 .. Len(a) : s[i] = a[i]
    /\ s[Len(a) + 1] = c
    /\ \A i \in 1 .. Len(b) : s[Len(a) + 1 + i] = b[i]

(* a \o <<c>> \o b is.                                                     *)
LEMMA Around ==
    ASSUME NEW C, NEW a \in Seq(C), NEW c \in C, NEW b \in Seq(C)
    PROVE  IsAround(a \o <<c>> \o b, C, a, c, b)
<1>1. PICK d : d = <<c>>
  OBVIOUS
<1>2. PICK t : t = a \o d
  OBVIOUS
<1>3. d \in Seq(C) /\ Len(d) = 1 /\ d[1] = c /\ Len(a) \in Nat /\ Len(b) \in Nat
  BY <1>1
<1>4. IsConcat(t, C, a, d)
  BY <1>2, <1>3, Concatenated, Zenon
<1>5. t \in Seq(C) /\ Len(t) = Len(a) + 1 /\ t[Len(a) + 1] = c
  <2>1. 1 \in 1 .. Len(d)
    BY <1>3
  <2>2. t[Len(a) + 1] = d[1]
    BY <1>4, <2>1 DEF IsConcat
  <2>3. QED
    BY <1>3, <1>4, <2>2 DEF IsConcat
<1>6. PICK s : s = t \o b
  OBVIOUS
<1>7. IsConcat(s, C, t, b)
  BY <1>5, <1>6, Concatenated, Zenon
<1>8. \A i \in 1 .. Len(a) : s[i] = a[i]
  BY <1>3, <1>4, <1>5, <1>7 DEF IsConcat
<1>9. s[Len(a) + 1] = c /\ Len(s) = Len(a) + 1 + Len(b)
  <2>1. Len(a) + 1 \in 1 .. Len(t)
    BY <1>3, <1>5
  <2>2. QED
    BY <1>5, <1>7, <2>1 DEF IsConcat
<1>10. \A i \in 1 .. Len(b) : s[Len(a) + 1 + i] = b[i]
  BY <1>5, <1>7 DEF IsConcat
<1>11. IsAround(s, C, a, c, b)
  BY <1>7, <1>8, <1>9, <1>10 DEF IsAround, IsConcat
<1>12. QED
  BY <1>1, <1>2, <1>6, <1>11, Zenon

(* The characters of a part of a text.                                     *)
LEMMA PartOf ==
    ASSUME NEW C, NEW s \in Seq(C), NEW from \in 1 .. Len(s) + 1, NEW to \in from - 1 .. Len(s)
    PROVE  /\ SubSeq(s, from, to) \in Seq(C)
           /\ Len(SubSeq(s, from, to)) = to - from + 1
           /\ \A i \in 1 .. to - from + 1 : SubSeq(s, from, to)[i] = s[from + i - 1]
<1>1. Len(s) \in Nat /\ from \in Int /\ to \in Int /\ \A i \in 1 .. Len(s) : s[i] \in C
  OBVIOUS
<1>2. \A i \in from .. to : s[i] \in C
  BY <1>1
<1>3. /\ SubSeq(s, from, to) \in Seq(C)
      /\ Len(SubSeq(s, from, to)) = IF from <= to THEN to - from + 1 ELSE 0
      /\ \A i \in 1 .. to - from + 1 : SubSeq(s, from, to)[i] = s[from + i - 1]
  BY <1>1, <1>2, SubSeqProperties
<1>4. QED
  BY <1>1, <1>3

(* A text is what is before one of its characters, the character, and what *)
(* is after it.                                                            *)
LEMMA CutAround ==
    ASSUME NEW C, NEW s \in Seq(C), NEW k \in 1 .. Len(s)
    PROVE  /\ s = SubSeq(s, 1, k - 1) \o <<s[k]>> \o SubSeq(s, k + 1, Len(s))
           /\ SubSeq(s, 1, k - 1) \in Seq(C)
           /\ SubSeq(s, k + 1, Len(s)) \in Seq(C)
<1>1. PICK n : n = Len(s)
  OBVIOUS
<1>2. n \in Nat /\ k \in 1 .. n /\ s[k] \in C
  BY <1>1
<1>3. SubSeq(s, 1, k) = SubSeq(s, 1, k - 1) \o <<s[k]>>
  <2>1. 1 \in 1 .. Len(s) /\ k \in 1 .. Len(s)
    BY <1>1, <1>2
  <2>2. QED
    BY <2>1, SubSeqRecursiveSecond
<1>4. SubSeq(s, 1, k) \o SubSeq(s, k + 1, n) = SubSeq(s, 1, n)
  <2>1. 1 \in 1 .. Len(s) + 1 /\ k \in 1 - 1 .. Len(s) /\ n \in k .. Len(s)
    BY <1>1, <1>2
  <2>2. QED
    BY <2>1, ConcatAdjacentSubSeq
<1>5. SubSeq(s, 1, n) = s
  BY <1>1, SubSeqFull
<1>6. SubSeq(s, 1, k - 1) \in Seq(C)
  <2>1. 1 \in 1 .. Len(s) + 1 /\ k - 1 \in 1 - 1 .. Len(s)
    BY <1>1, <1>2
  <2> DEFINE j == k - 1
  <2>2. j \in 1 - 1 .. Len(s)
    BY <2>1
  <2> HIDE DEF j
  <2>3. SubSeq(s, 1, j) \in Seq(C)
    BY <2>1, <2>2, PartOf
  <2>4. QED
    BY <2>3 DEF j
<1>7. SubSeq(s, k + 1, n) \in Seq(C)
  <2> DEFINE j == k + 1
  <2>1. j \in 1 .. Len(s) + 1 /\ n \in j - 1 .. Len(s)
    BY <1>1, <1>2
  <2> HIDE DEF j
  <2>2. SubSeq(s, j, n) \in Seq(C)
    BY <2>1, PartOf
  <2>3. QED
    BY <2>2 DEF j
<1>8. QED
  BY <1>1, <1>3, <1>4, <1>5, <1>6, <1>7

(* Two parts, one after the other.                                         *)
LEMMA TwoParts == ASSUME NEW E, NEW a \in E, NEW s \in E PROVE <<a>> \o <<s>> = <<a, s>>
<1>1. PICK x : x = <<a>>
  OBVIOUS
<1>2. PICK y : y = <<s>>
  OBVIOUS
<1>3. PICK z : z = <<a, s>>
  OBVIOUS
<1>4. PICK u : u = x \o y
  OBVIOUS
<1>5. x \in Seq(E) /\ y \in Seq(E) /\ Len(x) = 1 /\ Len(y) = 1 /\ x[1] = a /\ y[1] = s
  BY <1>1, <1>2
<1>6. z \in Seq(E) /\ Len(z) = 2 /\ z[1] = a /\ z[2] = s
  BY <1>3
<1>7. IsConcat(u, E, x, y)
  BY <1>4, <1>5, Concatenated, Zenon
<1>8. u \in Seq(E) /\ Len(u) = 2 /\ u[1] = a /\ u[2] = s
  <2>1. 1 \in 1 .. Len(x) /\ 1 \in 1 .. Len(y)
    BY <1>5
  <2>2. u[1] = x[1] /\ u[Len(x) + 1] = y[1]
    BY <1>7, <2>1, Zenon DEF IsConcat
  <2>3. QED
    BY <1>5, <1>7, <2>2 DEF IsConcat
<1>9. u = z
  BY <1>6, <1>8
<1>10. QED
  BY <1>1, <1>2, <1>3, <1>4, <1>9, Zenon

(* What Front and Last are of a sequence that is not empty.                *)
LEMMA FrontProperties ==
    ASSUME NEW E, NEW s \in Seq(E) \ {<<>>}
    PROVE  /\ Front(s) \in Seq(E) /\ Len(Front(s)) = Len(s) - 1
           /\ \A i \in 1 .. Len(s) - 1 : Front(s)[i] = s[i]
           /\ Len(s) \in Nat \ {0} /\ Last(s) = s[Len(s)] /\ Last(s) \in E
<1> DEFINE n == Len(s) - 1
<1>1. n \in Nat /\ n + 1 = Len(s) /\ \A i \in 1 .. Len(s) : s[i] \in E
  BY EmptySeq
<1>2. Len(s) \in 1 .. Len(s) /\ Len(s) \in Nat \ {0} /\ Last(s) = s[Len(s)]
  BY <1>1 DEF Last
<1>3. Front(s) = SubSeq(s, 1, n)
  BY DEF Front
<1>4. \A i \in 1 .. n : s[i] \in E
  BY <1>1
<1> HIDE DEF n
<1>5. /\ SubSeq(s, 1, n) \in Seq(E)
      /\ Len(SubSeq(s, 1, n)) = IF 1 <= n THEN n - 1 + 1 ELSE 0
      /\ \A i \in 1 .. n - 1 + 1 : SubSeq(s, 1, n)[i] = s[1 + i - 1]
  BY <1>1, <1>4, SubSeqProperties
<1>6. Len(SubSeq(s, 1, n)) = n /\ \A i \in 1 .. n : SubSeq(s, 1, n)[i] = s[i]
  BY <1>1, <1>5
<1>7. QED
  BY <1>1, <1>2, <1>3, <1>5, <1>6 DEF n

(* Front and Last do not look at what is before a sequence that is not     *)
(* empty.                                                                  *)
LEMMA FrontOfPrefixed ==
    ASSUME NEW E, NEW x \in E, NEW s \in Seq(E) \ {<<>>}
    PROVE  /\ Front(<<x>> \o s) = <<x>> \o Front(s)
           /\ Last(<<x>> \o s) = Last(s)
           /\ Front(s) \in Seq(E)
           /\ Last(s) \in E
<1> DEFINE n == Len(s)
           t == <<x>> \o s
<1>1. n \in Nat \ {0} /\ \A i \in 1 .. n : s[i] \in E
  BY EmptySeq
<1>2. t \in Seq(E) /\ Len(t) = n + 1 /\ t[1] = x /\ \A i \in 1 .. n : t[i + 1] = s[i]
  <2>1. <<x>> \in Seq(E) /\ Len(<<x>>) = 1 /\ <<x>>[1] = x
    OBVIOUS
  <2> DEFINE u == <<x>>
  <2> HIDE DEF u
  <2>2. u \o s \in Seq(E) /\ Len(u \o s) = 1 + n
        /\ \A i \in 1 .. 1 + n : (u \o s)[i] = IF i <= 1 THEN u[i] ELSE s[i - 1]
    BY <2>1, ConcatProperties DEF u
  <2>3. QED
    BY <1>1, <2>1, <2>2 DEF u
<1>3. Last(t) = Last(s) /\ Last(s) \in E
  BY <1>1, <1>2 DEF Last
<1>4. Front(s) \in Seq(E) /\ Len(Front(s)) = n - 1 /\ \A i \in 1 .. n - 1 : Front(s)[i] = s[i]
  BY FrontProperties
<1>5. Front(t) \in Seq(E) /\ Len(Front(t)) = n /\ \A i \in 1 .. n : Front(t)[i] = t[i]
  <2> HIDE DEF t
  <2>1. t # <<>>
    BY <1>1, <1>2
  <2>2. t \in Seq(E) \ {<<>>} /\ n = Len(t) - 1
    BY <1>1, <1>2, <2>1
  <2> HIDE DEF n
  <2>3. /\ Front(t) \in Seq(E) /\ Len(Front(t)) = Len(t) - 1
        /\ \A i \in 1 .. Len(t) - 1 : Front(t)[i] = t[i]
    BY <2>2, FrontProperties
  <2>4. QED
    BY <2>2, <2>3
<1>6. Front(t) = <<x>> \o Front(s)
  <2> DEFINE f == Front(s)
             v == <<x>> \o f
  <2>1. <<x>> \in Seq(E) /\ Len(<<x>>) = 1 /\ <<x>>[1] = x
    OBVIOUS
  <2> DEFINE u == <<x>>
  <2> HIDE DEF u, f
  <2>2. v \in Seq(E) /\ Len(v) = 1 + (n - 1)
        /\ \A i \in 1 .. 1 + (n - 1) : v[i] = IF i <= 1 THEN u[i] ELSE f[i - 1]
    BY <1>4, <2>1, ConcatProperties DEF u, f
  <2>3. Len(v) = Len(Front(t))
    BY <1>1, <1>5, <2>2
  <2>4. \A i \in 1 .. n : v[i] = Front(t)[i]
    <3> TAKE i \in 1 .. n
    <3>1. CASE i = 1
      BY <1>1, <1>2, <1>5, <2>1, <2>2, <3>1 DEF u
    <3>2. CASE i # 1
      <4>1. i - 1 \in 1 .. n - 1 /\ i - 1 \in 1 .. n /\ (i - 1) + 1 = i
        BY <1>1, <3>2
      <4>2. v[i] = s[i - 1]
        BY <1>4, <2>2, <3>2, <4>1 DEF f
      <4>3. Front(t)[i] = s[i - 1]
        BY <1>2, <1>5, <4>1
      <4>4. QED
        BY <4>2, <4>3
    <3>3. QED
      BY <3>1, <3>2
  <2> HIDE DEF v, t
  <2>5. QED
    BY <1>5, <2>2, <2>3, <2>4, SeqEqual DEF v, f, u
<1>7. QED
  BY <1>3, <1>4, <1>6

(* FindFrom returns the first position of the character, or 0.             *)
LEMMA FindsFirst ==
    ASSUME NEW s, Len(s) \in Nat, NEW c, NEW from \in Nat
    PROVE  \/ /\ FindFrom(s, c, from) = 0
              /\ \A i \in from .. Len(s) : s[i] # c
           \/ /\ FindFrom(s, c, from) \in from .. Len(s)
              /\ s[FindFrom(s, c, from)] = c
              /\ \A i \in from .. FindFrom(s, c, from) - 1 : s[i] # c
<1> DEFINE I == {i \in from .. Len(s) : s[i] = c}
<1>1. FindFrom(s, c, from) = IF I # {} THEN Min(I) ELSE 0
  BY DEF FindFrom, SelectInSubSeq
<1>2. CASE I = {}
  BY <1>1, <1>2
<1>3. CASE I # {}
  <2>1. I \subseteq Nat
    OBVIOUS
  <2>2. \E x \in I : \A y \in I : x <= y
    <3> HIDE DEF I
    <3>1. QED
      BY <1>3, <2>1, LeastNatural
  <2>3. Min(I) \in I /\ \A y \in I : Min(I) <= y
    <3> HIDE DEF I
    <3>1. QED
      BY <2>2 DEF Min
  <2>4. PICK m : m = Min(I)
    OBVIOUS
  <2>5. m \in from .. Len(s) /\ s[m] = c
    BY <2>3, <2>4
  <2>6. \A i \in from .. m - 1 : s[i] # c
    <3> SUFFICES ASSUME NEW i \in from .. m - 1, s[i] = c PROVE FALSE
      OBVIOUS
    <3>1. i \in I /\ i < m
      BY <2>5
    <3>2. QED
      BY <2>3, <2>4, <2>5, <3>1
  <2>7. FindFrom(s, c, from) = m
    BY <1>1, <1>3, <2>4
  <2>8. QED
    BY <2>5, <2>6, <2>7
<1>4. QED
  BY <1>2, <1>3

(* FindFrom returns the position that is the first.                        *)
LEMMA FindsAt ==
    ASSUME NEW s, Len(s) \in Nat, NEW c, NEW from \in Nat \ {0}, NEW k \in from .. Len(s),
           s[k] = c, \A i \in from .. k - 1 : s[i] # c
    PROVE  FindFrom(s, c, from) = k
<1>1. PICK f : f = FindFrom(s, c, from)
  OBVIOUS
<1>2. \/ /\ f = 0
         /\ \A i \in from .. Len(s) : s[i] # c
      \/ /\ f \in from .. Len(s)
         /\ s[f] = c
         /\ \A i \in from .. f - 1 : s[i] # c
  BY <1>1, FindsFirst
<1>3. QED
  BY <1>1, <1>2

(* The last position of c between two positions.                           *)
LastOf(s, c, from, to) == SelectLastInSubSeq(s, from, to, LAMBDA x : x = c)

(* LastOf returns such a position, or 0.                                   *)
LEMMA FindsTheLast ==
    ASSUME NEW s, NEW c, NEW from \in Nat \ {0}, NEW to \in Nat
    PROVE  LastOf(s, c, from, to) = 0 \/
           (LastOf(s, c, from, to) \in from .. to /\ s[LastOf(s, c, from, to)] = c)
<1> DEFINE I == {i \in from .. to : s[i] = c}
<1>1. LastOf(s, c, from, to) = IF I # {} THEN Max(I) ELSE 0
  BY DEF LastOf, SelectLastInSubSeq
<1>2. ASSUME I # {} PROVE Max(I) \in I
  <2>1. I \in SUBSET (1 .. to)
    OBVIOUS
  <2> HIDE DEF I
  <2>2. QED
    BY <1>2, <2>1, MaxOfSome
<1>3. LastOf(s, c, from, to) = 0 \/ LastOf(s, c, from, to) \in I
  BY <1>1, <1>2
<1>4. QED
  BY <1>3

(* The characters that are looked for are different ones.                  *)
LEMMA Characters ==
    /\ "G" # "/" /\ "G" # SP /\ "G" # LF /\ "?" # "/" /\ "?" # SP /\ "?" # LF
    /\ SP # "/" /\ SP # LF /\ LF # "/"
<1>1. "G" # "/" /\ "?" # "/"
  OBVIOUS
<1>2. "G" # SP
  BY Zenon DEF SP
<1>3. "?" # SP
  BY Zenon DEF SP
<1>4. SP # "/"
  BY Zenon DEF SP
<1>5. SP # LF
  BY Zenon DEF SP, LF
<1>6. "G" # LF
  BY Zenon DEF LF
<1>7. "?" # LF
  BY Zenon DEF LF
<1>8. LF # "/"
  BY Zenon DEF LF
<1>9. QED
  BY <1>1, <1>2, <1>3, <1>4, <1>5, <1>6, <1>7, <1>8

-----------------------------------------------------------------------------
(* chunk_data.                                                             *)

(* FlattenSeq, unfolded.                                                   *)
LEMMA FlattenIsRecursive ==
    ASSUME NEW seqs, Len(seqs) # 0
    PROVE  FlattenSeq(seqs) =
             (CHOOSE g : g = [k \in 1 .. Len(seqs) |->
                                IF k = 1 THEN seqs[k] ELSE g[k - 1] \o seqs[k]])[Len(seqs)]
BY DEF FlattenSeq

(* g is the text up to each of the n parts.                                *)
Joins(g, seqs, n) ==
    /\ Len(seqs) = n
    /\ g[1] = seqs[1]
    /\ \A k \in 1 .. n : k # 1 => g[k] = g[k - 1] \o seqs[k]

(* FlattenSeq returns the text up to the last part.                        *)
LEMMA Flattened ==
    ASSUME NEW seqs, NEW n \in Nat \ {0}, NEW g, Joins(g, seqs, n)
    PROVE  FlattenSeq(seqs) = g[n]
<1> USE DEF Joins
<1> DEFINE Rec(f) == f = [k \in 1 .. n |-> IF k = 1 THEN seqs[k] ELSE f[k - 1] \o seqs[k]]
<1>1. PICK h : Rec(h) /\ FlattenSeq(seqs) = h[n]
  <2>1. FlattenSeq(seqs) = (CHOOSE f : Rec(f))[n]
    BY FlattenIsRecursive
  <2>2. \E f : Rec(f)
    <3> DEFINE f == [k \in 1 .. n |-> g[k]]
               e == [k \in 1 .. n |-> IF k = 1 THEN seqs[k] ELSE f[k - 1] \o seqs[k]]
    <3>1. \A k \in 1 .. n : k # 1 => k - 1 \in 1 .. n
      OBVIOUS
    <3>2. \A k \in 1 .. n : f[k] = e[k]
      BY <3>1
    <3>3. f = e
      <4>1. f = [k \in 1 .. n |-> f[k]] /\ e = [k \in 1 .. n |-> e[k]]
        OBVIOUS
      <4> HIDE DEF e, f
      <4>2. [k \in 1 .. n |-> f[k]] = [k \in 1 .. n |-> e[k]]
        BY <3>2
      <4>3. QED
        BY <4>1, <4>2, Zenon
    <3>4. Rec(f)
      BY <3>3, Zenon
    <3> HIDE DEF f, e
    <3>5. QED
      BY <3>4
  <2> HIDE DEF Rec
  <2>3. Rec(CHOOSE f : Rec(f))
    BY <2>2, Zenon
  <2>4. QED
    BY <2>1, <2>3
<1>2. h[1] = g[1]
  <2>1. 1 \in 1 .. n
    OBVIOUS
  <2>2. QED
    BY <1>1, <2>1
<1> DEFINE S == {m \in Nat : m + 1 \in 1 .. n => h[m + 1] = g[m + 1]}
<1>3. 0 \in S
  BY <1>2
<1>4. ASSUME NEW m \in Nat, m \in S PROVE m + 1 \in S
  <2> SUFFICES ASSUME (m + 1) + 1 \in 1 .. n PROVE h[(m + 1) + 1] = g[(m + 1) + 1]
    OBVIOUS
  <2>1. h[m + 1] = g[m + 1]
    BY <1>4
  <2> DEFINE k == (m + 1) + 1
  <2>2. k \in 1 .. n /\ k # 1 /\ k - 1 = m + 1
    OBVIOUS
  <2> HIDE DEF k
  <2>3. h[k] = h[k - 1] \o seqs[k] /\ g[k] = g[k - 1] \o seqs[k]
    BY <1>1, <2>2
  <2>4. QED
    BY <2>1, <2>2, <2>3 DEF k
<1> HIDE DEF S
<1>5. \A m \in Nat : m \in S
  BY <1>3, <1>4, NatSetInduction
<1>6. n - 1 \in Nat /\ n - 1 \in S /\ (n - 1) + 1 = n /\ n \in 1 .. n
  BY <1>5
<1>7. QED
  BY <1>1, <1>6 DEF S

(* The number of chunks is the size divided by the size of a chunk,        *)
(* rounded up.                                                             *)
LEMMA ChunkCount ==
    ASSUME NEW n \in Nat, NEW size \in Nat \ {0}
    PROVE  LET q == (n + size - 1) \div size
           IN  q \in Nat /\ n <= q * size /\ (q = 0 <=> n = 0) /\ (q > 0 => (q - 1) * size < n)
<1> DEFINE q == (n + size - 1) \div size
           r == (n + size - 1) % size
<1>1. q \in Int /\ r \in 0 .. size - 1 /\ n + size - 1 = size * q + r
  OBVIOUS
<1> HIDE DEF q, r
<1>2. size * q = q * size /\ (q - 1) * size = q * size - size
  BY <1>1
<1>3. q >= 0
  BY <1>1
<1>4. QED
  BY <1>1, <1>2, <1>3 DEF q

(* The positions at which chunks end.                                      *)
LEMMA Multiples ==
    ASSUME NEW size \in Nat \ {0}, NEW k \in Nat, NEW q \in Nat, k < q
    PROVE  /\ k * size \in Nat /\ (k + 1) * size = k * size + size
           /\ (k + 1) * size <= q * size
           /\ k + 1 < q => (k + 1) * size <= (q - 1) * size
<1>1. k * size \in Nat /\ (k + 1) * size = k * size + size
  OBVIOUS
<1>2. \A a, b \in Nat : a <= b => a * size <= b * size
  OBVIOUS
<1>3. QED
  BY <1>1, <1>2

(* The chunks are the whole text, and all but the last are full.           *)
LEMMA ChunksOf ==
    ASSUME NEW C, NEW data \in Seq(C), NEW size \in Nat \ {0}
    PROVE  LET chunks == chunk_data(data, size)
           IN  /\ FlattenSeq(chunks) = data
               /\ \A k \in DOMAIN chunks :
                     IF k < Len(chunks) THEN Len(chunks[k]) = size
                                        ELSE Len(chunks[k]) \in 1 .. size
<1> DEFINE n == Len(data)
           q == (n + size - 1) \div size
           To(k) == IF k * size < n THEN k * size ELSE n
           chunks == [k \in 1 .. q |-> SubSeq(data, (k - 1) * size + 1, To(k))]
           g == [k \in 1 .. q |-> SubSeq(data, 1, To(k))]
<1>1. chunk_data(data, size) = chunks
  BY DEF chunk_data
<1>2. n \in Nat /\ DOMAIN data = 1 .. n
  OBVIOUS
<1>3. q \in Nat /\ n <= q * size /\ (q = 0 <=> n = 0) /\ (q > 0 => (q - 1) * size < n)
  <2> HIDE DEF n
  <2>1. QED
    BY <1>2, ChunkCount
<1> HIDE DEF q, n
<1>4. \A k \in 1 .. q :
         /\ (k - 1) * size \in Nat /\ k * size = (k - 1) * size + size /\ k * size \in Nat
         /\ (k - 1) * size < n
         /\ k < q => k * size < n
         /\ k = q => n <= k * size
  <2> TAKE k \in 1 .. q
  <2>1. k - 1 \in Nat /\ k - 1 < q /\ (k - 1) + 1 = k /\ q > 0 /\ q \in Nat
    BY <1>3
  <2> DEFINE j == k - 1
  <2>2. j \in Nat /\ j < q /\ k = j + 1
    BY <2>1
  <2> HIDE DEF j
  <2>3. /\ j * size \in Nat /\ (j + 1) * size = j * size + size
        /\ (j + 1) * size <= q * size
        /\ j + 1 < q => (j + 1) * size <= (q - 1) * size
    BY <1>3, <2>2, Multiples
  <2>4. k * size = j * size + size /\ k * size \in Nat
    BY <2>2, <2>3
  <2>5. j * size < n
    <3>1. CASE k = q
      <4>1. q - 1 = j
        BY <3>1, <2>2
      <4>2. (q - 1) * size = j * size
        BY <4>1
      <4>3. QED
        BY <1>3, <2>1, <4>2
    <3>2. CASE k # q
      <4>1. j + 1 < q
        BY <3>2, <2>2, <1>3
      <4>2. j * size <= (q - 1) * size
        BY <2>3, <4>1, <1>3
      <4>3. QED
        BY <1>2, <1>3, <2>1, <2>3, <4>2
    <3>3. QED
      BY <3>1, <3>2
  <2>6. k < q => k * size < n
    <3>1. k < q => k * size <= (q - 1) * size
      BY <2>2, <2>3
    <3> DEFINE x == k * size
               y == (q - 1) * size
    <3>2. y \in Int
      BY <1>3
    <3> HIDE DEF x, y
    <3>3. QED
      BY <1>2, <1>3, <2>1, <2>4, <3>1, <3>2 DEF x, y
  <2>7. k = q => n <= k * size
    BY <1>3
  <2>8. QED
    BY <2>3, <2>4, <2>5, <2>6, <2>7 DEF j
<1>5. \A k \in 1 .. q : /\ To(k) \in 1 .. n /\ (k - 1) * size + 1 \in 1 .. n
                        /\ k < q => To(k) = k * size
                        /\ k = q => To(k) = n
                        /\ To(k) - (k - 1) * size \in 1 .. size
  <2> TAKE k \in 1 .. q
  <2> DEFINE x == k * size
             y == (k - 1) * size
  <2>1. y \in Nat /\ x = y + size /\ x \in Nat /\ y < n /\ (k < q => x < n) /\ (k = q => n <= x)
    BY <1>4
  <2> HIDE DEF x, y
  <2>2. QED
    BY <1>2, <2>1 DEF x, y
<1> HIDE DEF To
<1>6. \A k \in DOMAIN chunks : IF k < Len(chunks) THEN Len(chunks[k]) = size
                                                 ELSE Len(chunks[k]) \in 1 .. size
  <2>1. DOMAIN chunks = 1 .. q /\ Len(chunks) = q
    BY <1>3
  <2>2. ASSUME NEW k \in 1 .. q PROVE Len(chunks[k]) = To(k) - (k - 1) * size
    <3> DEFINE y == (k - 1) * size
    <3>1. To(k) \in 1 .. n /\ y \in Nat /\ y + 1 \in 1 .. n /\ To(k) - y \in 1 .. size
      BY <1>4, <1>5
    <3>2. chunks[k] = SubSeq(data, y + 1, To(k))
      OBVIOUS
    <3> HIDE DEF y, chunks
    <3>3. \A i \in y + 1 .. To(k) : data[i] \in C
      BY <1>2, <3>1
    <3>4. Len(SubSeq(data, y + 1, To(k))) = To(k) - (y + 1) + 1
      <4>1. y + 1 \in Int /\ To(k) \in Int /\ y + 1 <= To(k)
        BY <3>1, <1>2
      <4>2. QED
        BY <3>3, <4>1, SubSeqProperties
    <3>5. QED
      BY <1>2, <3>1, <3>2, <3>4 DEF y
  <2> HIDE DEF chunks
  <2>3. \A k \in 1 .. q : k < q => To(k) - (k - 1) * size = size
    <3> TAKE k \in 1 .. q
    <3>1. k < q => To(k) = k * size /\ k * size = (k - 1) * size + size /\ (k - 1) * size \in Nat
      BY <1>4, <1>5
    <3>2. QED
      BY <3>1
  <2>4. QED
    BY <1>5, <2>1, <2>2, <2>3
<1>7. FlattenSeq(chunks) = data
  <2>1. CASE q = 0
    <3>1. chunks = <<>> /\ data = <<>>
      BY <1>2, <1>3, <2>1 DEF n
    <3>2. Len(<<>>) = 0
      OBVIOUS
    <3>3. QED
      BY <3>1, <3>2 DEF FlattenSeq
  <2>2. CASE q # 0
    <3>1. q \in Nat \ {0} /\ Len(chunks) = q
      BY <1>3, <2>2
    <3>2. ASSUME NEW k \in 1 .. q, k # 1 PROVE g[k] = g[k - 1] \o chunks[k]
      <4>1. k - 1 \in 1 .. q /\ k - 1 < q
        BY <3>1, <3>2
      <4>2. To(k - 1) = (k - 1) * size
        BY <1>5, <4>1
      <4>3. g[k - 1] = SubSeq(data, 1, To(k - 1)) /\ g[k] = SubSeq(data, 1, To(k))
            /\ chunks[k] = SubSeq(data, To(k - 1) + 1, To(k))
        BY <4>1, <4>2
      <4> DEFINE b == To(k - 1)
                 e == To(k)
      <4>4. b \in 1 .. n /\ e \in 1 .. n /\ b <= e
        <5>1. e - b \in 1 .. size /\ b \in 1 .. n /\ e \in 1 .. n
          BY <1>5, <4>1, <4>2
        <5> HIDE DEF b, e
        <5>2. QED
          BY <5>1, <1>2
      <4> HIDE DEF b, e
      <4>5. SubSeq(data, 1, b) \o SubSeq(data, b + 1, e) = SubSeq(data, 1, e)
        <5>1. 1 \in 1 .. Len(data) + 1 /\ b \in 1 - 1 .. Len(data) /\ e \in b .. Len(data)
          BY <1>2, <4>4 DEF n
        <5>2. QED
          BY <5>1, ConcatAdjacentSubSeq
      <4>6. QED
        BY <4>3, <4>5 DEF b, e
    <3>3. g[1] = chunks[1]
      <4>1. 1 \in 1 .. q /\ (1 - 1) * size + 1 = 1
        BY <3>1
      <4>2. QED
        BY <4>1
    <3>4. g[q] = data
      <4>1. To(q) = n /\ q \in 1 .. q
        BY <1>5, <3>1
      <4>2. QED
        BY <4>1, SubSeqFull DEF n
    <3> HIDE DEF chunks, g
    <3>5. \A k \in 1 .. q : k # 1 => g[k] = g[k - 1] \o chunks[k]
      BY <3>2
    <3>6. Joins(g, chunks, q)
      BY <3>1, <3>3, <3>5 DEF Joins
    <3>7. FlattenSeq(chunks) = g[q]
      BY <3>1, <3>6, Flattened
    <3>8. QED
      BY <3>4, <3>7
  <2>3. QED
    BY <2>1, <2>2
<1> HIDE DEF chunks
<1>8. QED
  BY <1>1, <1>6, <1>7

-----------------------------------------------------------------------------
(* split_string: its steps, and what they lead to.                         *)

(* What split_string does with one character.                              *)
SplitStep(items, c, delimiter) ==
    IF c = delimiter THEN Append(items, <<>>)
    ELSE Append(Front(items), Append(Last(items), c))

(* split_string, unfolded.                                                 *)
LEMMA SplitIsAFold ==
    ASSUME NEW s, NEW delimiter
    PROVE  split_string(s, delimiter) =
             (CHOOSE iter : iter = [t \in SUBSET DOMAIN s |->
                IF t = {} THEN << <<>> >>
                ELSE SplitStep(iter[t \ {Max(t)}], s[Max(t)], delimiter)])[DOMAIN s]
BY Zenon DEF split_string, FoldLeft, MapThenFoldSet, SplitStep

(* There is always a last part, which is a text.                           *)
LEMMA SplitStepType ==
    ASSUME NEW C, NEW items \in Seq(Seq(C)) \ {<<>>}, NEW c \in C, NEW delimiter
    PROVE  SplitStep(items, c, delimiter) \in Seq(Seq(C)) \ {<<>>}
<1>1. <<>> \in Seq(C)
  OBVIOUS
<1>2. CASE c = delimiter
  <2>1. Append(items, <<>>) \in Seq(Seq(C)) /\ Append(items, <<>>) # <<>>
    BY <1>1, AppendProperties
  <2>2. QED
    BY <2>1, <1>2 DEF SplitStep
<1>3. CASE c # delimiter
  <2>1. Len(items) \in Nat \ {0}
    BY EmptySeq
  <2>2. Front(items) \in Seq(Seq(C))
    BY <2>1 DEF Front
  <2>3. Last(items) \in Seq(C)
    BY <2>1 DEF Last
  <2>4. Append(Last(items), c) \in Seq(C)
    BY <2>3
  <2> DEFINE a == Front(items)
             b == Append(Last(items), c)
  <2>5. a \in Seq(Seq(C)) /\ b \in Seq(C)
    BY <2>2, <2>4
  <2> HIDE DEF a, b
  <2>6. Append(a, b) \in Seq(Seq(C)) /\ Append(a, b) # <<>>
    BY <2>5, AppendProperties
  <2>7. QED
    BY <2>6, <1>3 DEF SplitStep, a, b
<1>4. QED
  BY <1>2, <1>3

(* items is what split_string has after each character of s.               *)
SplitRun(items, C, s, delimiter) ==
    /\ items \in [0 .. Len(s) -> Seq(Seq(C)) \ {<<>>}]
    /\ items[0] = << <<>> >>
    /\ \A k \in 1 .. Len(s) : items[k] = SplitStep(items[k - 1], s[k], delimiter)

(* split_string returns what its steps lead to.                            *)
LEMMA SplitSteps ==
    ASSUME NEW C, NEW s \in Seq(C), NEW delimiter
    PROVE  \E items : /\ SplitRun(items, C, s, delimiter)
                      /\ split_string(s, delimiter) = items[Len(s)]
<1> DEFINE n == Len(s)
           A == Seq(Seq(C)) \ {<<>>}
           F == [p \in (1 .. n) \X A |-> SplitStep(p[2], s[p[1]], delimiter)]
           Rec(f) == f = [t \in SUBSET DOMAIN s |->
                IF t = {} THEN << <<>> >>
                ELSE SplitStep(f[t \ {Max(t)}], s[Max(t)], delimiter)]
<1>1. n \in Nat /\ DOMAIN s = 1 .. n /\ \A k \in 1 .. n : s[k] \in C
  OBVIOUS
<1>2. << <<>> >> \in A
  OBVIOUS
<1> HIDE DEF n, A
<1>3. \A k \in 1 .. n, a \in A : F[<<k, a>>] = SplitStep(a, s[k], delimiter)
  OBVIOUS
<1>4. \A k \in 1 .. n, a \in A : SplitStep(a, s[k], delimiter) \in A
  BY <1>1, SplitStepType DEF A
<1> HIDE DEF F
<1>5. StaysIn(F, n, A)
  BY <1>3, <1>4 DEF StaysIn
<1>6. PICK g \in [SUBSET (1 .. n) -> A] : Folds(g, F, << <<>> >>, n)
  BY <1>5, <1>1, <1>2, FoldExists
<1>7. Rec(g)
  <2>1. ASSUME NEW t \in SUBSET (1 .. n)
        PROVE  g[t] = IF t = {} THEN << <<>> >>
                      ELSE SplitStep(g[t \ {Max(t)}], s[Max(t)], delimiter)
    <3>1. CASE t = {}
      BY <1>6, <3>1, Zenon DEF Folds
    <3>2. CASE t # {}
      <4>1. Max(t) \in 1 .. n
        BY <1>1, <3>2, MaxOfSome
      <4>2. g[t \ {Max(t)}] \in A
        BY <1>6
      <4>3. g[t] = F[<<Max(t), g[t \ {Max(t)}]>>]
        BY <1>6, <3>2, Zenon DEF Folds
      <4>4. QED
        BY <1>3, <3>2, <4>1, <4>2, <4>3, Zenon
    <3>3. QED
      BY <3>1, <3>2
  <2>2. QED
    BY <1>1, <1>6, <2>1, Zenon
<1>8. PICK h : Rec(h) /\ split_string(s, delimiter) = h[1 .. n]
  <2>1. split_string(s, delimiter) = (CHOOSE f : Rec(f))[DOMAIN s]
    BY SplitIsAFold
  <2> HIDE DEF Rec
  <2>2. Rec(CHOOSE f : Rec(f))
    BY <1>7, Zenon
  <2>3. QED
    BY <2>1, <2>2, <1>1
<1>9. h[{}] = << <<>> >>
  BY <1>8, Zenon
<1>10. ASSUME NEW t \in SUBSET (1 .. n), t # {}, h[t \ {Max(t)}] \in A
      PROVE  h[t] = F[<<Max(t), h[t \ {Max(t)}]>>]
  <2>1. Max(t) \in 1 .. n
    BY <1>1, <1>10, MaxOfSome
  <2>2. h[t] = SplitStep(h[t \ {Max(t)}], s[Max(t)], delimiter)
    BY <1>1, <1>8, <1>10, Zenon
  <2>3. QED
    BY <1>3, <1>10, <2>1, <2>2, Zenon
<1>11. PICK items \in [0 .. n -> A] :
          Steps(items, F, << <<>> >>, n) /\ items[n] = h[1 .. n]
  <2>1. IsFold(h, F, << <<>> >>, n, A)
    BY <1>9, <1>10 DEF IsFold
  <2>2. QED
    BY <1>5, <1>1, <1>2, <2>1, FoldSteps
<1>12. ASSUME NEW k \in 1 .. n PROVE items[k] = SplitStep(items[k - 1], s[k], delimiter)
  <2>1. k - 1 \in 0 .. n
    BY <1>1
  <2>2. items[k - 1] \in A
    BY <1>11, <2>1
  <2>3. QED
    BY <1>3, <1>11, <2>2 DEF Steps
<1>13. QED
  <2>1. SplitRun(items, C, s, delimiter)
    BY <1>11, <1>12 DEF A, n, Steps, SplitRun
  <2>2. QED
    BY <1>8, <1>11, <2>1 DEF n

(* split_string returns texts.                                             *)
LEMMA SplitType ==
    ASSUME NEW C, NEW s \in Seq(C), NEW delimiter
    PROVE  split_string(s, delimiter) \in Seq(Seq(C))
<1>1. PICK items : SplitRun(items, C, s, delimiter) /\ split_string(s, delimiter) = items[Len(s)]
  BY SplitSteps, Zenon
<1>2. Len(s) \in 0 .. Len(s)
  OBVIOUS
<1>3. items \in [0 .. Len(s) -> Seq(Seq(C)) \ {<<>>}]
  BY <1>1, Zenon DEF SplitRun
<1>4. items[Len(s)] \in Seq(Seq(C))
  BY <1>2, <1>3, Zenon
<1>5. QED
  BY <1>1, <1>4, Zenon

(* A step looks at the last part only.                                     *)
LEMMA SplitStepOfPrefixed ==
    ASSUME NEW C, NEW x \in Seq(C), NEW items \in Seq(Seq(C)) \ {<<>>}, NEW c \in C,
           NEW delimiter
    PROVE  SplitStep(<<x>> \o items, c, delimiter) = <<x>> \o SplitStep(items, c, delimiter)
<1> DEFINE E == Seq(C)
           u == <<x>>
<1>1. u \in Seq(E) /\ <<>> \in E
  OBVIOUS
<1>2. \A s \in Seq(E), e \in E : Append(u \o s, e) = u \o Append(s, e)
  <2> TAKE s \in Seq(E), e \in E
  <2> HIDE DEF u, E
  <2>1. Append(s, e) = s \o <<e>> /\ <<e>> \in Seq(E)
    BY AppendIsConcat
  <2>2. u \o s \in Seq(E)
    BY <1>1, ConcatProperties
  <2>3. Append(u \o s, e) = (u \o s) \o <<e>>
    BY <2>2, AppendIsConcat
  <2>4. (u \o s) \o <<e>> = u \o (s \o <<e>>)
    <3>1. PICK f : f = <<e>>
      OBVIOUS
    <3>2. f \in Seq(E)
      BY <2>1, <3>1
    <3>3. (u \o s) \o f = u \o (s \o f)
      BY <1>1, <3>2, ConcatAssociative
    <3>4. QED
      BY <3>1, <3>3, Zenon
  <2>5. QED
    BY <2>1, <2>3, <2>4
<1>3. /\ Front(u \o items) = u \o Front(items)
      /\ Last(u \o items) = Last(items)
      /\ Front(items) \in Seq(E)
      /\ Last(items) \in E
  <2> HIDE DEF E
  <2>1. x \in E /\ items \in Seq(E) \ {<<>>}
    BY DEF E
  <2>2. QED
    BY <2>1, FrontOfPrefixed
<1>4. Append(Last(items), c) \in E
  BY <1>3
<1>5. items \in Seq(E)
  OBVIOUS
<1> HIDE DEF u, E
<1>6. CASE c = delimiter
  BY <1>1, <1>2, <1>5, <1>6 DEF SplitStep, u
<1>7. CASE c # delimiter
  BY <1>2, <1>3, <1>4, <1>7 DEF SplitStep, u
<1>8. QED
  BY <1>6, <1>7

(* A character that is no delimiter goes to the last part.                 *)
LEMMA StepInPart ==
    ASSUME NEW C, NEW p \in Seq(C), NEW c \in C, NEW delimiter, c # delimiter
    PROVE  SplitStep(<<p>>, c, delimiter) = <<Append(p, c)>>
<1>1. PICK E : E = Seq(C)
  OBVIOUS
<1>2. PICK u : u = <<p>>
  OBVIOUS
<1>3. u \in Seq(E) \ {<<>>} /\ Len(u) = 1 /\ u[1] = p
  BY <1>1, <1>2
<1>4. Front(u) \in Seq(E) /\ Len(Front(u)) = Len(u) - 1 /\ Last(u) = u[Len(u)]
  BY <1>3, FrontProperties
<1>5. Len(Front(u)) = 0 /\ Last(u) = p
  BY <1>3, <1>4
<1>6. Front(u) = <<>>
  BY <1>4, <1>5, EmptySeq
<1>7. Append(<<>>, Append(p, c)) = <<Append(p, c)>>
  OBVIOUS
<1>8. QED
  BY <1>2, <1>5, <1>6, <1>7 DEF SplitStep

(* Up to the first delimiter there is one part.                            *)
LEMMA SplitInPart ==
    ASSUME NEW C, NEW s \in Seq(C), NEW delimiter, NEW items, SplitRun(items, C, s, delimiter),
           NEW m \in 0 .. Len(s), \A i \in 1 .. m : s[i] # delimiter
    PROVE  items[m] = <<SubSeq(s, 1, m)>>
<1> DEFINE S == {k \in Nat : k <= m => items[k] = <<SubSeq(s, 1, k)>>}
<1>1. Len(s) \in Nat /\ m \in Nat /\ m <= Len(s) /\ \A i \in 1 .. Len(s) : s[i] \in C
  OBVIOUS
<1>2. 0 \in S
  <2>1. SubSeq(s, 1, 0) = <<>>
    BY SubSeqEmpty
  <2>2. QED
    BY <2>1 DEF SplitRun
<1>3. ASSUME NEW k \in Nat, k \in S PROVE k + 1 \in S
  <2> SUFFICES ASSUME k + 1 <= m PROVE items[k + 1] = <<SubSeq(s, 1, k + 1)>>
    OBVIOUS
  <2>1. k + 1 \in 1 .. Len(s) /\ k + 1 \in 1 .. m /\ (k + 1) - 1 = k /\ k <= m /\ k \in 0 .. Len(s)
    BY <1>1
  <2>2. items[k + 1] = SplitStep(<<SubSeq(s, 1, k)>>, s[k + 1], delimiter)
    BY <1>3, <2>1 DEF SplitRun
  <2>3. SubSeq(s, 1, k) \in Seq(C) /\ Append(SubSeq(s, 1, k), s[k + 1]) = SubSeq(s, 1, k + 1)
    <3>1. \A i \in 1 .. k : s[i] \in C
      BY <1>1, <2>1
    <3>2. SubSeq(s, 1, k) \in Seq(C)
      BY <3>1, SubSeqProperties
    <3>3. 1 \in 1 .. Len(s) /\ k + 1 \in 1 .. Len(s) /\ s[k + 1] \in C
      BY <1>1, <2>1
    <3>4. SubSeq(s, 1, k + 1) = SubSeq(s, 1, (k + 1) - 1) \o <<s[k + 1]>>
      BY <3>3, SubSeqRecursiveSecond
    <3>5. Append(SubSeq(s, 1, k), s[k + 1]) = SubSeq(s, 1, k) \o <<s[k + 1]>>
      BY <3>2, <3>3, AppendIsConcat
    <3>6. QED
      BY <2>1, <3>2, <3>4, <3>5
  <2>4. SplitStep(<<SubSeq(s, 1, k)>>, s[k + 1], delimiter) = <<Append(SubSeq(s, 1, k), s[k + 1])>>
    BY <1>1, <2>1, <2>3, StepInPart
  <2>5. QED
    BY <2>2, <2>3, <2>4
<1> HIDE DEF S
<1>4. m \in S
  BY <1>1, <1>2, <1>3, NatSetInduction
<1>5. QED
  BY <1>1, <1>4 DEF S

(* A text without the delimiter is one part.                               *)
LEMMA SplitWhole ==
    ASSUME NEW C, NEW s \in Seq(C), NEW delimiter,
           \A i \in 1 .. Len(s) : s[i] # delimiter
    PROVE  split_string(s, delimiter) = <<s>>
<1>1. PICK items : SplitRun(items, C, s, delimiter) /\ split_string(s, delimiter) = items[Len(s)]
  BY SplitSteps
<1>2. Len(s) \in 0 .. Len(s)
  OBVIOUS
<1>3. items[Len(s)] = <<SubSeq(s, 1, Len(s))>>
  BY <1>1, <1>2, SplitInPart
<1>4. QED
  BY <1>1, <1>3, SubSeqFull

(* s is a, which has no delimiter, the delimiter, and b.                   *)
SplitAround(s, C, a, delimiter, b) ==
    /\ a \in Seq(C) /\ delimiter \in C /\ b \in Seq(C)
    /\ s = a \o <<delimiter>> \o b
    /\ \A i \in 1 .. Len(a) : a[i] # delimiter

(* The first part of s is a, and the rest are those of b.                  *)
SplitsOff(s, delimiter, a, b) ==
    split_string(s, delimiter) = <<a>> \o split_string(b, delimiter)

(* What is before the first delimiter is the first part.                   *)
LEMMA SplitAt ==
    ASSUME NEW C, NEW s, NEW a, NEW b, NEW delimiter, SplitAround(s, C, a, delimiter, b)
    PROVE  SplitsOff(s, delimiter, a, b)
<1>1. /\ a \in Seq(C) /\ delimiter \in C /\ b \in Seq(C)
      /\ s = a \o <<delimiter>> \o b
      /\ \A i \in 1 .. Len(a) : a[i] # delimiter
  BY DEF SplitAround
<1> DEFINE m == Len(a)
           n == Len(b)
<1>2. m \in Nat /\ n \in Nat /\ \A i \in 1 .. n : b[i] \in C
  BY <1>1
<1>3. /\ s \in Seq(C) /\ Len(s) = m + 1 + n
      /\ \A i \in 1 .. m : s[i] = a[i]
      /\ s[m + 1] = delimiter
      /\ \A i \in 1 .. n : s[m + 1 + i] = b[i]
  <2>1. IsAround(s, C, a, delimiter, b)
    BY <1>1, Around, Zenon
  <2>2. QED
    BY <2>1 DEF IsAround
<1>4. PICK items : SplitRun(items, C, s, delimiter) /\ split_string(s, delimiter) = items[Len(s)]
  <2>1. s \in Seq(C)
    BY <1>3
  <2>2. QED
    BY <2>1, SplitSteps, Zenon
<1>5. PICK rest : SplitRun(rest, C, b, delimiter) /\ split_string(b, delimiter) = rest[n]
  BY <1>1, SplitSteps
<1>6. a = SubSeq(s, 1, m)
  <2>1. \A i \in 1 .. m : s[i] \in C
    BY <1>2, <1>3
  <2>2. /\ SubSeq(s, 1, m) \in Seq(C)
        /\ Len(SubSeq(s, 1, m)) = IF 1 <= m THEN m - 1 + 1 ELSE 0
        /\ \A i \in 1 .. m - 1 + 1 : SubSeq(s, 1, m)[i] = s[1 + i - 1]
    <3> HIDE DEF m
    <3>1. QED
      BY <1>2, <2>1, SubSeqProperties
  <2>3. Len(SubSeq(s, 1, m)) = m /\ \A i \in 1 .. m : SubSeq(s, 1, m)[i] = a[i]
    <3> HIDE DEF m
    <3>1. QED
      BY <1>2, <1>3, <2>2
  <2>4. QED
    BY <1>1, <2>2, <2>3, SeqEqual
<1>7. items[m] = <<a>>
  <2>1. m \in 0 .. Len(s) /\ \A i \in 1 .. m : s[i] # delimiter
    BY <1>1, <1>2, <1>3
  <2> HIDE DEF m, n
  <2>2. items[m] = <<SubSeq(s, 1, m)>>
    BY <1>3, <1>4, <2>1, SplitInPart
  <2>3. QED
    BY <1>6, <2>2
<1>8. items[m + 1] = <<a>> \o << <<>> >>
  <2>1. m + 1 \in 1 .. Len(s) /\ (m + 1) - 1 = m
    BY <1>2, <1>3
  <2>2. items[m + 1] = SplitStep(<<a>>, delimiter, delimiter)
    BY <1>3, <1>4, <1>7, <2>1 DEF SplitRun
  <2>3. SplitStep(<<a>>, delimiter, delimiter) = Append(<<a>>, <<>>)
    BY DEF SplitStep
  <2>4. Append(<<a>>, <<>>) = <<a>> \o << <<>> >>
    OBVIOUS
  <2>5. QED
    BY <2>2, <2>3, <2>4
<1> DEFINE S == {k \in Nat : k <= n => items[m + 1 + k] = <<a>> \o rest[k]}
<1> HIDE DEF n, m
<1>9. 0 \in S
  <2>1. rest[0] = << <<>> >> /\ m + 1 + 0 = m + 1
    BY <1>2, <1>5 DEF SplitRun
  <2>2. QED
    BY <1>8, <2>1
<1>10. ASSUME NEW k \in Nat, k \in S PROVE k + 1 \in S
  <2> SUFFICES ASSUME k + 1 <= n PROVE items[m + 1 + (k + 1)] = <<a>> \o rest[k + 1]
    OBVIOUS
  <2> DEFINE j == m + 1 + (k + 1)
  <2>1. j \in 1 .. Len(s) /\ j - 1 = m + 1 + k /\ k + 1 \in 1 .. n /\ (k + 1) - 1 = k
        /\ k \in 0 .. n /\ k <= n
    <3>1. m \in Nat /\ n \in Nat /\ k \in Nat /\ Len(s) = m + 1 + n
      BY <1>2, <1>3
    <3>2. QED
      BY <3>1
  <2>2. items[j - 1] = <<a>> \o rest[k] /\ s[j] = b[k + 1]
    BY <1>3, <1>10, <2>1
  <2> HIDE DEF j
  <2>3. items[j] = SplitStep(<<a>> \o rest[k], b[k + 1], delimiter)
    BY <1>4, <2>1, <2>2 DEF SplitRun
  <2>4. rest[k + 1] = SplitStep(rest[k], b[k + 1], delimiter) /\ rest[k] \in Seq(Seq(C)) \ {<<>>}
    BY <1>5, <2>1 DEF SplitRun, n
  <2>5. b[k + 1] \in C
    BY <1>2, <2>1
  <2> DEFINE x == rest[k]
             c == b[k + 1]
  <2>6. SplitStep(<<a>> \o x, c, delimiter) = <<a>> \o SplitStep(x, c, delimiter)
    <3>1. x \in Seq(Seq(C)) \ {<<>>} /\ c \in C /\ a \in Seq(C)
      BY <1>1, <2>4, <2>5
    <3> HIDE DEF x, c
    <3>2. QED
      BY <3>1, SplitStepOfPrefixed
  <2>7. QED
    BY <2>3, <2>4, <2>6, Zenon DEF j
<1> HIDE DEF S
<1>11. n \in S
  BY <1>2, <1>9, <1>10, NatSetInduction
<1>12. items[m + 1 + n] = <<a>> \o rest[n]
  BY <1>2, <1>11 DEF S
<1>13. split_string(s, delimiter) = <<a>> \o split_string(b, delimiter)
  BY <1>1, <1>3, <1>4, <1>5, <1>12
<1>14. QED
  BY <1>13, Zenon DEF SplitsOff

-----------------------------------------------------------------------------
(* PathItems: the parts of a path that are not empty.                      *)

(* What NotEmpty does with one part.                                       *)
KeepStep(path_items, a) == IF a = <<>> THEN path_items ELSE Append(path_items, a)

(* NotEmpty, unfolded.                                                     *)
LEMMA KeepIsAFold ==
    ASSUME NEW items
    PROVE  NotEmpty(items) =
             (CHOOSE iter : iter = [t \in SUBSET DOMAIN items |->
                IF t = {} THEN <<>>
                ELSE KeepStep(iter[t \ {Max(t)}], items[Max(t)])])[DOMAIN items]
BY Zenon DEF NotEmpty, FoldLeft, MapThenFoldSet, KeepStep

(* kept is what NotEmpty has after each part.                              *)
KeepRun(kept, E, items) ==
    /\ kept \in [0 .. Len(items) -> Seq(E)]
    /\ kept[0] = <<>>
    /\ \A k \in 1 .. Len(items) : kept[k] = KeepStep(kept[k - 1], items[k])

(* NotEmpty returns what its steps lead to.                                *)
LEMMA KeepSteps ==
    ASSUME NEW E, NEW items \in Seq(E)
    PROVE  \E kept : KeepRun(kept, E, items) /\ NotEmpty(items) = kept[Len(items)]
<1> DEFINE n == Len(items)
           A == Seq(E)
           F == [p \in (1 .. n) \X A |-> KeepStep(p[2], items[p[1]])]
           Rec(f) == f = [t \in SUBSET DOMAIN items |->
                IF t = {} THEN <<>>
                ELSE KeepStep(f[t \ {Max(t)}], items[Max(t)])]
<1>1. n \in Nat /\ DOMAIN items = 1 .. n /\ \A k \in 1 .. n : items[k] \in E
  OBVIOUS
<1>2. <<>> \in A
  OBVIOUS
<1>3. \A k \in 1 .. n, a \in A : KeepStep(a, items[k]) \in A
  BY <1>1 DEF KeepStep
<1> HIDE DEF n, A
<1>4. \A k \in 1 .. n, a \in A : F[<<k, a>>] = KeepStep(a, items[k])
  OBVIOUS
<1> HIDE DEF F
<1>5. StaysIn(F, n, A)
  BY <1>3, <1>4 DEF StaysIn
<1>6. PICK g \in [SUBSET (1 .. n) -> A] : Folds(g, F, <<>>, n)
  BY <1>1, <1>2, <1>5, FoldExists
<1>7. Rec(g)
  <2>1. ASSUME NEW t \in SUBSET (1 .. n)
        PROVE  g[t] = IF t = {} THEN <<>> ELSE KeepStep(g[t \ {Max(t)}], items[Max(t)])
    <3>1. CASE t = {}
      BY <1>6, <3>1, Zenon DEF Folds
    <3>2. CASE t # {}
      <4>1. Max(t) \in 1 .. n
        BY <1>1, <3>2, MaxOfSome
      <4>2. g[t \ {Max(t)}] \in A
        BY <1>6
      <4>3. g[t] = F[<<Max(t), g[t \ {Max(t)}]>>]
        BY <1>6, <3>2, Zenon DEF Folds
      <4>4. QED
        BY <1>4, <3>2, <4>1, <4>2, <4>3, Zenon
    <3>3. QED
      BY <3>1, <3>2
  <2>2. QED
    BY <1>1, <1>6, <2>1, Zenon
<1>8. PICK h : Rec(h) /\ NotEmpty(items) = h[1 .. n]
  <2>1. NotEmpty(items) = (CHOOSE f : Rec(f))[DOMAIN items]
    BY KeepIsAFold
  <2> HIDE DEF Rec
  <2>2. Rec(CHOOSE f : Rec(f))
    BY <1>7, Zenon
  <2>3. QED
    BY <2>1, <2>2, <1>1
<1>9. IsFold(h, F, <<>>, n, A)
  <2>1. h[{}] = <<>>
    BY <1>8, Zenon
  <2>2. ASSUME NEW t \in SUBSET (1 .. n), t # {}, h[t \ {Max(t)}] \in A
        PROVE  h[t] = F[<<Max(t), h[t \ {Max(t)}]>>]
    <3>1. Max(t) \in 1 .. n
      BY <1>1, <2>2, MaxOfSome
    <3>2. h[t] = KeepStep(h[t \ {Max(t)}], items[Max(t)])
      BY <1>1, <1>8, <2>2, Zenon
    <3>3. QED
      BY <1>4, <2>2, <3>1, <3>2, Zenon
  <2>3. QED
    BY <2>1, <2>2 DEF IsFold
<1>10. PICK kept \in [0 .. n -> A] : Steps(kept, F, <<>>, n) /\ kept[n] = h[1 .. n]
  BY <1>1, <1>2, <1>5, <1>9, FoldSteps
<1>11. ASSUME NEW k \in 1 .. n PROVE kept[k] = KeepStep(kept[k - 1], items[k])
  <2>1. k - 1 \in 0 .. n
    BY <1>1
  <2>2. kept[k - 1] \in A
    BY <1>10, <2>1
  <2>3. QED
    BY <1>4, <1>10, <2>2 DEF Steps
<1>12. KeepRun(kept, E, items)
  BY <1>10, <1>11 DEF A, n, Steps, KeepRun
<1>13. QED
  BY <1>8, <1>10, <1>12 DEF n

(* The first part is kept, unless it is empty.                             *)
LEMMA KeepAfter ==
    ASSUME NEW E, NEW a \in E, NEW items \in Seq(E)
    PROVE  /\ NotEmpty(items) \in Seq(E)
           /\ NotEmpty(<<a>> \o items) =
                IF a = <<>> THEN NotEmpty(items) ELSE <<a>> \o NotEmpty(items)
<1> DEFINE n == Len(items)
<1>1. PICK u : u = <<a>>
  OBVIOUS
<1>2. PICK all : all = u \o items
  OBVIOUS
<1>3. u \in Seq(E) /\ Len(u) = 1 /\ u[1] = a /\ n \in Nat
  BY <1>1
<1>4. IsConcat(all, E, u, items)
  BY <1>2, <1>3, Concatenated, Zenon
<1>5. all \in Seq(E) /\ Len(all) = n + 1 /\ all[1] = a /\ \A k \in 1 .. n : all[k + 1] = items[k]
  <2>1. 1 \in 1 .. Len(u)
    BY <1>3
  <2>2. all[1] = u[1]
    BY <1>4, <2>1, Zenon DEF IsConcat
  <2>3. QED
    BY <1>3, <1>4, <2>2 DEF IsConcat
<1>6. PICK kept : KeepRun(kept, E, items) /\ NotEmpty(items) = kept[n]
  BY KeepSteps
<1>7. PICK new : KeepRun(new, E, all) /\ NotEmpty(all) = new[n + 1]
  <2>1. \E new : KeepRun(new, E, all) /\ NotEmpty(all) = new[Len(all)]
    BY <1>5, KeepSteps, Zenon
  <2>2. QED
    BY <1>5, <2>1
<1> DEFINE Kept(s) == IF a = <<>> THEN s ELSE u \o s
<1>8. \A s \in Seq(E), e \in E : KeepStep(Kept(s), e) = Kept(KeepStep(s, e))
  <2> TAKE s \in Seq(E), e \in E
  <2>1. Append(s, e) = s \o <<e>> /\ <<e>> \in Seq(E)
    BY AppendIsConcat
  <2>2. u \o s \in Seq(E)
    BY <1>3, ConcatProperties
  <2>3. Append(u \o s, e) = (u \o s) \o <<e>>
    BY <2>2, AppendIsConcat
  <2>4. (u \o s) \o <<e>> = u \o (s \o <<e>>)
    BY <1>3, <2>1, ConcatAssociative
  <2>5. Append(u \o s, e) = u \o Append(s, e)
    BY <2>1, <2>3, <2>4
  <2>6. QED
    BY <2>5, Zenon DEF KeepStep
<1>9. new[1] = Kept(<<>>)
  <2>1. 1 \in 1 .. Len(all) /\ 1 - 1 = 0
    BY <1>3, <1>5
  <2>2. new[1] = KeepStep(<<>>, a)
    BY <1>5, <1>7, <2>1 DEF KeepRun
  <2>3. u \o <<>> = u /\ Append(<<>>, a) = u
    BY <1>1
  <2>4. QED
    BY <2>2, <2>3 DEF KeepStep
<1> DEFINE S == {k \in Nat : k <= n => new[k + 1] = Kept(kept[k])}
<1> HIDE DEF n, Kept
<1>10. 0 \in S
  <2>1. kept[0] = <<>> /\ 0 + 1 = 1
    BY <1>6 DEF KeepRun
  <2>2. QED
    BY <1>9, <2>1
<1>11. ASSUME NEW k \in Nat, k \in S PROVE k + 1 \in S
  <2> SUFFICES ASSUME k + 1 <= n PROVE new[(k + 1) + 1] = Kept(kept[k + 1])
    OBVIOUS
  <2>1. k + 1 \in 1 .. n /\ (k + 1) + 1 \in 1 .. Len(all) /\ (k + 1) - 1 = k
        /\ ((k + 1) + 1) - 1 = k + 1 /\ k <= n /\ k \in 0 .. n
    BY <1>3, <1>5
  <2>2. new[(k + 1) + 1] = KeepStep(new[k + 1], items[k + 1])
    BY <1>5, <1>7, <2>1 DEF KeepRun
  <2>3. kept[k + 1] = KeepStep(kept[k], items[k + 1]) /\ kept[k] \in Seq(E)
    BY <1>6, <2>1 DEF KeepRun, n
  <2>4. items[k + 1] \in E
    BY <2>1 DEF n
  <2>5. QED
    BY <1>8, <1>11, <2>1, <2>2, <2>3, <2>4
<1> HIDE DEF S
<1>12. n \in S
  BY <1>3, <1>10, <1>11, NatSetInduction
<1>13. new[n + 1] = Kept(kept[n])
  BY <1>3, <1>12 DEF S
<1>14. kept[n] \in Seq(E)
  BY <1>3, <1>6 DEF KeepRun, n
<1>15. QED
  BY <1>1, <1>2, <1>6, <1>7, <1>13, <1>14, Zenon DEF Kept

(* Of no parts, none is kept.                                              *)
LEMMA NothingKept == \A E : NotEmpty(<<>>) = <<>>
<1> SUFFICES ASSUME NEW E PROVE NotEmpty(<<>>) = <<>>
  OBVIOUS
<1>1. PICK e : e = <<>>
  OBVIOUS
<1>2. e \in Seq(E) /\ Len(e) = 0
  BY <1>1
<1>3. PICK kept : KeepRun(kept, E, e) /\ NotEmpty(e) = kept[Len(e)]
  BY <1>2, KeepSteps, Zenon
<1>4. QED
  BY <1>1, <1>2, <1>3 DEF KeepRun

(* A part that is not empty is kept.                                       *)
LEMMA OneKept ==
    ASSUME NEW E, NEW a \in E, a # <<>> PROVE NotEmpty(<<a>>) = <<a>>
<1>1. <<>> \in Seq(E) /\ <<a>> \o <<>> = <<a>>
  OBVIOUS
<1>2. NotEmpty(<<a>> \o <<>>) = <<a>> \o NotEmpty(<<>>)
  BY <1>1, KeepAfter, Zenon
<1>3. QED
  BY <1>1, <1>2, NothingKept

(* The parts of a path of a name and the rest.                             *)
LEMMA NameOfFile ==
    ASSUME NEW C, NEW s \in Seq(C), s # <<>>, \A i \in 1 .. Len(s) : s[i] # "/"
    PROVE  PathItems(<<"d", "/">> \o s) = << <<"d">>, s >>
<1>1. PICK D : D = C \cup {"d", "/"}
  OBVIOUS
<1>2. PICK a : a = <<"d">>
  OBVIOUS
<1>3. a \in Seq(D) /\ s \in Seq(D) /\ "/" \in D /\ Len(a) = 1 /\ a[1] = "d" /\ a # <<>>
  <2>1. s \in Seq(D)
    BY <1>1, SeqMonotonic
  <2>2. QED
    BY <1>1, <1>2, <2>1
<1>4. \A i \in 1 .. Len(a) : a[i] # "/"
  BY <1>3
<1>5. split_string(a \o <<"/">> \o s, "/") = <<a>> \o split_string(s, "/")
  <2>1. PICK d : d = "/"
    OBVIOUS
  <2>2. d \in D /\ \A i \in 1 .. Len(a) : a[i] # d
    BY <1>3, <1>4, <2>1
  <2>3. PICK t : t = a \o <<d>> \o s
    OBVIOUS
  <2>4. SplitAround(t, D, a, d, s)
    BY <1>3, <2>2, <2>3 DEF SplitAround
  <2>5. split_string(t, d) = <<a>> \o split_string(s, d)
    <3>1. SplitsOff(t, d, a, s)
      BY <2>4, SplitAt, Zenon
    <3>2. QED
      BY <3>1, Zenon DEF SplitsOff
  <2>6. QED
    BY <2>1, <2>3, <2>5
<1>6. split_string(s, "/") = <<s>>
  BY SplitWhole
<1>7. a \o <<"/">> \o s = <<"d", "/">> \o s
  BY <1>2
<1>8. PathItems(<<"d", "/">> \o s) = NotEmpty(<<a>> \o <<s>>)
  BY <1>5, <1>6, <1>7 DEF PathItems
<1>9. NotEmpty(<<a>> \o <<s>>) = <<a>> \o NotEmpty(<<s>>)
  <2>1. PICK E : E = Seq(D)
    OBVIOUS
  <2>2. a \in E /\ <<s>> \in Seq(E)
    BY <1>3, <2>1
  <2>3. QED
    BY <1>3, <2>2, KeepAfter, Zenon
<1>10. NotEmpty(<<s>>) = <<s>>
  BY OneKept
<1>11. <<a>> \o <<s>> = <<a, s>>
  <2>1. PICK E : E = Seq(D)
    OBVIOUS
  <2>2. a \in E /\ s \in E
    BY <1>3, <2>1
  <2>3. QED
    BY <2>2, TwoParts, Zenon
<1>12. QED
  BY <1>2, <1>8, <1>9, <1>10, <1>11

(* The first part of a path /name/...                                      *)
LEMMA ItemsOfPath ==
    ASSUME NEW C, NEW w \in Seq(C), "/" \in C, NEW k \in 2 .. Len(w) - 1,
           w[1] = "/", w[k + 1] = "/", \A i \in 2 .. k : w[i] # "/"
    PROVE  /\ PathItems(w) # <<>>
           /\ PathItems(w)[1] = SubSeq(w, 2, k)
<1>1. PICK d : d = "/"
  OBVIOUS
<1>2. PICK m : m = Len(w)
  OBVIOUS
<1>3. m \in Nat /\ k \in 2 .. m - 1 /\ d \in C
  BY <1>1, <1>2
<1>4. PICK v : v = SubSeq(w, 2, m)
  OBVIOUS
<1>5. v \in Seq(C) /\ Len(v) = m - 1 /\ \A i \in 1 .. m - 1 : v[i] = w[i + 1]
  <2>1. 2 \in 1 .. Len(w) + 1 /\ m \in 2 - 1 .. Len(w)
    BY <1>2, <1>3
  <2>2. /\ SubSeq(w, 2, m) \in Seq(C)
        /\ Len(SubSeq(w, 2, m)) = m - 2 + 1
        /\ \A i \in 1 .. m - 2 + 1 : SubSeq(w, 2, m)[i] = w[2 + i - 1]
    BY <2>1, PartOf
  <2>3. \A i \in 1 .. m - 1 : i \in 1 .. m - 2 + 1 /\ 2 + i - 1 = i + 1
    BY <1>3
  <2>4. m - 2 + 1 = m - 1
    BY <1>3
  <2>5. QED
    BY <1>4, <2>2, <2>3, <2>4
<1>6. PICK a : a = SubSeq(v, 1, k - 1)
  OBVIOUS
<1>7. PICK b : b = SubSeq(v, k + 1, m - 1)
  OBVIOUS
<1>8. v = a \o <<d>> \o b /\ a \in Seq(C) /\ b \in Seq(C)
  <2>1. k \in 1 .. Len(v) /\ Len(v) = m - 1
    BY <1>3, <1>5
  <2>2. v[k] = d
    BY <1>1, <1>3, <1>5
  <2>3. v \in Seq(C)
    BY <1>5
  <2>4. /\ v = SubSeq(v, 1, k - 1) \o <<v[k]>> \o SubSeq(v, k + 1, Len(v))
        /\ SubSeq(v, 1, k - 1) \in Seq(C)
        /\ SubSeq(v, k + 1, Len(v)) \in Seq(C)
    BY <2>1, <2>3, CutAround, Zenon
  <2>5. QED
    BY <1>6, <1>7, <2>1, <2>2, <2>4, Zenon
<1>9. a = SubSeq(w, 2, k) /\ Len(a) = k - 1 /\ \A i \in 1 .. Len(a) : a[i] # d
  <2>1. PICK j : j = k - 1
    OBVIOUS
  <2>2. j \in Nat \ {0} /\ j < m - 1 /\ k = j + 1
    BY <1>3, <2>1
  <2>3. Len(a) = j /\ \A i \in 1 .. j : a[i] = v[i]
    <3>1. 1 \in 1 .. Len(v) + 1 /\ j \in 1 - 1 .. Len(v)
      BY <1>3, <1>5, <2>2
    <3>2. /\ Len(SubSeq(v, 1, j)) = j - 1 + 1
          /\ \A i \in 1 .. j - 1 + 1 : SubSeq(v, 1, j)[i] = v[1 + i - 1]
      BY <1>5, <3>1, PartOf
    <3>3. j - 1 + 1 = j /\ \A i \in 1 .. j : 1 + i - 1 = i
      BY <2>2
    <3>4. QED
      BY <1>6, <2>1, <3>2, <3>3
  <2>4. PICK x : x = SubSeq(w, 2, k)
    OBVIOUS
  <2>5. x \in Seq(C) /\ Len(x) = j /\ \A i \in 1 .. j : x[i] = w[i + 1]
    <3>1. 2 \in 1 .. Len(w) + 1 /\ k \in 2 - 1 .. Len(w)
      BY <1>2, <1>3
    <3>2. /\ SubSeq(w, 2, k) \in Seq(C)
          /\ Len(SubSeq(w, 2, k)) = k - 2 + 1
          /\ \A i \in 1 .. k - 2 + 1 : SubSeq(w, 2, k)[i] = w[2 + i - 1]
      BY <3>1, PartOf
    <3>3. k - 2 + 1 = j /\ \A i \in 1 .. j : 2 + i - 1 = i + 1
      BY <2>2
    <3>4. QED
      BY <2>4, <3>2, <3>3
  <2>6. \A i \in 1 .. j : a[i] = w[i + 1] /\ i + 1 \in 2 .. k
    BY <1>5, <2>2, <2>3
  <2>7. a = x
    <3>1. a \in Seq(C) /\ Len(a) = Len(x) /\ \A i \in 1 .. Len(a) : a[i] = x[i]
      BY <1>8, <2>3, <2>5, <2>6
    <3>2. QED
      BY <2>5, <3>1, SeqEqual, Zenon
  <2>8. QED
    BY <1>1, <2>1, <2>3, <2>4, <2>6, <2>7
<1>10. w = <<>> \o <<d>> \o v
  <2>1. 1 \in 1 .. Len(w) /\ 1 - 1 = 0 /\ 1 + 1 = 2
    BY <1>2, <1>3
  <2>2. w = SubSeq(w, 1, 1 - 1) \o <<w[1]>> \o SubSeq(w, 1 + 1, Len(w))
    BY <2>1, CutAround
  <2>3. SubSeq(w, 1, 0) = <<>>
    BY SubSeqEmpty
  <2>4. QED
    BY <1>1, <1>2, <1>4, <2>1, <2>2, <2>3
<1>11. split_string(w, d) = << <<>> >> \o split_string(v, d)
  <2>1. PICK e : e = <<>>
    OBVIOUS
  <2>2. e \in Seq(C) /\ \A i \in 1 .. Len(e) : e[i] # d
    BY <2>1
  <2>3. d \in C /\ v \in Seq(C)
    BY <1>3, <1>5
  <2>4. SplitAround(w, C, e, d, v)
    BY <1>10, <2>1, <2>2, <2>3, Zenon DEF SplitAround
  <2>5. split_string(w, d) = <<e>> \o split_string(v, d)
    <3>1. SplitsOff(w, d, e, v)
      BY <2>4, SplitAt, Zenon
    <3>2. QED
      BY <3>1, Zenon DEF SplitsOff
  <2>6. QED
    BY <2>1, <2>5, Zenon
<1>12. split_string(v, d) = <<a>> \o split_string(b, d)
  <2>1. d \in C /\ a \in Seq(C) /\ b \in Seq(C) /\ \A i \in 1 .. Len(a) : a[i] # d
    BY <1>3, <1>8, <1>9
  <2>2. SplitAround(v, C, a, d, b)
    BY <1>8, <2>1, Zenon DEF SplitAround
  <2>3. QED
    <3>1. SplitsOff(v, d, a, b)
      BY <2>2, SplitAt, Zenon
    <3>2. QED
      BY <3>1, Zenon DEF SplitsOff
<1>13. PICK E : E = Seq(C)
  OBVIOUS
<1>14. PICK rest : rest = split_string(b, d)
  OBVIOUS
<1>15. PICK names : names = <<a>> \o rest
  OBVIOUS
<1>16. a \in E /\ <<>> \in E /\ rest \in Seq(E)
  <2>1. rest \in Seq(E)
    BY <1>8, <1>13, <1>14, SplitType, Zenon
  <2>2. QED
    BY <1>8, <1>13, <2>1
<1>17. names \in Seq(E)
  <2>1. <<a>> \in Seq(E)
    BY <1>16
  <2>2. <<a>> \o rest \in Seq(E)
    BY <1>16, <2>1, ConcatProperties
  <2>3. QED
    BY <1>15, <2>2
<1>18. a # <<>>
  BY <1>3, <1>9
<1>19. PathItems(w) = NotEmpty(<< <<>> >> \o names)
  BY <1>1, <1>11, <1>12, <1>14, <1>15, Zenon DEF PathItems
<1>20. NotEmpty(<< <<>> >> \o names) = NotEmpty(names)
  <2>1. PICK e : e = <<>>
    OBVIOUS
  <2>2. e \in E
    BY <1>16, <2>1
  <2>3. NotEmpty(<<e>> \o names) = NotEmpty(names)
    BY <1>17, <2>1, <2>2, KeepAfter
  <2>4. QED
    BY <2>1, <2>3
<1>21. NotEmpty(names) = <<a>> \o NotEmpty(rest) /\ NotEmpty(rest) \in Seq(E)
  BY <1>15, <1>16, <1>18, KeepAfter, Zenon
<1>22. PICK u : u = <<a>>
  OBVIOUS
<1>23. PICK all : all = PathItems(w)
  OBVIOUS
<1>24. u \in Seq(E) /\ Len(u) = 1 /\ u[1] = a
  BY <1>16, <1>22
<1>25. IsConcat(all, E, u, NotEmpty(rest))
  <2>1. all = u \o NotEmpty(rest)
    BY <1>19, <1>20, <1>21, <1>22, <1>23, Zenon
  <2>2. QED
    BY <1>21, <1>24, <2>1, Concatenated, Zenon
<1>26. all # <<>> /\ all[1] = a
  <2>1. 1 \in 1 .. Len(u) /\ Len(NotEmpty(rest)) \in Nat
    BY <1>21, <1>24
  <2>2. all[1] = a
    BY <1>24, <1>25, <2>1, Zenon DEF IsConcat
  <2>3. Len(all) # 0 /\ all \in Seq(E)
    BY <1>24, <1>25, <2>1 DEF IsConcat
  <2>4. QED
    BY <2>2, <2>3
<1>27. QED
  BY <1>9, <1>23, <1>26

-----------------------------------------------------------------------------
(* The theorems about the path of a request.                               *)

(* The path of a request is a text over Alphabet.                          *)
THEOREM PathIsText == RoutingSpec => []TypePathOK
<1>1. RoutingInit => TypePathOK
  BY DEF RoutingInit, TypePathOK
<1>2. TypePathOK /\ [RoutingNext]_path => TypePathOK'
  BY DEF TypePathOK, RoutingNext, TypePath
<1>3. QED
  BY <1>1, <1>2, PTL DEF RoutingSpec

(* chunk_data (utility.cpp) loses nothing of a text, whatever its          *)
(* characters and length, and leaves no chunk empty or too long.           *)
THEOREM Chunked == RoutingSpec => []ChunksAreWhole
<1>1. TypePathOK => ChunksAreWhole
  <2> SUFFICES ASSUME TypePathOK, NEW size \in ChunkSizes
               PROVE  LET chunks == chunk_data(path, size)
                      IN  /\ FlattenSeq(chunks) = path
                          /\ \A k \in DOMAIN chunks :
                                IF k < Len(chunks) THEN Len(chunks[k]) = size
                                                   ELSE Len(chunks[k]) \in 1 .. size
    BY DEF ChunksAreWhole
  <2>1. size \in Nat \ {0} /\ path \in Seq(Alphabet)
    BY RoutingAssumption DEF TypePathOK
  <2>2. QED
    BY <2>1, ChunksOf
<1>2. QED
  BY <1>1, PathIsText, PTL

(* A file name that is_valid_filename (utility.cpp) accepts is one part of *)
(* a path and names no directory, whatever characters isalnum accepts and  *)
(* however long names may be.                                              *)
THEOREM NamesStay == RoutingSpec => []NameStaysInside
<1>1. TypePathOK => NameStaysInside
  <2> SUFFICES ASSUME TypePathOK, is_valid_filename(path)
               PROVE  /\ PathItems(<<"d", "/">> \o path) = << <<"d">>, path >>
                      /\ path \notin {<<".">>, <<".", ".">>}
    BY Zenon DEF NameStaysInside
  <2>1. path \in Seq(Alphabet)
    BY DEF TypePathOK
  <2>2. path # <<>> /\ 1 \in 1 .. Len(path)
    <3>1. Len(path) \in 1 .. MaxFilename /\ MaxFilename \in Nat
      BY StringsAssumption, Zenon DEF is_valid_filename
    <3>2. Len(path) \in Nat /\ Len(path) >= 1
      BY <3>1
    <3>3. QED
      BY <2>1, <3>2
  <2>3. ASSUME NEW i \in 1 .. Len(path) PROVE path[i] # "/"
    <3>1. path[i] \in Range(path)
      BY <2>1 DEF Range
    <3>2. path[i] \in Alnum \cup {".", "_"}
      BY <3>1 DEF is_valid_filename
    <3>3. "/" # "." /\ "/" # "_"
      OBVIOUS
    <3>4. "/" \notin Alnum
      BY StringsAssumption
    <3>5. QED
      BY <3>2, <3>3, <3>4
  <2>4. path[1] # "."
    BY StringsAssumption DEF is_valid_filename
  <2>5. path \notin {<<".">>, <<".", ".">>}
    BY <2>4
  <2>6. QED
    BY <2>1, <2>2, <2>3, <2>5, NameOfFile
<1>2. QED
  BY <1>1, PathIsText, PTL

(* Text, character by character, for a path p of n characters.             *)
IsText(t, p) ==
    LET n == Len(p)
    IN  /\ t \in Seq(Range(t)) /\ Len(t) = n + 11
        /\ t[1] = "G" /\ t[2] = SP
        /\ \A i \in 1 .. n : t[2 + i] = p[i]
        /\ t[n + 3] = SP /\ t[n + 8] = "/" /\ t[n + 11] = LF

(* What a client sends for a path is such a text.                          *)
LEMMA TextOfPath ==
    ASSUME path \in Seq(Alphabet)
    PROVE  IsText(Text, path)
<1>1. PICK C : C = Alphabet \cup {"G", SP, "H", "T", "P", "/", "1", CR, LF}
  OBVIOUS
<1>2. PICK a : a = <<"G", SP>>
  OBVIOUS
<1>3. PICK b : b = <<SP, "H", "T", "T", "P", "/", "1", CR, LF>>
  OBVIOUS
<1>4. a \in Seq(C) /\ Len(a) = 2 /\ a[1] = "G" /\ a[2] = SP
  BY <1>1, <1>2
<1>5. Len(b) = 9 /\ b[1] = SP /\ b[6] = "/" /\ b[9] = LF
  BY <1>3
<1>6. b \in Seq(C)
  BY <1>1, <1>3
<1>7. PICK p : p = path
  OBVIOUS
<1>8. p \in Seq(C) /\ Len(p) \in Nat
  <2>1. p \in Seq(Alphabet) /\ Alphabet \subseteq C
    BY <1>1, <1>7
  <2>2. p \in Seq(C)
    BY <2>1, SeqMonotonic
  <2>3. QED
    BY <2>2
<1>9. PICK u : u = a \o p
  OBVIOUS
<1>10. IsConcat(u, C, a, p)
  BY <1>4, <1>8, <1>9, Concatenated, Zenon
<1>11. u \in Seq(C) /\ Len(u) = Len(p) + 2 /\ u[1] = "G" /\ u[2] = SP
       /\ \A i \in 1 .. Len(p) : u[2 + i] = p[i]
  <2>1. 1 \in 1 .. Len(a) /\ 2 \in 1 .. Len(a)
    BY <1>4
  <2>2. u[1] = a[1] /\ u[2] = a[2]
    BY <1>10, <2>1, Zenon DEF IsConcat
  <2>3. QED
    BY <1>4, <1>8, <1>10, <2>2 DEF IsConcat
<1>12. PICK t : t = u \o b
  OBVIOUS
<1>13. IsConcat(t, C, u, b)
  BY <1>6, <1>11, <1>12, Concatenated, Zenon
<1>14. /\ t \in Seq(C) /\ Len(t) = Len(p) + 11
       /\ \A i \in 1 .. Len(p) + 2 : t[i] = u[i]
       /\ \A i \in 1 .. 9 : t[Len(p) + 2 + i] = b[i]
  BY <1>5, <1>8, <1>11, <1>13 DEF IsConcat
<1>15. t[1] = "G" /\ t[2] = SP /\ \A i \in 1 .. Len(p) : t[2 + i] = p[i]
  <2>1. 1 \in 1 .. Len(p) + 2 /\ 2 \in 1 .. Len(p) + 2
    BY <1>8
  <2>2. \A i \in 1 .. Len(p) : 2 + i \in 1 .. Len(p) + 2
    BY <1>8
  <2>3. QED
    BY <1>11, <1>14, <2>1, <2>2
<1>16. t[Len(p) + 3] = SP /\ t[Len(p) + 8] = "/" /\ t[Len(p) + 11] = LF
  <2>1. t[Len(p) + 2 + 1] = b[1] /\ t[Len(p) + 2 + 6] = b[6] /\ t[Len(p) + 2 + 9] = b[9]
    BY <1>14
  <2>2. Len(p) + 2 + 1 = Len(p) + 3 /\ Len(p) + 2 + 6 = Len(p) + 8 /\ Len(p) + 2 + 9 = Len(p) + 11
    BY <1>8
  <2>3. QED
    BY <1>5, <2>1, <2>2
<1>17. t \in Seq(Range(t))
  BY <1>14, SeqOfRange
<1>18. IsText(t, p)
  BY <1>14, <1>15, <1>16, <1>17 DEF IsText
<1>19. t = Text
  BY <1>2, <1>3, <1>7, <1>9, <1>12 DEF Text
<1>20. QED
  BY <1>7, <1>18, <1>19

(* What Proxy::GetDeviceId takes for the name in a text whose path begins  *)
(* with a slash, when it is the name of a device: the path is /name/...    *)
LEMMA NameInText ==
    ASSUME NEW C, NEW p \in Seq(C), p # <<>>, p[1] = "/",
           NEW t, IsText(t, p), GetDeviceId(t) \in Ids
    PROVE  \E k \in 2 .. Len(p) - 1 :
              /\ p[k + 1] = "/"
              /\ GetDeviceId(t) = SubSeq(p, 2, k)
              /\ \A i \in 2 .. k : p[i] \notin {"/", SP, "?", LF}
<1>1. PICK n : n = Len(p)
  OBVIOUS
<1> DEFINE id == GetDeviceId(t)
<1>2. n \in Nat \ {0}
  BY <1>1, EmptySeq
<1>3. t[1] = "G" /\ t[2] = SP /\ t[3] = "/" /\ t \in Seq(Range(t)) /\ Len(t) = n + 11
  <2>1. 1 \in 1 .. n /\ 2 + 1 = 3
    BY <1>2
  <2>2. QED
    BY <1>1, <2>1 DEF IsText
<1>4. Find(t, "/") = 3
  <2>1. \A i \in 1 .. 3 - 1 : t[i] # "/"
    <3>1. \A i \in 1 .. 3 - 1 : i = 1 \/ i = 2
      OBVIOUS
    <3>2. t[1] # "/" /\ t[2] # "/"
      BY <1>3, Characters
    <3>3. QED
      BY <3>1, <3>2
  <2>2. 3 \in 1 .. Len(t) /\ Len(t) \in Nat /\ 1 \in Nat \ {0}
    BY <1>2, <1>3
  <2>3. QED
    BY <1>3, <2>1, <2>2, FindsAt DEF Find
<1>5. PICK remain : remain = After(t, 3)
  OBVIOUS
<1>6. remain \in Seq(Range(t)) /\ Len(remain) = n + 8 /\ \A i \in 1 .. n + 8 : remain[i] = t[3 + i]
  <2>1. remain = SubSeq(t, 4, n + 11)
    BY <1>3, <1>5 DEF After
  <2>2. 4 \in 1 .. Len(t) + 1 /\ n + 11 \in 4 - 1 .. Len(t)
    BY <1>2, <1>3
  <2> DEFINE m == n + 11
             C2 == Range(t)
  <2>3. /\ SubSeq(t, 4, m) \in Seq(C2)
        /\ Len(SubSeq(t, 4, m)) = m - 4 + 1
        /\ \A i \in 1 .. m - 4 + 1 : SubSeq(t, 4, m)[i] = t[4 + i - 1]
    <3>1. t \in Seq(C2) /\ 4 \in 1 .. Len(t) + 1 /\ m \in 4 - 1 .. Len(t)
      BY <1>3, <2>2
    <3> HIDE DEF m, C2
    <3>2. QED
      BY <3>1, PartOf
  <2>4. \A i \in 1 .. n + 8 : i \in 1 .. m - 4 + 1 /\ 4 + i - 1 = 3 + i
    BY <1>2
  <2>5. m - 4 + 1 = n + 8
    BY <1>2
  <2> HIDE DEF m, C2
  <2>6. QED
    BY <2>1, <2>3, <2>4, <2>5 DEF m, C2
<1>7. PICK f : f = Find(remain, "/")
  OBVIOUS
<1>8. f \in 1 .. n + 8 /\ remain[f] = "/" /\ \A i \in 1 .. f - 1 : remain[i] # "/"
  <2>1. n + 5 \in 1 .. n + 8 /\ 3 + (n + 5) = n + 8
    BY <1>2
  <2>2. remain[n + 5] = "/"
    BY <1>1, <1>6, <2>1 DEF IsText
  <2>3. Len(remain) \in Nat /\ 1 \in Nat
    BY <1>2, <1>6
  <2>4. \/ /\ f = 0
           /\ \A i \in 1 .. Len(remain) : remain[i] # "/"
        \/ /\ f \in 1 .. Len(remain)
           /\ remain[f] = "/"
           /\ \A i \in 1 .. f - 1 : remain[i] # "/"
    BY <1>7, <2>3, FindsFirst DEF Find
  <2>5. QED
    BY <1>6, <2>1, <2>2, <2>4
<1>9. id = SubSeq(remain, 1, f - 1)
  BY <1>4, <1>5, <1>7, <1>8 DEF GetDeviceId, Before
<1>10. id \in Seq(Range(t)) /\ Len(id) = f - 1 /\ \A i \in 1 .. f - 1 : id[i] = remain[i]
  <2>1. 1 \in 1 .. Len(remain) + 1 /\ f - 1 \in 1 - 1 .. Len(remain)
    BY <1>2, <1>6, <1>8
  <2> DEFINE m == f - 1
             C2 == Range(t)
  <2>2. remain \in Seq(C2) /\ m \in 1 - 1 .. Len(remain) /\ m \in Nat
    BY <1>6, <1>8, <2>1
  <2> HIDE DEF m, C2, id
  <2>3. /\ SubSeq(remain, 1, m) \in Seq(C2)
        /\ Len(SubSeq(remain, 1, m)) = m - 1 + 1
        /\ \A i \in 1 .. m - 1 + 1 : SubSeq(remain, 1, m)[i] = remain[1 + i - 1]
    BY <2>1, <2>2, PartOf
  <2>4. QED
    BY <1>9, <2>2, <2>3 DEF m, C2
<1>11. id # <<>> /\ \A i \in 1 .. f - 1 : id[i] \notin {SP, "?", LF}
  <2>1. id # <<>> /\ Range(id) \cap {SP, "?", LF} = {}
    BY RoutingAssumption
  <2>2. DOMAIN id = 1 .. f - 1
    <3> HIDE DEF id
    <3>1. QED
      BY <1>10
  <2>3. \A i \in 1 .. f - 1 : id[i] \in Range(id)
    BY <2>2, Zenon DEF Range
  <2> HIDE DEF id
  <2>4. QED
    BY <2>1, <2>3
<1>12. f > 1
  <2> HIDE DEF id
  <2>1. Len(id) # 0
    BY <1>10, <1>11, EmptySeq
  <2>2. QED
    BY <1>8, <1>10, <2>1
<1> HIDE DEF id
<1>13. f < n
  <2>1. f - 1 < n
    <3> SUFFICES ASSUME ~(f - 1 < n) PROVE FALSE
      OBVIOUS
    <3>1. n \in 1 .. f - 1 /\ n \in 1 .. n + 8 /\ 3 + n = n + 3
      BY <1>2, <1>8
    <3>2. id[n] = t[n + 3]
      BY <1>6, <1>10, <3>1
    <3>3. t[n + 3] = SP
      BY <1>1 DEF IsText
    <3>4. QED
      BY <1>11, <3>1, <3>2, <3>3
  <2>2. f # n
    <3> SUFFICES ASSUME f = n PROVE FALSE
      OBVIOUS
    <3>1. remain[n] = t[3 + n] /\ 3 + n = n + 3
      BY <1>2, <1>6, <1>8
    <3>2. t[n + 3] = SP
      BY <1>1 DEF IsText
    <3>3. QED
      BY <1>8, <3>1, <3>2, Characters
  <2>3. QED
    BY <1>2, <1>8, <2>1, <2>2
<1>14. \A i \in 1 .. f : remain[i] = p[i + 1]
  <2> TAKE i \in 1 .. f
  <2>1. i \in 1 .. n + 8 /\ i + 1 \in 1 .. n /\ 3 + i = 2 + (i + 1)
    BY <1>2, <1>8, <1>13
  <2>2. QED
    BY <1>1, <1>6, <2>1 DEF IsText
<1>15. f \in 2 .. n - 1 /\ p[f + 1] = "/"
  <2>1. f \in 1 .. f /\ f \in 2 .. n - 1
    BY <1>2, <1>8, <1>12, <1>13
  <2>2. QED
    BY <1>8, <1>14, <2>1
<1>16. id = SubSeq(p, 2, f)
  <2>1. 2 \in 1 .. Len(p) + 1 /\ f \in 2 - 1 .. Len(p) /\ f - 2 + 1 = f - 1
    BY <1>1, <1>2, <1>15
  <2>2. /\ SubSeq(p, 2, f) \in Seq(C)
        /\ Len(SubSeq(p, 2, f)) = f - 2 + 1
        /\ \A i \in 1 .. f - 2 + 1 : SubSeq(p, 2, f)[i] = p[2 + i - 1]
    BY <2>1, PartOf
  <2>3. ASSUME NEW i \in 1 .. f - 1 PROVE id[i] = SubSeq(p, 2, f)[i]
    <3>1. i \in 1 .. f /\ 2 + i - 1 = i + 1
      BY <1>15
    <3>2. id[i] = p[i + 1]
      BY <1>10, <1>14, <3>1
    <3>3. SubSeq(p, 2, f)[i] = p[i + 1]
      BY <2>1, <2>2, <3>1
    <3>4. QED
      BY <3>2, <3>3
  <2>4. PICK w : w = SubSeq(p, 2, f)
    OBVIOUS
  <2>5. w \in Seq(C) /\ Len(w) = f - 1 /\ Len(id) = f - 1 /\ \A i \in 1 .. f - 1 : id[i] = w[i]
    BY <1>10, <2>1, <2>2, <2>3, <2>4
  <2>6. id = w
    BY <1>10, <2>5
  <2>7. QED
    BY <2>4, <2>6
<1>17. \A i \in 2 .. f : p[i] \notin {"/", SP, "?", LF}
  <2> TAKE i \in 2 .. f
  <2>1. i - 1 \in 1 .. f - 1 /\ i - 1 \in 1 .. f /\ (i - 1) + 1 = i
    BY <1>15
  <2>2. p[i] = remain[i - 1] /\ id[i - 1] = remain[i - 1]
    BY <1>10, <1>14, <2>1
  <2>3. QED
    BY <1>8, <1>11, <2>1, <2>2
<1>18. QED
  BY <1>1, <1>15, <1>16, <1>17 DEF id

(* What the device takes for the path of a text begins as the path does,   *)
(* at least up to the slash after the name.                                *)
LEMMA PathInText ==
    ASSUME NEW C, NEW p \in Seq(C), NEW t, IsText(t, p), NEW k \in 2 .. Len(p) - 1,
           p[1] = "/", p[k + 1] = "/", \A i \in 2 .. k : p[i] \notin {"/", SP, "?", LF},
           RequestLine(Before(t, Find(t, LF))).ok
    PROVE  LET w == RequestLine(Before(t, Find(t, LF))).parts.path
           IN  /\ w \in Seq(Range(t)) /\ k + 1 <= Len(w)
               /\ \A i \in 1 .. k + 1 : w[i] = p[i]
<1>1. PICK n : n = Len(p)
  OBVIOUS
<1>2. PICK D : D = Range(t)
  OBVIOUS
<1>3. n \in Nat /\ k \in 2 .. n - 1 /\ t \in Seq(D) /\ Len(t) = n + 11
  BY <1>1, <1>2 DEF IsText
<1>4. t[1] = "G" /\ t[2] = SP /\ \A i \in 1 .. k + 1 : t[2 + i] = p[i]
  <2>1. \A i \in 1 .. k + 1 : i \in 1 .. n
    BY <1>3
  <2>2. QED
    BY <1>1, <2>1 DEF IsText
<1>5. \A i \in 3 .. k + 3 : t[i] \notin {SP, "?", LF}
  <2> TAKE i \in 3 .. k + 3
  <2>1. PICK j : j = i - 2
    OBVIOUS
  <2>2. j \in 1 .. k + 1 /\ 2 + j = i /\ t[i] = p[j]
    BY <1>3, <1>4, <2>1
  <2>3. CASE j = 1 \/ j = k + 1
    BY <2>2, <2>3, Characters
  <2>4. CASE j # 1 /\ j # k + 1
    <3>1. j \in 2 .. k
      BY <1>3, <2>2, <2>4
    <3>2. QED
      BY <2>2, <3>1
  <2>5. QED
    BY <2>3, <2>4
<1>6. PICK f : f = Find(t, LF)
  OBVIOUS
<1>7. f \in k + 4 .. n + 11
  <2>1. Len(t) \in Nat /\ 1 \in Nat /\ n + 11 \in 1 .. Len(t) /\ t[n + 11] = LF
    BY <1>1, <1>3 DEF IsText
  <2>2. \/ /\ f = 0
           /\ \A i \in 1 .. Len(t) : t[i] # LF
        \/ /\ f \in 1 .. Len(t)
           /\ t[f] = LF
           /\ \A i \in 1 .. f - 1 : t[i] # LF
    BY <1>6, <2>1, FindsFirst DEF Find
  <2>3. f \in 1 .. n + 11 /\ t[f] = LF
    BY <1>3, <2>1, <2>2
  <2>4. f # 1 /\ f # 2
    BY <1>4, <2>3, Characters
  <2>5. f \notin 3 .. k + 3
    BY <1>5, <2>3
  <2>6. QED
    BY <1>3, <2>3, <2>4, <2>5
<1>8. PICK first : first = Before(t, f)
  OBVIOUS
<1>9. PICK l : l = f - 1
  OBVIOUS
<1>10. l \in k + 3 .. n + 10 /\ l \in Nat
  BY <1>3, <1>7, <1>9
<1>11. first \in Seq(D) /\ Len(first) = l /\ \A i \in 1 .. l : first[i] = t[i]
  <2>1. first = SubSeq(t, 1, l)
    BY <1>3, <1>7, <1>8, <1>9 DEF Before
  <2>2. 1 \in 1 .. Len(t) + 1 /\ l \in 1 - 1 .. Len(t)
    BY <1>3, <1>10
  <2>3. /\ SubSeq(t, 1, l) \in Seq(D)
        /\ Len(SubSeq(t, 1, l)) = l - 1 + 1
        /\ \A i \in 1 .. l - 1 + 1 : SubSeq(t, 1, l)[i] = t[1 + i - 1]
    BY <1>3, <2>2, PartOf
  <2>4. l - 1 + 1 = l /\ \A i \in 1 .. l : 1 + i - 1 = i
    BY <1>10
  <2>5. QED
    BY <2>1, <2>3, <2>4
<1>12. Find(first, SP) = 2
  <2>1. 2 \in 1 .. Len(first) /\ Len(first) \in Nat /\ 1 \in Nat \ {0} /\ first[2] = SP /\ first[1] = "G"
    BY <1>3, <1>4, <1>10, <1>11
  <2>2. \A i \in 1 .. 2 - 1 : first[i] # SP
    <3>1. \A i \in 1 .. 2 - 1 : i = 1
      OBVIOUS
    <3>2. QED
      BY <2>1, <3>1, Characters
  <2>3. QED
    BY <2>1, <2>2, FindsAt DEF Find
<1>13. PICK e : e = FindFrom(first, SP, 3)
  OBVIOUS
<1>14. PICK q : q = SelectLastInSubSeq(first, 3, e - 1, LAMBDA x : x = "?")
  OBVIOUS
<1>15. PICK w : w = SubSeq(first, 3, IF q = 0 THEN e - 1 ELSE q - 1)
  OBVIOUS
<1>16. RequestLine(first).ok => e # 0 /\ RequestLine(first).parts.path = w
  <2>1. 2 + 1 = 3
    OBVIOUS
  <2>2. QED
    BY <1>12, <1>13, <1>14, <1>15, <2>1, Zenon DEF RequestLine, Failed, NoParts
<1>17. e \in k + 4 .. l
  <2>1. Len(first) \in Nat /\ 3 \in Nat
    BY <1>10, <1>11
  <2>2. \/ /\ e = 0
           /\ \A i \in 3 .. Len(first) : first[i] # SP
        \/ /\ e \in 3 .. Len(first)
           /\ first[e] = SP
           /\ \A i \in 3 .. e - 1 : first[i] # SP
    BY <1>13, <2>1, FindsFirst
  <2>3. e # 0
    BY <1>6, <1>8, <1>16
  <2>4. e \in 3 .. l /\ t[e] = SP
    BY <1>11, <1>10, <2>2, <2>3
  <2>5. e \notin 3 .. k + 3
    BY <1>5, <2>4
  <2>6. QED
    BY <1>3, <1>10, <2>4, <2>5
<1>18. q = 0 \/ q \in k + 4 .. e - 1
  <2>1. 3 \in Nat \ {0} /\ e - 1 \in Nat
    BY <1>10, <1>17
  <2>2. q = 0 \/ (q \in 3 .. e - 1 /\ first[q] = "?")
    <3>1. PICK to : to = e - 1
      OBVIOUS
    <3>2. to \in Nat
      BY <2>1, <3>1
    <3>3. PICK r : r = LastOf(first, "?", 3, to)
      OBVIOUS
    <3>4. r = 0 \/ (r \in 3 .. to /\ first[r] = "?")
      BY <2>1, <3>2, <3>3, FindsTheLast
    <3>5. q = r
      BY <1>14, <3>1, <3>3, Zenon DEF LastOf
    <3>6. QED
      BY <3>1, <3>4, <3>5
  <2>3. ASSUME q \in 3 .. k + 3, first[q] = "?" PROVE FALSE
    <3>1. q \in 1 .. l
      BY <1>3, <1>10, <2>3
    <3>2. QED
      BY <1>5, <1>11, <2>3, <3>1
  <2>4. QED
    BY <1>3, <1>17, <2>2, <2>3
<1>19. PICK x : x = IF q = 0 THEN e - 1 ELSE q - 1
  OBVIOUS
<1>20. x \in k + 3 .. l
  BY <1>3, <1>10, <1>17, <1>18, <1>19
<1>21. w \in Seq(D) /\ Len(w) = x - 2 /\ \A i \in 1 .. x - 2 : w[i] = first[2 + i]
  <2>1. 3 \in 1 .. Len(first) + 1 /\ x \in 3 - 1 .. Len(first)
    BY <1>3, <1>10, <1>11, <1>20
  <2>2. /\ SubSeq(first, 3, x) \in Seq(D)
        /\ Len(SubSeq(first, 3, x)) = x - 3 + 1
        /\ \A i \in 1 .. x - 3 + 1 : SubSeq(first, 3, x)[i] = first[3 + i - 1]
    BY <1>11, <2>1, PartOf
  <2>3. x - 3 + 1 = x - 2 /\ \A i \in 1 .. x - 2 : 3 + i - 1 = 2 + i
    BY <1>3, <1>20
  <2>4. QED
    BY <1>15, <1>19, <2>2, <2>3
<1>22. k + 1 <= Len(w) /\ \A i \in 1 .. k + 1 : w[i] = p[i]
  <2>1. k + 1 <= Len(w)
    BY <1>3, <1>10, <1>20, <1>21
  <2>2. ASSUME NEW i \in 1 .. k + 1 PROVE w[i] = p[i]
    <3>1. i \in 1 .. x - 2 /\ 2 + i \in 1 .. l
      BY <1>3, <1>10, <1>20
    <3>2. QED
      BY <1>4, <1>11, <1>21, <3>1
  <2>3. QED
    BY <2>1, <2>2
<1>23. RequestLine(Before(t, Find(t, LF))).parts.path = w
  BY <1>6, <1>8, <1>16
<1>24. QED
  BY <1>2, <1>21, <1>22, <1>23

(* A request that the proxy routes to a device by its text is, by the path *)
(* the device parses from the text, for this device (proxy.cpp,            *)
(* device.cpp), whatever the names in the configuration and the characters *)
(* of the path.                                                            *)
THEOREM RoutedIsParsed == RoutingSpec => []RoutedToItsDevice
<1>1. TypePathOK => RoutedToItsDevice
  <2> SUFFICES ASSUME TypePathOK, path # <<>>, path[1] = "/", Routed, Parsed.ok
               PROVE  /\ PathItems(Parsed.parts.path) # <<>>
                      /\ PathItems(Parsed.parts.path)[1] = GetDeviceId(Text)
    BY Zenon DEF RoutedToItsDevice
  <2>1. PICK p : p = path
    OBVIOUS
  <2>2. PICK t : t = Text
    OBVIOUS
  <2>3. p \in Seq(Alphabet) /\ p # <<>> /\ p[1] = "/" /\ IsText(t, p) /\ GetDeviceId(t) \in Ids
    BY <2>1, <2>2, TextOfPath DEF TypePathOK, Routed
  <2>4. RequestLine(Before(t, Find(t, LF))).ok
    BY <2>2 DEF Parsed
  <2>5. PICK k \in 2 .. Len(p) - 1 :
           /\ p[k + 1] = "/"
           /\ GetDeviceId(t) = SubSeq(p, 2, k)
           /\ \A i \in 2 .. k : p[i] \notin {"/", SP, "?", LF}
    BY <2>3, NameInText
  <2>6. PICK w : w = Parsed.parts.path
    OBVIOUS
  <2>7. /\ w \in Seq(Range(t)) /\ k + 1 <= Len(w)
        /\ \A i \in 1 .. k + 1 : w[i] = p[i]
    BY <2>2, <2>3, <2>4, <2>5, <2>6, PathInText DEF Parsed
  <2>8. PathItems(w) # <<>> /\ PathItems(w)[1] = SubSeq(w, 2, k)
    <3>1. PICK D : D = Range(t)
      OBVIOUS
    <3>2. w \in Seq(D) /\ Len(w) \in Nat /\ k \in 2 .. Len(w) - 1 /\ 1 \in 1 .. k + 1
          /\ k + 1 \in 1 .. k + 1 /\ k + 1 \in 1 .. Len(w)
      BY <2>7, <3>1
    <3>3. w[1] = "/" /\ w[k + 1] = "/" /\ \A i \in 2 .. k : w[i] # "/"
      <4>1. w[1] = p[1] /\ w[k + 1] = p[k + 1]
        BY <2>7, <3>2
      <4>2. \A i \in 2 .. k : i \in 1 .. k + 1
        BY <3>2
      <4>3. ASSUME NEW i \in 2 .. k PROVE w[i] # "/"
        <5>1. w[i] = p[i]
          BY <2>7, <4>2
        <5>2. p[i] # "/"
          BY <2>5
        <5>3. QED
          BY <5>1, <5>2
      <4>4. QED
        BY <2>3, <2>5, <4>1, <4>3
    <3>4. "/" \in D
      BY <3>2, <3>3
    <3>5. QED
      BY <3>2, <3>3, <3>4, ItemsOfPath
  <2>9. SubSeq(w, 2, k) = SubSeq(p, 2, k)
    <3>1. PICK D : D = Range(t)
      OBVIOUS
    <3>2. w \in Seq(D) /\ Len(w) \in Nat /\ Len(p) \in Nat
      BY <2>3, <2>7, <3>1
    <3>3. /\ 2 \in 1 .. Len(w) + 1 /\ k \in 2 - 1 .. Len(w)
          /\ 2 \in 1 .. Len(p) + 1 /\ k \in 2 - 1 .. Len(p)
      BY <2>7, <3>2
    <3>4. /\ SubSeq(w, 2, k) \in Seq(D)
          /\ Len(SubSeq(w, 2, k)) = k - 2 + 1
          /\ \A i \in 1 .. k - 2 + 1 : SubSeq(w, 2, k)[i] = w[2 + i - 1]
      BY <3>2, <3>3, PartOf
    <3>5. /\ SubSeq(p, 2, k) \in Seq(Alphabet)
          /\ Len(SubSeq(p, 2, k)) = k - 2 + 1
          /\ \A i \in 1 .. k - 2 + 1 : SubSeq(p, 2, k)[i] = p[2 + i - 1]
      BY <2>3, <3>3, PartOf
    <3>6. \A i \in 1 .. k - 2 + 1 : 2 + i - 1 \in 1 .. k + 1
      BY <3>3
    <3>7. PICK x : x = SubSeq(w, 2, k)
      OBVIOUS
    <3>8. PICK y : y = SubSeq(p, 2, k)
      OBVIOUS
    <3>9. x \in Seq(D) /\ y \in Seq(Alphabet) /\ Len(x) = Len(y) /\ Len(x) = k - 2 + 1
          /\ \A i \in 1 .. k - 2 + 1 : x[i] = y[i]
      BY <2>7, <3>4, <3>5, <3>6, <3>7, <3>8
    <3>10. x = y
      <4>1. Seq(D) \subseteq Seq(D \cup Alphabet) /\ Seq(Alphabet) \subseteq Seq(D \cup Alphabet)
        <5>1. D \subseteq D \cup Alphabet /\ Alphabet \subseteq D \cup Alphabet
          OBVIOUS
        <5>2. QED
          BY <5>1, SeqMonotonic, Zenon
      <4>2. x \in Seq(D \cup Alphabet) /\ y \in Seq(D \cup Alphabet)
        BY <3>9, <4>1, Zenon
      <4>3. Len(x) = Len(y) /\ \A i \in 1 .. Len(x) : x[i] = y[i]
        BY <3>9
      <4>4. QED
        BY <4>2, <4>3, SeqEqual, Zenon
    <3>11. QED
      BY <3>7, <3>8, <3>10
  <2>10. QED
    BY <2>2, <2>5, <2>6, <2>8, <2>9
<1>2. QED
  BY <1>1, PathIsText, PTL

-----------------------------------------------------------------------------
(* Sequences that are joined: where each of them stands in the whole.      *)

(* g is the whole up to each of the n sequences, and at is where they end. *)
Lays(g, at, C, seqs, n) ==
    /\ g \in [0 .. n -> Seq(C)] /\ g[0] = <<>>
    /\ at \in [0 .. n -> Nat] /\ at[0] = 0
    /\ \A k \in 1 .. n : g[k] = g[k - 1] \o seqs[k] /\ at[k] = at[k - 1] + Len(seqs[k])
    /\ Len(g[n]) = at[n]
    /\ \A k \in 1 .. n : at[k] <= at[n]
    /\ \A k \in 1 .. n : \A i \in 1 .. Len(seqs[k]) : g[n][at[k - 1] + i] = seqs[k][i]

(* One more sequence stands after the n others.                            *)
LEMMA LayOneMore ==
    ASSUME NEW C, NEW seqs, NEW n \in Nat, NEW s \in Seq(C), seqs[n + 1] = s,
           \A k \in 1 .. n : seqs[k] \in Seq(C),
           NEW g, NEW at, Lays(g, at, C, seqs, n)
    PROVE  \E h, to : Lays(h, to, C, seqs, n + 1)
<1>1. PICK m : m = n + 1
  OBVIOUS
<1>2. m \in Nat \ {0} /\ n = m - 1 /\ n \in 0 .. n /\ m \in 0 .. m /\ m \in 1 .. m
      /\ m \notin 0 .. n
  BY <1>1
<1>3. \A k \in 0 .. m : k # m => k \in 0 .. n
  BY <1>2
<1>4. \A k \in 1 .. m : k # m => k \in 1 .. n /\ k - 1 # m /\ k \in 0 .. m /\ k - 1 \in 0 .. m
  BY <1>2
<1>5. PICK last : last = g[n] \o s
  OBVIOUS
<1>6. g[n] \in Seq(C) /\ at[n] \in Nat /\ Len(s) \in Nat
  BY <1>2 DEF Lays
<1>7. IsConcat(last, C, g[n], s)
  BY <1>5, <1>6, Concatenated, Zenon
<1>8. PICK h : h = [k \in 0 .. m |-> IF k = m THEN last ELSE g[k]]
  OBVIOUS
<1>9. PICK to : to = [k \in 0 .. m |-> IF k = m THEN at[n] + Len(s) ELSE at[k]]
  OBVIOUS
<1>10. last \in Seq(C) /\ Len(last) = at[n] + Len(s)
  BY <1>6, <1>7 DEF IsConcat, Lays
<1>11. h \in [0 .. m -> Seq(C)]
  <2>1. \A k \in 0 .. m : (IF k = m THEN last ELSE g[k]) \in Seq(C)
    BY <1>3, <1>10, Zenon DEF Lays
  <2>2. QED
    BY <1>8, <2>1, Zenon
<1>12. to \in [0 .. m -> Nat]
  <2>1. at[n] + Len(s) \in Nat
    BY <1>6
  <2>2. \A k \in 0 .. m : (IF k = m THEN at[n] + Len(s) ELSE at[k]) \in Nat
    BY <1>3, <2>1, Zenon DEF Lays
  <2>3. QED
    BY <1>9, <2>2, Zenon
<1>13. h[m] = last /\ to[m] = at[n] + Len(s)
  BY <1>2, <1>8, <1>9, Zenon
<1>14. \A k \in 0 .. n : h[k] = g[k] /\ to[k] = at[k]
  <2>1. \A k \in 0 .. n : k \in 0 .. m /\ k # m
    BY <1>2
  <2>2. QED
    BY <1>8, <1>9, <2>1, Zenon
<1>15. h[0] = <<>> /\ to[0] = 0
  <2>1. 0 \in 0 .. n
    BY <1>2
  <2>2. QED
    BY <1>14, <2>1, Zenon DEF Lays
<1>16. ASSUME NEW k \in 1 .. m
       PROVE  /\ h[k] = h[k - 1] \o seqs[k] /\ to[k] = to[k - 1] + Len(seqs[k])
              /\ to[k] <= to[m]
              /\ \A i \in 1 .. Len(seqs[k]) : last[to[k - 1] + i] = seqs[k][i]
  <2>1. CASE k = m
    <3>1. k - 1 = n /\ seqs[k] = s /\ h[k - 1] = g[n] /\ to[k - 1] = at[n]
      BY <1>1, <1>2, <1>14, <2>1
    <3>2. \A i \in 1 .. Len(s) : last[at[n] + i] = s[i]
      BY <1>6, <1>7 DEF IsConcat, Lays
    <3>3. to[k] <= to[m]
      BY <1>6, <1>13, <2>1
    <3>4. QED
      BY <1>5, <1>13, <2>1, <3>1, <3>2, <3>3
  <2>2. CASE k # m
    <3>1. k \in 1 .. n /\ k \in 0 .. n /\ k - 1 \in 0 .. n
      BY <1>2, <2>2
    <3>2. h[k] = g[k] /\ h[k - 1] = g[k - 1] /\ to[k] = at[k] /\ to[k - 1] = at[k - 1]
      BY <1>14, <3>1
    <3>3. h[k] = h[k - 1] \o seqs[k] /\ to[k] = to[k - 1] + Len(seqs[k])
      BY <3>1, <3>2, Zenon DEF Lays
    <3>4. at[k] <= at[n] /\ at[k] \in Nat /\ at[k - 1] \in Nat
      BY <3>1 DEF Lays
    <3>5. to[k] <= to[m]
      BY <1>6, <1>13, <3>2, <3>4
    <3>6. ASSUME NEW i \in 1 .. Len(seqs[k]) PROVE last[to[k - 1] + i] = seqs[k][i]
      <4>1. Len(seqs[k]) \in Nat
        BY <3>1
      <4>2. at[k - 1] + i \in 1 .. Len(g[n])
        <5>1. at[k] = at[k - 1] + Len(seqs[k]) /\ Len(g[n]) = at[n]
          BY <3>1 DEF Lays
        <5>2. PICK p, l : p = at[k - 1] /\ l = Len(seqs[k])
          OBVIOUS
        <5>3. /\ p \in Nat /\ l \in Nat /\ i \in 1 .. l /\ p + l <= Len(g[n])
              /\ Len(g[n]) \in Nat
          BY <1>6, <3>4, <3>6, <4>1, <5>1, <5>2
        <5>4. p + i \in 1 .. Len(g[n])
          BY <5>3
        <5>5. QED
          BY <5>2, <5>4
      <4>3. last[at[k - 1] + i] = g[n][at[k - 1] + i]
        BY <1>7, <4>2, Zenon DEF IsConcat
      <4>4. g[n][at[k - 1] + i] = seqs[k][i]
        BY <3>1, <3>6, Zenon DEF Lays
      <4>5. QED
        BY <3>2, <4>3, <4>4, Zenon
    <3>7. QED
      BY <3>3, <3>5, <3>6
  <2>3. QED
    BY <2>1, <2>2
<1>17. Lays(h, to, C, seqs, m)
  <2>1. Len(h[m]) = to[m]
    BY <1>10, <1>13
  <2>2. \A k \in 1 .. m : \A i \in 1 .. Len(seqs[k]) : h[m][to[k - 1] + i] = seqs[k][i]
    BY <1>13, <1>16, Zenon
  <2>3. QED
    BY <1>11, <1>12, <1>15, <1>16, <2>1, <2>2, Zenon DEF Lays
<1>18. QED
  BY <1>1, <1>17, Zenon

(* There are such a whole and such places, however many sequences there    *)
(* are.                                                                    *)
LEMMA LaysExist ==
    ASSUME NEW C, NEW seqs, NEW n \in Nat, \A k \in 1 .. n : seqs[k] \in Seq(C)
    PROVE  \E g, at : Lays(g, at, C, seqs, n)
<1> DEFINE Ok(k) == \E g, at : Lays(g, at, C, seqs, k)
           S == {k \in Nat : k <= n => Ok(k)}
<1>1. Ok(0)
  <2>1. PICK g : g = [k \in 0 .. 0 |-> <<>>]
    OBVIOUS
  <2>2. PICK at : at = [k \in 0 .. 0 |-> 0]
    OBVIOUS
  <2>3. <<>> \in Seq(C) /\ Len(<<>>) = 0 /\ 0 \in Nat /\ 0 \in 0 .. 0 /\ 1 .. 0 = {}
    OBVIOUS
  <2>4. g \in [0 .. 0 -> Seq(C)] /\ at \in [0 .. 0 -> Nat]
    BY <2>1, <2>2, <2>3, Zenon
  <2>5. g[0] = <<>> /\ at[0] = 0
    BY <2>1, <2>2, <2>3, Zenon
  <2>6. Len(g[0]) = at[0]
    BY <2>3, <2>5
  <2>7. Lays(g, at, C, seqs, 0)
    BY <2>3, <2>4, <2>5, <2>6 DEF Lays
  <2>8. QED
    BY <2>7, Zenon
<1>2. ASSUME NEW k \in Nat, k + 1 <= n, Ok(k) PROVE Ok(k + 1)
  <2>1. PICK g, at : Lays(g, at, C, seqs, k)
    BY <1>2
  <2>2. PICK s : s = seqs[k + 1]
    OBVIOUS
  <2>3. s \in Seq(C) /\ \A j \in 1 .. k : seqs[j] \in Seq(C)
    <3>1. k + 1 \in 1 .. n /\ \A j \in 1 .. k : j \in 1 .. n
      BY <1>2
    <3>2. QED
      BY <2>2, <3>1
  <2>4. QED
    BY <2>1, <2>2, <2>3, LayOneMore
<1> HIDE DEF Ok
<1>3. 0 \in S
  BY <1>1
<1>4. \A k \in Nat : k \in S => k + 1 \in S
  BY <1>2
<1> HIDE DEF S
<1>5. n \in S
  BY <1>3, <1>4, NatSetInduction
<1>6. Ok(n)
  BY <1>5 DEF S
<1>7. QED
  BY <1>6 DEF Ok

(* t is the n sequences, one after the other; they end at the places at.   *)
IsJoined(t, at, C, seqs, n) ==
    /\ t \in Seq(C) /\ Len(t) = at[n]
    /\ at \in [0 .. n -> Nat] /\ at[0] = 0
    /\ \A k \in 1 .. n : at[k] = at[k - 1] + Len(seqs[k]) /\ at[k] <= at[n]
    /\ \A k \in 1 .. n : \A i \in 1 .. Len(seqs[k]) : t[at[k - 1] + i] = seqs[k][i]

(* FlattenSeq returns such a sequence.                                     *)
LEMMA Joined ==
    ASSUME NEW C, NEW seqs \in Seq(Seq(C))
    PROVE  \E at : IsJoined(FlattenSeq(seqs), at, C, seqs, Len(seqs))
<1>1. PICK n : n = Len(seqs)
  OBVIOUS
<1>2. n \in Nat /\ \A k \in 1 .. n : seqs[k] \in Seq(C)
  BY <1>1
<1>3. PICK g, at : Lays(g, at, C, seqs, n)
  BY <1>2, LaysExist, Zenon
<1>4. FlattenSeq(seqs) = g[n]
  <2>1. CASE n = 0
    <3>1. seqs = <<>>
      BY <1>1, <2>1, EmptySeq
    <3>2. FlattenSeq(seqs) = <<>>
      BY <3>1 DEF FlattenSeq
    <3>3. g[0] = <<>>
      BY <1>3 DEF Lays
    <3>4. QED
      BY <2>1, <3>2, <3>3
  <2>2. CASE n # 0
    <3>1. n \in Nat \ {0} /\ 1 \in 1 .. n /\ 1 - 1 = 0
      BY <1>2, <2>2
    <3>2. g[1] = seqs[1]
      <4>1. g[1] = <<>> \o seqs[1] /\ seqs[1] \in Seq(C)
        <5>1. g[1] = g[1 - 1] \o seqs[1] /\ g[0] = <<>>
          BY <1>3, <3>1, Zenon DEF Lays
        <5>2. QED
          BY <1>2, <3>1, <5>1
      <4>2. PICK s : s = seqs[1]
        OBVIOUS
      <4>3. s \in Seq(C)
        BY <4>1, <4>2
      <4>4. <<>> \o s = s
        BY <4>3
      <4>5. QED
        BY <4>1, <4>2, <4>4
    <3>3. \A k \in 1 .. n : g[k] = g[k - 1] \o seqs[k]
      BY <1>3, Zenon DEF Lays
    <3>4. Joins(g, seqs, n)
      BY <1>1, <3>2, <3>3, Zenon DEF Joins
    <3>5. QED
      BY <3>1, <3>4, Flattened
  <2>3. QED
    BY <2>1, <2>2
<1>5. PICK t : t = FlattenSeq(seqs)
  OBVIOUS
<1>6. t = g[n] /\ t \in Seq(C) /\ Len(t) = at[n]
  <2>1. n \in 0 .. n
    BY <1>2
  <2>2. t = g[n]
    BY <1>4, <1>5
  <2>3. QED
    BY <1>3, <2>1, <2>2 DEF Lays
<1>7. /\ at \in [0 .. n -> Nat] /\ at[0] = 0
      /\ \A k \in 1 .. n : at[k] = at[k - 1] + Len(seqs[k]) /\ at[k] <= at[n]
  BY <1>3, Zenon DEF Lays
<1>8. \A k \in 1 .. n : \A i \in 1 .. Len(seqs[k]) : t[at[k - 1] + i] = seqs[k][i]
  BY <1>3, <1>6, Zenon DEF Lays
<1>9. IsJoined(t, at, C, seqs, n)
  BY <1>6, <1>7, <1>8, Zenon DEF IsJoined
<1>10. QED
  BY <1>1, <1>5, <1>9, Zenon

-----------------------------------------------------------------------------
(* Percent::encode and Percent::decode.                                    *)

(* What Decode returns from position k on, if f is what it returns from    *)
(* the later ones on.                                                      *)
DecodeStep(value, f, k) ==
    IF k > Len(value) THEN <<>>
    ELSE IF value[k] = Chr.percent /\ HasDigits(value, k)
      THEN <<HexValue(value[k + 1], value[k + 2])>> \o f[k + 3]
    ELSE <<IF value[k] = Chr.plus THEN Chr.space ELSE value[k]>> \o f[k + 1]

(* Decode, unfolded.                                                       *)
LEMMA DecodeIsRecursive ==
    ASSUME NEW value
    PROVE  Decode(value) =
             (CHOOSE f : f = [k \in 1 .. Len(value) + 1 |-> DecodeStep(value, f, k)])[1]
BY DEF Decode, DecodeStep

(* The characters that mean something, as numbers.                         *)
LEMMA ChrValues ==
    /\ Chr.space = 32 /\ Chr.quote = 34 /\ Chr.percent = 37 /\ Chr.and = 38 /\ Chr.plus = 43
    /\ Chr.minus = 45 /\ Chr.semicolon = 59 /\ Chr.equals = 61
BY DEF Chr

(* The value of two digits is a number.                                    *)
LEMMA HexValueType == ASSUME NEW b \in Int, NEW c \in Int PROVE HexValue(b, c) \in Int
<1>1. DigitValue(b) \in Int /\ DigitValue(c) \in Int
  BY DEF DigitValue
<1>2. 16 * DigitValue(b) + DigitValue(c) \in Int
  BY <1>1
<1>3. QED
  BY <1>1, <1>2 DEF HexValue

(* What is decoded is a text, if what comes after it is.                   *)
LEMMA DecodeStepType ==
    ASSUME NEW value \in Seq(Int), NEW k \in Nat \ {0}, NEW f,
           \A j \in k + 1 .. Len(value) + 1 : f[j] \in Seq(Int)
    PROVE  DecodeStep(value, f, k) \in Seq(Int)
<1>1. Len(value) \in Nat /\ \A j \in 1 .. Len(value) : value[j] \in Int
  OBVIOUS
<1>2. \A a \in Int, s \in Seq(Int) : <<a>> \o s \in Seq(Int)
  OBVIOUS
<1>3. CASE k > Len(value)
  <2>1. <<>> \in Seq(Int)
    OBVIOUS
  <2>2. QED
    BY <1>3, <2>1 DEF DecodeStep
<1>4. CASE k <= Len(value) /\ value[k] = Chr.percent /\ HasDigits(value, k)
  <2>1. k + 3 \in k + 1 .. Len(value) + 1 /\ k + 1 \in 1 .. Len(value) /\ k + 2 \in 1 .. Len(value)
        /\ ~(k > Len(value))
    BY <1>1, <1>4 DEF HasDigits
  <2>2. HexValue(value[k + 1], value[k + 2]) \in Int /\ f[k + 3] \in Seq(Int)
    BY <1>1, <2>1, HexValueType
  <2>3. DecodeStep(value, f, k) = <<HexValue(value[k + 1], value[k + 2])>> \o f[k + 3]
    BY <1>4, <2>1, Zenon DEF DecodeStep
  <2>4. QED
    BY <1>2, <2>2, <2>3
<1>5. CASE k <= Len(value) /\ ~(value[k] = Chr.percent /\ HasDigits(value, k))
  <2>1. k + 1 \in k + 1 .. Len(value) + 1 /\ k \in 1 .. Len(value) /\ ~(k > Len(value))
    BY <1>1, <1>5
  <2>2. PICK c : c = IF value[k] = Chr.plus THEN Chr.space ELSE value[k]
    OBVIOUS
  <2>3. c \in Int /\ f[k + 1] \in Seq(Int)
    BY <1>1, <2>1, <2>2, ChrValues
  <2>4. DecodeStep(value, f, k) = <<c>> \o f[k + 1]
    BY <1>5, <2>1, <2>2, Zenon DEF DecodeStep
  <2>5. QED
    BY <1>2, <2>3, <2>4
<1>6. QED
  BY <1>1, <1>3, <1>4, <1>5

(* f is what Decode returns from each position on, down to position low.   *)
DecodesFrom(f, value, low) ==
    /\ f \in [low .. Len(value) + 1 -> Seq(Int)]
    /\ \A k \in low .. Len(value) + 1 : f[k] = DecodeStep(value, f, k)

(* There is such an f down to the position before, too.                    *)
LEMMA DecodeOneMore ==
    ASSUME NEW value \in Seq(Int), NEW low \in 2 .. Len(value) + 2, NEW f, DecodesFrom(f, value, low)
    PROVE  \E h : DecodesFrom(h, value, low - 1)
<1>1. PICK n : n = Len(value) + 1
  OBVIOUS
<1>2. PICK j : j = low - 1
  OBVIOUS
<1>3. n \in Nat /\ j \in 1 .. n /\ low = j + 1 /\ j \in Nat \ {0} /\ Len(value) = n - 1
  BY <1>1, <1>2
<1>4. PICK h : h = [k \in j .. n |-> IF k = j THEN DecodeStep(value, f, j) ELSE f[k]]
  OBVIOUS
<1>5. \A k \in j .. n : k # j => k \in low .. n
  BY <1>3
<1>6. \A k \in low .. n : f[k] \in Seq(Int) /\ f[k] = DecodeStep(value, f, k)
  BY <1>1, Zenon DEF DecodesFrom
<1>7. DecodeStep(value, f, j) \in Seq(Int)
  BY <1>1, <1>3, <1>6, DecodeStepType
<1>8. h \in [j .. n -> Seq(Int)]
  <2>1. \A k \in j .. n : (IF k = j THEN DecodeStep(value, f, j) ELSE f[k]) \in Seq(Int)
    BY <1>5, <1>6, <1>7, Zenon
  <2>2. QED
    BY <1>4, <2>1, Zenon
<1>9. \A k \in low .. n : h[k] = f[k]
  <2>1. \A k \in low .. n : k \in j .. n /\ k # j
    BY <1>3
  <2>2. QED
    BY <1>4, <2>1, Zenon
<1>10. h[j] = DecodeStep(value, f, j)
  <2>1. j \in j .. n
    BY <1>3
  <2>2. QED
    BY <1>4, <2>1, Zenon
<1>11. ASSUME NEW k \in j .. n PROVE DecodeStep(value, h, k) = DecodeStep(value, f, k)
  <2>1. CASE k > Len(value)
    BY <2>1, Zenon DEF DecodeStep
  <2>2. CASE ~(k > Len(value))
    <3>1. k + 1 \in low .. n /\ (HasDigits(value, k) => k + 3 \in low .. n)
      BY <1>3, <2>2 DEF HasDigits
    <3>2. h[k + 1] = f[k + 1] /\ (HasDigits(value, k) => h[k + 3] = f[k + 3])
      BY <1>9, <3>1
    <3>3. QED
      BY <2>2, <3>2, Zenon DEF DecodeStep
  <2>3. QED
    BY <2>1, <2>2
<1>12. \A k \in j .. n : h[k] = DecodeStep(value, h, k)
  BY <1>5, <1>6, <1>9, <1>10, <1>11, Zenon
<1>13. DecodesFrom(h, value, j)
  BY <1>1, <1>8, <1>12, Zenon DEF DecodesFrom
<1>14. QED
  BY <1>2, <1>13, Zenon

(* There is such an f for all positions.                                   *)
LEMMA DecodesAll ==
    ASSUME NEW value \in Seq(Int)
    PROVE  \E f : DecodesFrom(f, value, 1)
<1>1. PICK n : n = Len(value) + 1
  OBVIOUS
<1>2. n \in Nat \ {0} /\ Len(value) + 1 = n
  BY <1>1
<1> DEFINE Ok(low) == \E f : DecodesFrom(f, value, low)
           S == {m \in Nat : m <= n => Ok(n + 1 - m)}
<1>3. Ok(n + 1)
  <2>1. PICK f : f = [k \in n + 1 .. n |-> <<>>]
    OBVIOUS
  <2>2. n + 1 .. n = {} /\ n + 1 .. Len(value) + 1 = n + 1 .. n
    BY <1>2
  <2>3. f \in [n + 1 .. n -> Seq(Int)]
    BY <2>1, <2>2, Zenon
  <2>4. DecodesFrom(f, value, n + 1)
    BY <2>2, <2>3, Zenon DEF DecodesFrom
  <2>5. QED
    BY <2>4, Zenon
<1>4. ASSUME NEW m \in Nat, m + 1 <= n, Ok(n + 1 - m) PROVE Ok(n + 1 - (m + 1))
  <2>1. PICK low : low = n + 1 - m
    OBVIOUS
  <2>2. low \in 2 .. Len(value) + 2 /\ n + 1 - (m + 1) = low - 1
    BY <1>2, <1>4, <2>1
  <2>3. PICK f : DecodesFrom(f, value, low)
    BY <1>4, <2>1
  <2>4. \E h : DecodesFrom(h, value, low - 1)
    BY <2>2, <2>3, DecodeOneMore
  <2>5. QED
    BY <2>2, <2>4
<1> HIDE DEF Ok
<1>5. 0 \in S
  <2>1. n + 1 - 0 = n + 1
    BY <1>2
  <2>2. QED
    BY <1>3, <2>1
<1>6. \A m \in Nat : m \in S => m + 1 \in S
  <2>1. \A m \in Nat : m + 1 <= n => m <= n
    BY <1>2
  <2>2. QED
    BY <1>4, <2>1
<1> HIDE DEF S
<1>7. n \in S
  BY <1>2, <1>5, <1>6, NatSetInduction
<1>8. n + 1 - n = 1 /\ Ok(n + 1 - n)
  BY <1>2, <1>7 DEF S
<1>9. QED
  BY <1>8 DEF Ok

(* Decode returns what such an f has at the first position.                *)
LEMMA DecodeRuns ==
    ASSUME NEW value \in Seq(Int)
    PROVE  \E f : /\ Decode(value) = f[1]
                  /\ \A k \in 1 .. Len(value) + 1 : f[k] = DecodeStep(value, f, k)
<1> DEFINE n == Len(value) + 1
           Rec(f) == f = [k \in 1 .. n |-> DecodeStep(value, f, k)]
<1> HIDE DEF n
<1>1. PICK h : Rec(h)
  <2>1. PICK f : DecodesFrom(f, value, 1)
    BY DecodesAll
  <2>2. f \in [1 .. n -> Seq(Int)] /\ \A k \in 1 .. n : f[k] = DecodeStep(value, f, k)
    BY <2>1, Zenon DEF DecodesFrom, n
  <2>3. f = [k \in 1 .. n |-> f[k]]
    BY <2>2, Zenon
  <2>4. [k \in 1 .. n |-> f[k]] = [k \in 1 .. n |-> DecodeStep(value, f, k)]
    BY <2>2
  <2>5. Rec(f)
    BY <2>3, <2>4, Zenon
  <2> HIDE DEF Rec
  <2>6. QED
    BY <2>5
<1>2. PICK f : f = CHOOSE g : Rec(g)
  OBVIOUS
<1>3. Rec(f)
  <2> HIDE DEF Rec
  <2>1. QED
    BY <1>1, <1>2, Zenon
<1>4. Decode(value) = f[1]
  BY <1>2, DecodeIsRecursive, Zenon DEF n
<1>5. \A k \in 1 .. n : f[k] = DecodeStep(value, f, k)
  BY <1>3, Zenon
<1>6. QED
  BY <1>4, <1>5 DEF n

(* The values of a byte.                                                   *)
Octet == 0 .. 255

(* The characters of an encoded text.                                      *)
Safe == Unreserved \cup {Chr.percent}

(* What Encode makes of a byte.                                            *)
EncodedByte(b) ==
    IF b \in Unreserved THEN <<b>>
    ELSE <<Chr.percent, HexDigit[b \div 16], HexDigit[b % 16]>>

(* An encoded text has no character that separates, quotes or stands for a *)
(* space.                                                                  *)
LEMMA SafeCharacters ==
    /\ Safe \subseteq Int
    /\ \A b \in Safe : b \notin {Chr.space, Chr.quote, Chr.and, Chr.plus, Chr.semicolon, Chr.equals}
    /\ \A b \in Unreserved : b # Chr.percent /\ b # Chr.plus /\ b \in Safe /\ b \in Int
BY ChrValues DEF Safe, Unreserved

(* The two digits of a byte are characters of their own, and decoded as    *)
(* this byte.                                                              *)
LEMMA DigitsOfByte ==
    ASSUME NEW b \in Octet
    PROVE  /\ HexDigit[b \div 16] \in Unreserved /\ HexDigit[b % 16] \in Unreserved
           /\ HexValue(HexDigit[b \div 16], HexDigit[b % 16]) = b
<1>1. PICK q : q = b \div 16
  OBVIOUS
<1>2. PICK r : r = b % 16
  OBVIOUS
<1>3. q \in 0 .. 15 /\ r \in 0 .. 15 /\ b = 16 * q + r
  BY <1>1, <1>2 DEF Octet
<1>4. ASSUME NEW n \in 0 .. 15
      PROVE  /\ HexDigit[n] \in 48 .. 57 \/ HexDigit[n] \in 65 .. 70
             /\ DigitValue(HexDigit[n]) = n
  <2>1. HexDigit[n] = IF n < 10 THEN 48 + n ELSE 55 + n
    BY DEF HexDigit
  <2>2. QED
    BY <2>1 DEF DigitValue
<1>5. HexDigit[q] \in Unreserved /\ HexDigit[r] \in Unreserved
  BY <1>3, <1>4 DEF Unreserved
<1>6. DigitValue(HexDigit[q]) = q /\ DigitValue(HexDigit[r]) = r /\ q # -1 /\ r # -1
  BY <1>3, <1>4
<1>7. HexValue(HexDigit[q], HexDigit[r]) = 16 * DigitValue(HexDigit[q]) + DigitValue(HexDigit[r])
  BY <1>6 DEF HexValue
<1>8. HexValue(HexDigit[q], HexDigit[r]) = b
  BY <1>3, <1>6, <1>7
<1>9. QED
  BY <1>1, <1>2, <1>5, <1>8

(* A byte stays as it is, or is a percent sign and its two digits.         *)
LEMMA EncodedByteIs ==
    ASSUME NEW b \in Octet
    PROVE  /\ EncodedByte(b) \in Seq(Safe)
           /\ \/ /\ b \in Unreserved
                 /\ Len(EncodedByte(b)) = 1 /\ EncodedByte(b)[1] = b
              \/ /\ Len(EncodedByte(b)) = 3 /\ EncodedByte(b)[1] = Chr.percent
                 /\ HexValue(EncodedByte(b)[2], EncodedByte(b)[3]) = b
<1>1. CASE b \in Unreserved
  <2>1. EncodedByte(b) = <<b>> /\ b \in Safe
    BY <1>1 DEF EncodedByte, Safe
  <2>2. QED
    BY <1>1, <2>1
<1>2. CASE b \notin Unreserved
  <2>1. PICK c : c = HexDigit[b \div 16]
    OBVIOUS
  <2>2. PICK d : d = HexDigit[b % 16]
    OBVIOUS
  <2>3. c \in Safe /\ d \in Safe /\ Chr.percent \in Safe /\ HexValue(c, d) = b
    BY <2>1, <2>2, DigitsOfByte DEF Safe
  <2>4. PICK p : p = Chr.percent
    OBVIOUS
  <2>5. EncodedByte(b) = <<p, c, d>>
    BY <1>2, <2>1, <2>2, <2>4 DEF EncodedByte
  <2>6. PICK e : e = <<p, c, d>>
    OBVIOUS
  <2>7. e \in Seq(Safe) /\ Len(e) = 3 /\ e[1] = p /\ e[2] = c /\ e[3] = d
    BY <2>3, <2>4, <2>6
  <2>8. QED
    BY <2>3, <2>4, <2>5, <2>6, <2>7
<1>3. QED
  BY <1>1, <1>2

(* What Encode makes of each byte of x.                                    *)
EncodedParts(x) == [k \in DOMAIN x |-> EncodedByte(x[k])]

(* Encode joins the encoded bytes.                                         *)
LEMMA EncodeIs ==
    ASSUME NEW x \in Seq(Octet)
    PROVE  /\ Encode(x) = FlattenSeq(EncodedParts(x))
           /\ EncodedParts(x) \in Seq(Seq(Safe)) /\ Len(EncodedParts(x)) = Len(x)
           /\ \A k \in 1 .. Len(x) : EncodedParts(x)[k] = EncodedByte(x[k])
<1>1. PICK n : n = Len(x)
  OBVIOUS
<1>2. n \in Nat /\ DOMAIN x = 1 .. n /\ \A k \in 1 .. n : x[k] \in Octet
  BY <1>1
<1>3. Encode(x) = FlattenSeq(EncodedParts(x))
  BY Zenon DEF Encode, EncodedParts, EncodedByte
<1>4. PICK p : p = EncodedParts(x)
  OBVIOUS
<1>5. p = [k \in 1 .. n |-> EncodedByte(x[k])]
  BY <1>2, <1>4 DEF EncodedParts
<1>6. \A k \in 1 .. n : EncodedByte(x[k]) \in Seq(Safe)
  BY <1>2, EncodedByteIs
<1>7. p \in [1 .. n -> Seq(Safe)]
  BY <1>5, <1>6, Zenon
<1>8. p \in Seq(Seq(Safe)) /\ Len(p) = n
  <2>1. PICK E : E = Seq(Safe)
    OBVIOUS
  <2>2. p \in [1 .. n -> E]
    BY <1>7, <2>1
  <2>3. p \in Seq(E) /\ Len(p) = n
    BY <1>2, <2>2
  <2>4. QED
    BY <2>1, <2>3
<1>9. \A k \in 1 .. n : p[k] = EncodedByte(x[k])
  BY <1>5, Zenon
<1>10. QED
  BY <1>1, <1>3, <1>4, <1>8, <1>9

(* decode returns what encode was given, whatever the bytes of the text.   *)
LEMMA DecodeUndoesEncode ==
    ASSUME NEW x \in Seq(Octet)
    PROVE  Encode(x) \in Seq(Safe) /\ Decode(Encode(x)) = x
<1>1. PICK n : n = Len(x)
  OBVIOUS
<1>2. PICK t : t = Encode(x)
  OBVIOUS
<1>3. PICK pieces : pieces = EncodedParts(x)
  OBVIOUS
<1>4. /\ t = FlattenSeq(pieces) /\ pieces \in Seq(Seq(Safe)) /\ Len(pieces) = n
      /\ \A k \in 1 .. n : pieces[k] = EncodedByte(x[k])
  BY <1>1, <1>2, <1>3, EncodeIs
<1>5. PICK at : IsJoined(t, at, Safe, pieces, n)
  BY <1>4, Joined, Zenon
<1>6. n \in Nat /\ \A k \in 1 .. n : x[k] \in Octet
  BY <1>1
<1>7. t \in Seq(Safe) /\ Len(t) = at[n] /\ at[0] = 0
  BY <1>5 DEF IsJoined
<1>8. t \in Seq(Int)
  BY <1>7, SafeCharacters, SeqMonotonic
<1>9. PICK f : /\ Decode(t) = f[1]
               /\ \A k \in 1 .. Len(t) + 1 : f[k] = DecodeStep(t, f, k)
  BY <1>8, DecodeRuns
<1> DEFINE S == {m \in Nat : m <= n => f[at[n - m] + 1] = SubSeq(x, n - m + 1, n)}
<1>10. 0 \in S
  <2>1. n - 0 = n /\ n - 0 + 1 = n + 1
    BY <1>6
  <2>2. at[n] \in Nat /\ at[n] + 1 \in 1 .. Len(t) + 1 /\ at[n] + 1 > Len(t)
    <3>1. at[n] \in Nat
      BY <1>5, <1>6 DEF IsJoined
    <3>2. QED
      BY <1>7, <3>1
  <2>3. f[at[n] + 1] = <<>>
    BY <1>9, <2>2, Zenon DEF DecodeStep
  <2>4. SubSeq(x, n + 1, n) = <<>>
    BY <1>6, SubSeqEmpty
  <2>5. QED
    BY <2>1, <2>3, <2>4
<1>11. ASSUME NEW m \in Nat, m \in S, m + 1 <= n
       PROVE  f[at[n - (m + 1)] + 1] = SubSeq(x, n - (m + 1) + 1, n)
  <2>1. PICK j : j = n - m
    OBVIOUS
  <2>2. j \in 1 .. n /\ n - (m + 1) = j - 1 /\ (j - 1) + 1 = j /\ j - 1 \in 0 .. n /\ m <= n
        /\ j \in 0 .. n
    BY <1>6, <1>11, <2>1
  <2>3. f[at[j] + 1] = SubSeq(x, j + 1, n)
    BY <1>11, <2>1, <2>2
  <2>4. PICK p : p = at[j - 1] + 1
    OBVIOUS
  <2>5. PICK e : e = EncodedByte(x[j])
    OBVIOUS
  <2>6. /\ at[j - 1] \in Nat /\ at[j] \in Nat /\ at[j] = at[j - 1] + Len(e) /\ at[j] <= Len(t)
        /\ \A i \in 1 .. Len(e) : t[at[j - 1] + i] = e[i]
    <3>1. e = pieces[j]
      BY <1>4, <2>2, <2>5
    <3>2. at[j - 1] \in Nat /\ at[j] \in Nat
      BY <1>5, <2>2 DEF IsJoined
    <3>3. /\ at[j] = at[j - 1] + Len(pieces[j]) /\ at[j] <= at[n]
          /\ \A i \in 1 .. Len(pieces[j]) : t[at[j - 1] + i] = pieces[j][i]
      BY <1>5, <2>2, Zenon DEF IsJoined
    <3>4. QED
      BY <1>7, <3>1, <3>2, <3>3
  <2>7. x[j] \in Octet /\ x[j] \in Int
    <3>1. \A b \in Octet : b \in Int
      BY DEF Octet
    <3>2. QED
      BY <1>6, <2>2, <3>1
  <2>8. f[p] = <<x[j]>> \o SubSeq(x, j + 1, n)
    <3>1. CASE x[j] \in Unreserved /\ Len(e) = 1 /\ e[1] = x[j]
      <4>1. 1 \in 1 .. Len(e)
        BY <3>1
      <4>2. t[p] = x[j]
        BY <2>4, <2>6, <3>1, <4>1
      <4>3. p + 1 = at[j] + 1 /\ p \in 1 .. Len(t) + 1 /\ ~(p > Len(t))
        <5>1. Len(t) \in Nat
          BY <1>7
        <5>2. QED
          BY <2>4, <2>6, <3>1, <5>1
      <4>4. t[p] # Chr.percent /\ t[p] # Chr.plus
        BY <3>1, <4>2, SafeCharacters
      <4>5. f[p] = <<t[p]>> \o f[p + 1]
        BY <1>9, <4>3, <4>4, Zenon DEF DecodeStep
      <4>6. QED
        BY <2>3, <4>2, <4>3, <4>5
    <3>2. CASE Len(e) = 3 /\ e[1] = Chr.percent /\ HexValue(e[2], e[3]) = x[j]
      <4>1. 1 \in 1 .. Len(e) /\ 2 \in 1 .. Len(e) /\ 3 \in 1 .. Len(e)
        BY <3>2
      <4>2. t[at[j - 1] + 1] = e[1] /\ t[at[j - 1] + 2] = e[2] /\ t[at[j - 1] + 3] = e[3]
        BY <2>6, <4>1
      <4>3. /\ p + 1 = at[j - 1] + 2 /\ p + 2 = at[j - 1] + 3 /\ p + 3 = at[j] + 1
            /\ p \in 1 .. Len(t) + 1 /\ ~(p > Len(t)) /\ HasDigits(t, p)
        <5>1. Len(t) \in Nat
          BY <1>7
        <5>2. PICK low, high, l : low = at[j - 1] /\ high = at[j] /\ l = Len(t)
          OBVIOUS
        <5>3. low \in Nat /\ high = low + 3 /\ high <= l /\ l \in Nat /\ p = low + 1
          BY <2>4, <2>6, <3>2, <5>1, <5>2
        <5>4. /\ p + 1 = low + 2 /\ p + 2 = low + 3 /\ p + 3 = high + 1
              /\ p \in 1 .. l + 1 /\ ~(p > l) /\ p + 2 <= l
          BY <5>3
        <5>5. QED
          BY <5>2, <5>4, Zenon DEF HasDigits
      <4>4. t[p] = Chr.percent /\ t[p + 1] = e[2] /\ t[p + 2] = e[3]
        BY <2>4, <3>2, <4>2, <4>3
      <4>5. f[p] = <<HexValue(t[p + 1], t[p + 2])>> \o f[p + 3]
        BY <1>9, <4>3, <4>4, Zenon DEF DecodeStep
      <4>6. QED
        BY <2>3, <3>2, <4>3, <4>4, <4>5
    <3>3. QED
      BY <2>5, <2>7, <3>1, <3>2, EncodedByteIs
  <2>9. <<x[j]>> \o SubSeq(x, j + 1, n) = SubSeq(x, j, n)
    <3>1. j \in 1 .. Len(x) /\ n \in j .. Len(x)
      BY <1>1, <2>2
    <3>2. QED
      BY <3>1, SubSeqRecursiveFirst
  <2>10. QED
    BY <2>2, <2>4, <2>8, <2>9
<1>12. ASSUME NEW m \in Nat, m \in S PROVE m + 1 \in S
  BY <1>11, <1>12
<1> HIDE DEF S
<1>13. n \in S
  BY <1>6, <1>10, <1>12, NatSetInduction
<1>14. f[at[0] + 1] = SubSeq(x, 1, n)
  <2>1. n - n = 0 /\ n - n + 1 = 1
    BY <1>6
  <2>2. QED
    BY <1>6, <1>13, <2>1 DEF S
<1>15. SubSeq(x, 1, n) = x
  BY <1>1, SubSeqFull
<1>16. QED
  <2>1. at[0] + 1 = 1
    BY <1>7
  <2>2. QED
    BY <1>2, <1>7, <1>9, <1>14, <1>15, <2>1, Zenon

-----------------------------------------------------------------------------
(* QueryString::parse: its steps, and what they lead to.                   *)

(* The scan after the last character.                                      *)
QueryEnd(query) ==
    FoldLeftDomain(LAMBDA scan, c : QueryStep(query, scan, c), QueryScan, query)

(* ParseQuery returns the fields of this scan, and the one it is in.       *)
LEMMA ParsedQuery ==
    ASSUME NEW query
    PROVE  ParseQuery(query) =
             QueryEnd(query).result \cup QueryField(query, QueryEnd(query), Len(query) + 1)
BY Zenon DEF ParseQuery, QueryEnd

(* A scan with these positions and these fields.                           *)
QueryAt(a, b, v, r) == [name_pos |-> a, name_end_pos |-> b, value_pos |-> v, result |-> r]

(* The scans without a field.                                              *)
Bare == [name_pos : Nat, name_end_pos : Nat, value_pos : Nat, result : {{}}]

(* What may be found in a query.                                           *)
FieldsIn(query) == UNION {QueryField(query, p[1], p[2]) : p \in Bare \X Nat}

(* The scans of a query.                                                   *)
QueryScans(query) ==
    [name_pos : Nat, name_end_pos : Nat, value_pos : Nat, result : SUBSET FieldsIn(query)]

(* What NextField does with a scan.                                        *)
LEMMA NextFieldAt ==
    ASSUME NEW a, NEW b, NEW v, NEW r, NEW c
    PROVE  NextField(QueryAt(a, b, v, r), c) = QueryAt(c + 1, 0, 0, r)
<1>1. PICK p : p = c + 1
  OBVIOUS
<1>2. PICK z : z = 0
  OBVIOUS
<1>3. PICK s : s = QueryAt(a, b, v, r)
  OBVIOUS
<1>4. PICK t : t = QueryAt(p, b, v, r)
  OBVIOUS
<1>5. PICK u : u = QueryAt(p, z, v, r)
  OBVIOUS
<1>6. PICK w : w = QueryAt(p, z, z, r)
  OBVIOUS
<1>7. [s EXCEPT !.name_pos = p] = t
  BY <1>3, <1>4 DEF QueryAt
<1>8. [t EXCEPT !.name_end_pos = z] = u
  BY <1>4, <1>5 DEF QueryAt
<1>9. [u EXCEPT !.value_pos = z] = w
  BY <1>5, <1>6 DEF QueryAt
<1>10. [s EXCEPT !.name_pos = p, !.name_end_pos = z, !.value_pos = z]
        = [[[s EXCEPT !.name_pos = p] EXCEPT !.name_end_pos = z] EXCEPT !.value_pos = z]
  BY Zenon
<1>11. NextField(s, c) = w
  <2>1. NextField(s, c) = [s EXCEPT !.name_pos = p, !.name_end_pos = z, !.value_pos = z]
    BY <1>1, <1>2, Zenon DEF NextField
  <2>2. QED
    BY <1>7, <1>8, <1>9, <1>10, <2>1
<1>12. QED
  BY <1>1, <1>2, <1>3, <1>6, <1>11

(* A step leads from a scan to a scan.                                     *)
LEMMA QueryStepType ==
    ASSUME NEW query, NEW scan \in QueryScans(query), NEW c \in Nat
    PROVE  QueryStep(query, scan, c) \in QueryScans(query)
<1>1. PICK a \in Nat, b \in Nat, v \in Nat, r \in SUBSET FieldsIn(query) :
        scan = QueryAt(a, b, v, r)
  BY DEF QueryScans, QueryAt
<1>2. PICK f : f = QueryField(query, scan, c)
  OBVIOUS
<1>3. f \subseteq FieldsIn(query)
  <2>1. f = QueryField(query, QueryAt(a, b, v, {}), c)
    BY <1>1, <1>2 DEF QueryField, QueryAt
  <2>2. QueryAt(a, b, v, {}) \in Bare
    BY DEF Bare, QueryAt
  <2>3. PICK p : p = <<QueryAt(a, b, v, {}), c>>
    OBVIOUS
  <2>4. p \in Bare \X Nat /\ p[1] = QueryAt(a, b, v, {}) /\ p[2] = c
    BY <2>2, <2>3
  <2>5. QED
    BY <2>1, <2>4, Zenon DEF FieldsIn
<1>4. CASE query[c] = Chr.and
  <2>1. QueryStep(query, scan, c) = QueryAt(c + 1, 0, 0, r \cup f)
    <3>1. query[c] # Chr.equals
      BY <1>4, ChrValues
    <3>2. QueryStep(query, scan, c) = [NextField(scan, c) EXCEPT !.result = @ \cup f]
      BY <1>2, <1>4, <3>1, Zenon DEF QueryStep
    <3>3. NextField(scan, c) = QueryAt(c + 1, 0, 0, r)
      <4>1. NextField(QueryAt(a, b, v, r), c) = QueryAt(c + 1, 0, 0, r)
        BY NextFieldAt
      <4>2. QED
        BY <1>1, <4>1
    <3>4. [QueryAt(c + 1, 0, 0, r) EXCEPT !.result = @ \cup f] = QueryAt(c + 1, 0, 0, r \cup f)
      <4>1. PICK q, d : q = r \cup f /\ d = c + 1
        OBVIOUS
      <4>2. [QueryAt(d, 0, 0, r) EXCEPT !.result = q] = QueryAt(d, 0, 0, q)
        BY DEF QueryAt
      <4>3. QueryAt(d, 0, 0, r).result = r
        BY DEF QueryAt
      <4>4. QED
        BY <4>1, <4>2, <4>3
    <3>5. QED
      BY <3>2, <3>3, <3>4, Zenon
  <2>2. QED
    BY <1>3, <2>1 DEF QueryScans, QueryAt
<1>5. CASE query[c] = Chr.equals
  <2>1. QueryStep(query, scan, c) = QueryAt(a, c, c + 1, r)
    <3>1. query[c] # Chr.and
      BY <1>5, ChrValues
    <3>2. QueryStep(query, scan, c) = [scan EXCEPT !.name_end_pos = c, !.value_pos = c + 1]
      BY <1>5, <3>1, Zenon DEF QueryStep
    <3>3. QED
      BY <1>1, <3>2 DEF QueryAt
  <2>2. QED
    BY <2>1 DEF QueryScans, QueryAt
<1>6. CASE query[c] # Chr.and /\ query[c] # Chr.equals
  BY <1>6 DEF QueryStep
<1>7. QED
  BY <1>4, <1>5, <1>6

(* scans is the scan after each character of query.                        *)
QueryRun(scans, query) ==
    /\ scans \in [0 .. Len(query) -> QueryScans(query)]
    /\ scans[0] = QueryScan
    /\ \A k \in 1 .. Len(query) : scans[k] = QueryStep(query, scans[k - 1], k)

(* The positions of a sequence, as FoldLeftDomain goes through them.       *)
Places(s) == [i \in DOMAIN s |-> i]

(* The last scan, unfolded.                                                *)
LEMMA QueryIsAFold ==
    ASSUME NEW query
    PROVE  QueryEnd(query) =
             (CHOOSE iter : iter = [t \in SUBSET DOMAIN Places(query) |->
                IF t = {} THEN QueryScan
                ELSE QueryStep(query, iter[t \ {Max(t)}], Places(query)[Max(t)])])[DOMAIN Places(query)]
BY Zenon DEF QueryEnd, FoldLeftDomain, FoldLeft, MapThenFoldSet, Places

(* The last scan is what the steps lead to.                                *)
LEMMA QuerySteps ==
    ASSUME NEW query, Len(query) \in Nat, DOMAIN query = 1 .. Len(query)
    PROVE  \E scans : QueryRun(scans, query) /\ QueryEnd(query) = scans[Len(query)]
<1> DEFINE n == Len(query)
           A == QueryScans(query)
           F == [p \in (1 .. n) \X A |-> QueryStep(query, p[2], p[1])]
<1>1. n \in Nat /\ DOMAIN query = 1 .. n
  OBVIOUS
<1>2. QueryScan \in A
  BY DEF QueryScan, QueryScans
<1>3. \A k \in 1 .. n, a \in A : QueryStep(query, a, k) \in A
  BY QueryStepType
<1> HIDE DEF n, A
<1>4. \A k \in 1 .. n, a \in A : F[<<k, a>>] = QueryStep(query, a, k)
  OBVIOUS
<1> HIDE DEF F
<1>5. StaysIn(F, n, A)
  BY <1>3, <1>4 DEF StaysIn
<1>6. PICK g \in [SUBSET (1 .. n) -> A] : Folds(g, F, QueryScan, n)
  BY <1>1, <1>2, <1>5, FoldExists
<1>7. DOMAIN Places(query) = 1 .. n /\ \A i \in 1 .. n : Places(query)[i] = i
  BY <1>1, Zenon DEF Places
<1> DEFINE Rec(f) == f = [t \in SUBSET DOMAIN Places(query) |->
                IF t = {} THEN QueryScan
                ELSE QueryStep(query, f[t \ {Max(t)}], Places(query)[Max(t)])]
<1>8. Rec(g)
  <2>1. ASSUME NEW t \in SUBSET (1 .. n)
        PROVE  g[t] = IF t = {} THEN QueryScan
                      ELSE QueryStep(query, g[t \ {Max(t)}], Places(query)[Max(t)])
    <3>1. CASE t = {}
      BY <1>6, <3>1, Zenon DEF Folds
    <3>2. CASE t # {}
      <4>1. Max(t) \in 1 .. n
        BY <1>1, <3>2, MaxOfSome
      <4>2. g[t \ {Max(t)}] \in A
        BY <1>6
      <4>3. g[t] = F[<<Max(t), g[t \ {Max(t)}]>>]
        BY <1>6, <3>2, Zenon DEF Folds
      <4>4. QED
        BY <1>4, <1>7, <3>2, <4>1, <4>2, <4>3, Zenon
    <3>3. QED
      BY <3>1, <3>2
  <2>2. QED
    BY <1>6, <1>7, <2>1, Zenon
<1>9. PICK h : Rec(h) /\ QueryEnd(query) = h[1 .. n]
  <2>1. QueryEnd(query) = (CHOOSE f : Rec(f))[DOMAIN Places(query)]
    BY QueryIsAFold, Zenon
  <2> HIDE DEF Rec
  <2>2. Rec(CHOOSE f : Rec(f))
    BY <1>8, Zenon
  <2>3. QED
    BY <2>1, <2>2, <1>7
<1>10. IsFold(h, F, QueryScan, n, A)
  <2>1. h[{}] = QueryScan
    BY <1>9, Zenon
  <2>2. ASSUME NEW t \in SUBSET (1 .. n), t # {}, h[t \ {Max(t)}] \in A
        PROVE  h[t] = F[<<Max(t), h[t \ {Max(t)}]>>]
    <3>1. Max(t) \in 1 .. n
      BY <1>1, <2>2, MaxOfSome
    <3>2. h[t] = QueryStep(query, h[t \ {Max(t)}], Max(t))
      BY <1>7, <1>9, <2>2, <3>1, Zenon
    <3>3. QED
      BY <1>4, <2>2, <3>1, <3>2, Zenon
  <2>3. QED
    BY <2>1, <2>2 DEF IsFold
<1>11. PICK scans \in [0 .. n -> A] : Steps(scans, F, QueryScan, n) /\ scans[n] = h[1 .. n]
  BY <1>1, <1>2, <1>5, <1>10, FoldSteps
<1>12. ASSUME NEW k \in 1 .. n PROVE scans[k] = QueryStep(query, scans[k - 1], k)
  <2>1. k - 1 \in 0 .. n
    BY <1>1
  <2>2. scans[k - 1] \in A
    BY <1>11, <2>1
  <2>3. QED
    BY <1>4, <1>11, <2>2 DEF Steps
<1>13. QueryRun(scans, query)
  BY <1>11, <1>12 DEF A, n, Steps, QueryRun
<1>14. QED
  BY <1>9, <1>11, <1>13 DEF n

-----------------------------------------------------------------------------
(* A field of a query: what the scan does from its first character to its  *)
(* last.                                                                   *)

(* The characters a query does not look at.                                *)
Plain == Int \ {Chr.and, Chr.equals}

(* They leave the scan as it is.                                           *)
LEMMA QuietQuery ==
    ASSUME NEW query \in Seq(Int), NEW scans, QueryRun(scans, query),
           NEW c \in Nat, NEW m \in Nat, c + m <= Len(query),
           \A i \in 1 .. m : query[c + i] \in Plain
    PROVE  scans[c + m] = scans[c]
<1>1. PICK n : n = Len(query)
  OBVIOUS
<1>2. n \in Nat /\ c + m <= n
  BY <1>1
<1> DEFINE S == {k \in Nat : k <= m => scans[c + k] = scans[c]}
<1>3. 0 \in S
  OBVIOUS
<1>4. ASSUME NEW k \in Nat, k \in S PROVE k + 1 \in S
  <2>1. SUFFICES ASSUME k + 1 <= m PROVE scans[c + (k + 1)] = scans[c]
    OBVIOUS
  <2>2. PICK j : j = c + (k + 1)
    OBVIOUS
  <2>3. j \in 1 .. n /\ j - 1 = c + k /\ k <= m /\ k + 1 \in 1 .. m
    BY <1>2, <2>1, <2>2
  <2>4. scans[j - 1] = scans[c]
    BY <1>4, <2>3
  <2>5. query[j] \in Plain
    BY <2>2, <2>3
  <2>6. query[j] # Chr.and /\ query[j] # Chr.equals
    BY <2>5 DEF Plain
  <2>7. scans[j] = QueryStep(query, scans[j - 1], j)
    BY <1>1, <2>3, Zenon DEF QueryRun
  <2>8. QueryStep(query, scans[j - 1], j) = scans[j - 1]
    BY <2>6 DEF QueryStep
  <2>9. QED
    BY <2>2, <2>4, <2>7, <2>8
<1> HIDE DEF S
<1>5. m \in S
  BY <1>3, <1>4, NatSetInduction
<1>6. QED
  BY <1>5 DEF S

(* An equals sign ends the name.                                           *)
LEMMA QueryAtEquals ==
    ASSUME NEW query, NEW c, query[c] = Chr.equals, NEW a, NEW b, NEW v, NEW r
    PROVE  QueryStep(query, QueryAt(a, b, v, r), c) = QueryAt(a, c, c + 1, r)
<1>1. query[c] # Chr.and
  BY ChrValues
<1>2. PICK s : s = QueryAt(a, b, v, r)
  OBVIOUS
<1>3. PICK p : p = c + 1
  OBVIOUS
<1>4. QueryStep(query, s, c) = [s EXCEPT !.name_end_pos = c, !.value_pos = p]
  BY <1>1, <1>3, Zenon DEF QueryStep
<1>5. [s EXCEPT !.name_end_pos = c, !.value_pos = p] = QueryAt(a, c, p, r)
  <2>1. PICK t : t = QueryAt(a, c, v, r)
    OBVIOUS
  <2>2. PICK u : u = QueryAt(a, c, p, r)
    OBVIOUS
  <2>3. [s EXCEPT !.name_end_pos = c] = t
    BY <1>2, <2>1 DEF QueryAt
  <2>4. [t EXCEPT !.value_pos = p] = u
    BY <2>1, <2>2 DEF QueryAt
  <2>5. [s EXCEPT !.name_end_pos = c, !.value_pos = p]
          = [[s EXCEPT !.name_end_pos = c] EXCEPT !.value_pos = p]
    BY Zenon
  <2>6. QED
    BY <2>2, <2>3, <2>4, <2>5
<1>6. QED
  BY <1>2, <1>3, <1>4, <1>5

(* A separator ends the field.                                             *)
LEMMA QueryAtAnd ==
    ASSUME NEW query, NEW c, NEW a, NEW b, NEW v, NEW r, NEW f, NEW q,
           query[c] = Chr.and, f = QueryField(query, QueryAt(a, b, v, r), c), q = r \cup f
    PROVE  QueryStep(query, QueryAt(a, b, v, r), c) = QueryAt(c + 1, 0, 0, q)
<1>1. query[c] # Chr.equals
  BY ChrValues
<1>2. PICK s : s = QueryAt(a, b, v, r)
  OBVIOUS
<1>3. PICK t : t = NextField(s, c)
  OBVIOUS
<1>4. QueryStep(query, s, c) = [t EXCEPT !.result = t.result \cup f]
  BY <1>1, <1>2, <1>3, Zenon DEF QueryStep
<1>5. t = QueryAt(c + 1, 0, 0, r)
  BY <1>2, <1>3, NextFieldAt
<1>6. PICK w : w = QueryAt(c + 1, 0, 0, q)
  OBVIOUS
<1>7. t.result = r
  BY <1>5 DEF QueryAt
<1>8. [t EXCEPT !.result = q] = w
  BY <1>5, <1>6 DEF QueryAt
<1>9. QED
  BY <1>2, <1>4, <1>6, <1>7, <1>8

(* A field stands in the query from b + 1 to d.                            *)
FieldAt(query, b, d, name, value) ==
    /\ d = b + Len(name) + 1 + Len(value) /\ d <= Len(query)
    /\ \A i \in 1 .. Len(name) : query[b + i] = name[i]
    /\ query[b + Len(name) + 1] = Chr.equals
    /\ \A i \in 1 .. Len(value) : query[b + Len(name) + 1 + i] = value[i]

(* What stands in a text is what SubSeq takes out of it.                   *)
LEMMA PartIs ==
    ASSUME NEW C, NEW s \in Seq(C), NEW x \in Seq(C), NEW b \in Nat, b + Len(x) <= Len(s),
           \A i \in 1 .. Len(x) : s[b + i] = x[i]
    PROVE  SubSeq(s, b + 1, b + Len(x)) = x
<1>1. PICK n : n = Len(x)
  OBVIOUS
<1>2. PICK m : m = Len(s)
  OBVIOUS
<1>3. n \in Nat /\ m \in Nat /\ b + n <= m
  BY <1>1, <1>2
<1>4. PICK f, l : f = b + 1 /\ l = b + n
  OBVIOUS
<1>5. f \in 1 .. Len(s) + 1 /\ l \in f - 1 .. Len(s) /\ l - f + 1 = n
  BY <1>2, <1>3, <1>4
<1>6. /\ SubSeq(s, f, l) \in Seq(C) /\ Len(SubSeq(s, f, l)) = n
      /\ \A i \in 1 .. n : SubSeq(s, f, l)[i] = s[f + i - 1]
  BY <1>5, PartOf
<1>7. ASSUME NEW i \in 1 .. n PROVE SubSeq(s, f, l)[i] = x[i]
  <2>1. f + i - 1 = b + i
    BY <1>3, <1>4
  <2>2. QED
    BY <1>1, <1>6, <2>1
<1>8. SubSeq(s, f, l) = x
  BY <1>1, <1>6, <1>7, SeqEqual
<1>9. QED
  BY <1>1, <1>4, <1>8

(* The scan has the fields r, and is at the end of field f.                *)
Scanned(query, scans, d, r, f) ==
    \E a, e, v : /\ scans[d] = QueryAt(a, e, v, r)
                 /\ QueryField(query, QueryAt(a, e, v, r), d + 1) = {f}

(* A field that stands in the query is found, and decoded.                 *)
LEMMA FieldWalk ==
    ASSUME NEW query \in Seq(Int), NEW scans, QueryRun(scans, query),
           NEW b \in Nat, NEW d, NEW name \in Seq(Plain), name # <<>>, NEW value \in Seq(Safe),
           FieldAt(query, b, d, name, value), NEW r, scans[b] = QueryAt(b + 1, 0, 0, r),
           NEW f, f = <<name, Decode(value)>>
    PROVE  Scanned(query, scans, d, r, f)
<1>1. PICK n : n = Len(name)
  OBVIOUS
<1>2. PICK m : m = Len(value)
  OBVIOUS
<1>3. PICK l : l = Len(query)
  OBVIOUS
<1>4. PICK e : e = b + n + 1
  OBVIOUS
<1>5. /\ n \in Nat \ {0} /\ m \in Nat /\ l \in Nat /\ d = e + m /\ d <= l
      /\ e \in 1 .. l /\ b + n <= l /\ e - 1 = b + n /\ e \in Nat /\ e # 0 /\ e + 1 # 0
      /\ d \in Nat /\ d + 1 - 1 = d
  <2>1. n \in Nat /\ m \in Nat /\ l \in Nat /\ n # 0
    BY <1>1, <1>2, <1>3, EmptySeq
  <2>2. d = b + n + 1 + m /\ d <= l
    BY <1>1, <1>2, <1>3 DEF FieldAt
  <2>3. QED
    BY <1>4, <2>1, <2>2
<1>6. /\ \A i \in 1 .. n : query[b + i] = name[i]
      /\ query[e] = Chr.equals
      /\ \A i \in 1 .. m : query[e + i] = value[i]
  BY <1>1, <1>2, <1>4, Zenon DEF FieldAt
<1>7. scans[e - 1] = QueryAt(b + 1, 0, 0, r)
  <2>1. \A i \in 1 .. n : name[i] \in Plain
    BY <1>1
  <2>2. \A i \in 1 .. n : query[b + i] \in Plain
    BY <1>6, <2>1
  <2>3. scans[b + n] = scans[b]
    <3>1. n \in Nat /\ b + n <= Len(query)
      BY <1>3, <1>5
    <3>2. QED
      BY <2>2, <3>1, QuietQuery, Zenon
  <2>4. QED
    BY <1>5, <2>3
<1>8. PICK s : s = QueryAt(b + 1, e, e + 1, r)
  OBVIOUS
<1>9. scans[e] = s
  <2>1. scans[e] = QueryStep(query, scans[e - 1], e)
    BY <1>3, <1>5, Zenon DEF QueryRun
  <2>2. QED
    BY <1>6, <1>7, <1>8, <2>1, QueryAtEquals
<1>10. scans[d] = s
  <2>1. \A i \in 1 .. m : value[i] \in Safe
    BY <1>2
  <2>2. \A x \in Safe : x \in Plain
    BY SafeCharacters DEF Plain
  <2>3. \A i \in 1 .. m : query[e + i] \in Plain
    BY <1>6, <2>1, <2>2
  <2>4. scans[e + m] = scans[e]
    <3>1. e \in Nat /\ m \in Nat /\ e + m <= Len(query)
      BY <1>3, <1>5
    <3>2. QED
      BY <2>3, <3>1, QuietQuery, Zenon
  <2>5. QED
    BY <1>5, <1>9, <2>4
<1>11. SubSeq(query, b + 1, e - 1) = name
  <2>1. name \in Seq(Int)
    <3>1. Plain \subseteq Int
      BY DEF Plain
    <3>2. QED
      BY <3>1, SeqMonotonic
  <2>2. SubSeq(query, b + 1, b + n) = name
    BY <1>1, <1>3, <1>5, <1>6, <2>1, PartIs
  <2>3. QED
    BY <1>5, <2>2
<1>12. SubSeq(query, e + 1, d) = value
  <2>1. value \in Seq(Int)
    BY SafeCharacters, SeqMonotonic
  <2>2. SubSeq(query, e + 1, e + m) = value
    BY <1>2, <1>3, <1>5, <1>6, <2>1, PartIs
  <2>3. QED
    BY <1>5, <2>2
<1>13. QueryField(query, s, d + 1) = {<<name, Decode(value)>>}
  <2>1. s.name_pos = b + 1 /\ s.name_end_pos = e /\ s.value_pos = e + 1
    BY <1>8 DEF QueryAt
  <2>2. PICK c : c = d + 1
    OBVIOUS
  <2>3. SubSeq(query, s.name_pos, (IF s.name_end_pos = 0 THEN c ELSE s.name_end_pos) - 1) = name
    BY <1>5, <1>11, <2>1
  <2>4. (IF s.value_pos = 0 THEN <<>> ELSE SubSeq(query, s.value_pos, c - 1)) = value
    BY <1>5, <1>12, <2>1, <2>2
  <2>5. QueryField(query, s, c) = IF name = <<>> THEN {} ELSE {<<name, Decode(value)>>}
    BY <2>3, <2>4, Zenon DEF QueryField
  <2>6. QED
    BY <2>2, <2>5
<1>14. QED
  BY <1>8, <1>10, <1>13 DEF Scanned

(* A field: its name is not empty and has no separator, its value is any   *)
(* text.                                                                   *)
Field == (Seq(Plain) \ {<<>>}) \X Seq(Octet)

(* What CreateQuery writes for field k.                                    *)
FieldText(fields, k) ==
    (IF k = 1 THEN <<>> ELSE <<Chr.and>>)
    \o fields[k][1] \o <<Chr.equals>> \o Encode(fields[k][2])

(* The separator before field k.                                           *)
Separator(k) == IF k = 1 THEN 0 ELSE 1

(* p is the text of field k: its separator, its name, an equals sign and   *)
(* its value.                                                              *)
IsFieldText(p, k, name, value) ==
    /\ p \in Seq(Int) /\ Len(p) = Separator(k) + Len(name) + 1 + Len(value)
    /\ k # 1 => p[1] = Chr.and
    /\ \A i \in 1 .. Len(name) : p[Separator(k) + i] = name[i]
    /\ p[Separator(k) + Len(name) + 1] = Chr.equals
    /\ \A i \in 1 .. Len(value) : p[Separator(k) + Len(name) + 1 + i] = value[i]

(* The parts, joined, are this text.                                       *)
LEMMA FieldTextIs ==
    ASSUME NEW k, NEW name \in Seq(Int), NEW value \in Seq(Int)
    PROVE  IsFieldText((IF k = 1 THEN <<>> ELSE <<Chr.and>>) \o name \o <<Chr.equals>> \o value,
                       k, name, value)
<1>1. PICK sep : sep = IF k = 1 THEN <<>> ELSE <<Chr.and>>
  OBVIOUS
<1>2. PICK eq : eq = <<Chr.equals>>
  OBVIOUS
<1>3. PICK o : o = Separator(k)
  OBVIOUS
<1>4. PICK n : n = Len(name)
  OBVIOUS
<1>5. PICK m : m = Len(value)
  OBVIOUS
<1>6. PICK a : a = sep \o name
  OBVIOUS
<1>7. PICK b : b = a \o eq
  OBVIOUS
<1>8. PICK p : p = b \o value
  OBVIOUS
<1>9. n \in Nat /\ m \in Nat /\ o \in 0 .. 1
  BY <1>3, <1>4, <1>5 DEF Separator
<1>10. /\ sep \in Seq(Int) /\ Len(sep) = o /\ (k # 1 => sep[1] = Chr.and /\ o = 1)
       /\ eq \in Seq(Int) /\ Len(eq) = 1 /\ eq[1] = Chr.equals
  <2>1. Chr.and \in Int /\ Chr.equals \in Int
    BY ChrValues
  <2>2. CASE k = 1
    BY <1>1, <1>2, <1>3, <2>1, <2>2 DEF Separator
  <2>3. CASE k # 1
    BY <1>1, <1>2, <1>3, <2>1, <2>3 DEF Separator
  <2>4. QED
    BY <2>2, <2>3
<1>11. IsConcat(a, Int, sep, name)
  BY <1>6, <1>10, Concatenated
<1>12. /\ a \in Seq(Int) /\ Len(a) = o + n
       /\ \A i \in 1 .. o : a[i] = sep[i]
       /\ \A i \in 1 .. n : a[o + i] = name[i]
  BY <1>4, <1>10, <1>11, Zenon DEF IsConcat
<1>13. IsConcat(b, Int, a, eq)
  BY <1>7, <1>10, <1>12, Concatenated
<1>14. /\ b \in Seq(Int) /\ Len(b) = o + n + 1
       /\ \A i \in 1 .. o + n : b[i] = a[i]
       /\ \A i \in 1 .. 1 : b[o + n + i] = eq[i]
  BY <1>10, <1>12, <1>13, Zenon DEF IsConcat
<1>15. IsConcat(p, Int, b, value)
  BY <1>8, <1>14, Concatenated
<1>16. /\ p \in Seq(Int) /\ Len(p) = o + n + 1 + m
       /\ \A i \in 1 .. o + n + 1 : p[i] = b[i]
       /\ \A i \in 1 .. m : p[o + n + 1 + i] = value[i]
  BY <1>5, <1>14, <1>15, Zenon DEF IsConcat
<1>17. k # 1 => p[1] = Chr.and
  <2>1. SUFFICES ASSUME k # 1 PROVE p[1] = Chr.and
    OBVIOUS
  <2>2. o = 1 /\ sep[1] = Chr.and
    BY <1>10, <2>1
  <2>3. 1 \in 1 .. o /\ 1 \in 1 .. o + n /\ 1 \in 1 .. o + n + 1
    BY <1>9, <2>2
  <2>4. QED
    BY <1>12, <1>14, <1>16, <2>2, <2>3
<1>18. ASSUME NEW i \in 1 .. n PROVE p[o + i] = name[i]
  <2>1. o + i \in 1 .. o + n /\ o + i \in 1 .. o + n + 1
    BY <1>9
  <2>2. p[o + i] = b[o + i] /\ b[o + i] = a[o + i] /\ a[o + i] = name[i]
    BY <1>12, <1>14, <1>16, <2>1, Zenon
  <2>3. QED
    BY <2>2
<1>19. p[o + n + 1] = Chr.equals
  <2>1. o + n + 1 \in 1 .. o + n + 1 /\ 1 \in 1 .. 1
    BY <1>9
  <2>2. p[o + n + 1] = b[o + n + 1] /\ b[o + n + 1] = eq[1]
    BY <1>14, <1>16, <2>1, Zenon
  <2>3. QED
    BY <1>10, <2>2
<1>20. IsFieldText(p, k, name, value)
  BY <1>3, <1>4, <1>5, <1>16, <1>17, <1>18, <1>19, Zenon DEF IsFieldText
<1>21. QED
  BY <1>1, <1>2, <1>6, <1>7, <1>8, <1>20

(* The texts of all fields.                                                *)
TextsOfFields(fields) == [k \in DOMAIN fields |-> FieldText(fields, k)]

(* CreateQuery joins the texts of the fields.                              *)
LEMMA FieldTextsAre ==
    ASSUME NEW fields \in Seq(Field)
    PROVE  /\ CreateQuery(fields) = FlattenSeq(TextsOfFields(fields))
           /\ TextsOfFields(fields) \in Seq(Seq(Int)) /\ Len(TextsOfFields(fields)) = Len(fields)
           /\ \A k \in 1 .. Len(fields) :
                /\ IsFieldText(TextsOfFields(fields)[k], k, fields[k][1], Encode(fields[k][2]))
                /\ fields[k][1] \in Seq(Plain) /\ fields[k][1] # <<>>
                /\ Encode(fields[k][2]) \in Seq(Safe)
                /\ Decode(Encode(fields[k][2])) = fields[k][2]
                /\ fields[k] = <<fields[k][1], fields[k][2]>>
<1>1. PICK n : n = Len(fields)
  OBVIOUS
<1>2. n \in Nat /\ DOMAIN fields = 1 .. n /\ \A k \in 1 .. n : fields[k] \in Field
  BY <1>1
<1>3. ASSUME NEW k \in 1 .. n
      PROVE  /\ IsFieldText(FieldText(fields, k), k, fields[k][1], Encode(fields[k][2]))
             /\ fields[k][1] \in Seq(Plain) /\ fields[k][1] # <<>>
             /\ Encode(fields[k][2]) \in Seq(Safe)
             /\ Decode(Encode(fields[k][2])) = fields[k][2]
             /\ fields[k] = <<fields[k][1], fields[k][2]>>
  <2>1. /\ fields[k][1] \in Seq(Plain) /\ fields[k][1] # <<>>
        /\ fields[k][2] \in Seq(Octet) /\ fields[k] = <<fields[k][1], fields[k][2]>>
    <3>1. fields[k] \in (Seq(Plain) \ {<<>>}) \X Seq(Octet)
      BY <1>2, Zenon DEF Field
    <3>2. QED
      BY <3>1
  <2>2. Encode(fields[k][2]) \in Seq(Safe) /\ Decode(Encode(fields[k][2])) = fields[k][2]
    BY <2>1, DecodeUndoesEncode
  <2>3. fields[k][1] \in Seq(Int) /\ Encode(fields[k][2]) \in Seq(Int)
    <3>1. Plain \subseteq Int
      BY DEF Plain
    <3>2. QED
      BY <2>1, <2>2, <3>1, SafeCharacters, SeqMonotonic
  <2>4. IsFieldText(FieldText(fields, k), k, fields[k][1], Encode(fields[k][2]))
    BY <2>3, FieldTextIs, Zenon DEF FieldText
  <2>5. QED
    BY <2>1, <2>2, <2>4
<1>4. PICK p : p = TextsOfFields(fields)
  OBVIOUS
<1>5. DOMAIN p = 1 .. n /\ \A k \in 1 .. n : p[k] = FieldText(fields, k)
  BY <1>2, <1>4, Zenon DEF TextsOfFields
<1>6. p \in Seq(Seq(Int)) /\ Len(p) = n
  <2>1. PICK E : E = Seq(Int)
    OBVIOUS
  <2>2. \A k \in 1 .. n : FieldText(fields, k) \in E
    BY <1>3, <2>1 DEF IsFieldText
  <2>3. p = [k \in 1 .. n |-> FieldText(fields, k)]
    BY <1>2, <1>4, Zenon DEF TextsOfFields
  <2>4. p \in [1 .. n -> E]
    BY <2>2, <2>3
  <2>5. p \in Seq(E) /\ Len(p) = n
    BY <1>2, <2>4
  <2>6. QED
    BY <2>1, <2>5
<1>7. CreateQuery(fields) = FlattenSeq(p)
  BY <1>4, Zenon DEF CreateQuery, TextsOfFields, FieldText
<1>8. \A k \in 1 .. n : IsFieldText(p[k], k, fields[k][1], Encode(fields[k][2]))
  BY <1>3, <1>5
<1>9. QED
  BY <1>1, <1>3, <1>4, <1>6, <1>7, <1>8

(* The scan is at the end of field k, and has the fields before it.        *)
ScannedTo(query, scans, at, fields, k) ==
    Scanned(query, scans, at[k], {fields[j] : j \in 1 .. k - 1}, fields[k])

(* Field k stands in the query that CreateQuery returns.                   *)
LEMMA FieldIn ==
    ASSUME NEW fields \in Seq(Field), NEW query, NEW at,
           IsJoined(query, at, Int, TextsOfFields(fields), Len(fields)), NEW k \in 1 .. Len(fields)
    PROVE  /\ at[k - 1] \in Nat /\ at[k] \in Nat /\ at[k] <= Len(query)
           /\ k # 1 => at[k - 1] + 1 \in 1 .. Len(query) /\ query[at[k - 1] + 1] = Chr.and
           /\ FieldAt(query, at[k - 1] + Separator(k), at[k], fields[k][1], Encode(fields[k][2]))
<1>1. PICK n : n = Len(fields)
  OBVIOUS
<1>2. PICK p : p = TextsOfFields(fields)[k]
  OBVIOUS
<1>3. PICK name : name = fields[k][1]
  OBVIOUS
<1>4. PICK value : value = Encode(fields[k][2])
  OBVIOUS
<1>5. PICK b : b = at[k - 1]
  OBVIOUS
<1>6. PICK o : o = Separator(k)
  OBVIOUS
<1>7. IsFieldText(p, k, name, value) /\ name \in Seq(Plain) /\ value \in Seq(Safe)
  BY <1>2, <1>3, <1>4, FieldTextsAre
<1>8. n \in Nat /\ k \in 1 .. n /\ k - 1 \in 0 .. n /\ k \in 0 .. n
  BY <1>1
<1>9. at[k] \in Nat /\ b \in Nat /\ Len(query) = at[n]
  BY <1>1, <1>5, <1>8 DEF IsJoined
<1>10. /\ at[k] = b + Len(p) /\ at[k] <= at[n]
       /\ \A i \in 1 .. Len(p) : query[b + i] = p[i]
  BY <1>1, <1>2, <1>5, <1>8, Zenon DEF IsJoined
<1>11. PICK l, m : l = Len(name) /\ m = Len(value)
  OBVIOUS
<1>12. l \in Nat /\ m \in Nat /\ o \in 0 .. 1 /\ (k # 1 => o = 1)
  BY <1>6, <1>7, <1>11 DEF Separator
<1>13. /\ Len(p) = o + l + 1 + m
       /\ (k # 1 => p[1] = Chr.and)
       /\ \A i \in 1 .. l : p[o + i] = name[i]
       /\ p[o + l + 1] = Chr.equals
       /\ \A i \in 1 .. m : p[o + l + 1 + i] = value[i]
  BY <1>6, <1>7, <1>11, Zenon DEF IsFieldText
<1>14. k # 1 => b + 1 \in 1 .. Len(query) /\ query[b + 1] = Chr.and
  <2>1. 1 \in 1 .. Len(p) /\ b + 1 \in 1 .. at[n]
    BY <1>8, <1>9, <1>10, <1>12, <1>13
  <2>2. QED
    BY <1>9, <1>10, <1>13, <2>1
<1>15. PICK f : f = b + o
  OBVIOUS
<1>16. at[k] = f + l + 1 + m /\ at[k] <= Len(query)
  BY <1>9, <1>10, <1>12, <1>13, <1>15
<1>17. ASSUME NEW i \in 1 .. l PROVE query[f + i] = name[i]
  <2>1. o + i \in 1 .. Len(p) /\ f + i = b + (o + i)
    <3>1. o \in Nat /\ b \in Nat /\ l \in Nat /\ m \in Nat
      BY <1>9, <1>12
    <3>2. Len(p) = o + l + 1 + m
      BY <1>13
    <3>3. QED
      BY <1>15, <3>1, <3>2
  <2>2. QED
    BY <1>10, <1>13, <2>1
<1>18. query[f + l + 1] = Chr.equals
  <2>1. o + l + 1 \in 1 .. Len(p) /\ f + l + 1 = b + (o + l + 1)
    <3>1. o \in Nat /\ b \in Nat /\ l \in Nat /\ m \in Nat
      BY <1>9, <1>12
    <3>2. Len(p) = o + l + 1 + m
      BY <1>13
    <3>3. QED
      BY <1>15, <3>1, <3>2
  <2>2. QED
    BY <1>10, <1>13, <2>1
<1>19. ASSUME NEW i \in 1 .. m PROVE query[f + l + 1 + i] = value[i]
  <2>1. PICK j : j = o + l + 1 + i
    OBVIOUS
  <2>2. j \in 1 .. Len(p) /\ f + l + 1 + i = b + j
    BY <1>9, <1>12, <1>13, <1>15, <2>1
  <2>3. query[b + j] = p[j] /\ p[j] = value[i]
    BY <1>10, <1>13, <2>1, <2>2
  <2>4. QED
    BY <2>2, <2>3
<1>20. FieldAt(query, f, at[k], name, value)
  BY <1>11, <1>16, <1>17, <1>18, <1>19, Zenon DEF FieldAt
<1>21. QED
  BY <1>3, <1>4, <1>5, <1>6, <1>9, <1>14, <1>15, <1>16, <1>20

(* From the end of a field the scan comes to the end of the next.          *)
LEMMA ScannedNext ==
    ASSUME NEW fields \in Seq(Field), NEW query \in Seq(Int), NEW at,
           IsJoined(query, at, Int, TextsOfFields(fields), Len(fields)),
           NEW scans, QueryRun(scans, query), NEW k \in 1 .. Len(fields),
           k # 1 => ScannedTo(query, scans, at, fields, k - 1)
    PROVE  ScannedTo(query, scans, at, fields, k)
<1>1. PICK b : b = at[k - 1] + Separator(k)
  OBVIOUS
<1>2. PICK r : r = {fields[j] : j \in 1 .. k - 1}
  OBVIOUS
<1>3. /\ at[k - 1] \in Nat /\ at[k] \in Nat /\ b \in Nat
      /\ k # 1 => at[k - 1] + 1 \in 1 .. Len(query) /\ query[at[k - 1] + 1] = Chr.and
      /\ FieldAt(query, b, at[k], fields[k][1], Encode(fields[k][2]))
  BY <1>1, FieldIn DEF Separator
<1>4. /\ fields[k][1] \in Seq(Plain) /\ fields[k][1] # <<>>
      /\ Encode(fields[k][2]) \in Seq(Safe)
      /\ <<fields[k][1], Decode(Encode(fields[k][2]))>> = fields[k]
  BY FieldTextsAre
<1>5. scans[b] = QueryAt(b + 1, 0, 0, r)
  <2>1. CASE k = 1
    <3>1. b = 0 /\ r = {}
      <4>1. at[0] = 0
        BY DEF IsJoined
      <4>2. QED
        BY <1>1, <1>2, <2>1, <4>1 DEF Separator
    <3>2. scans[0] = QueryScan
      BY DEF QueryRun
    <3>3. QueryScan = QueryAt(1, 0, 0, {})
      BY DEF QueryScan, QueryAt
    <3>4. QED
      BY <3>1, <3>2, <3>3
  <2>2. CASE k # 1
    <3>1. PICK q, f : q = {fields[j] : j \in 1 .. (k - 1) - 1} /\ f = fields[k - 1]
      OBVIOUS
    <3>2. Scanned(query, scans, at[k - 1], q, f)
      BY <2>2, <3>1, Zenon DEF ScannedTo
    <3>3. PICK a, e, v : /\ scans[at[k - 1]] = QueryAt(a, e, v, q)
                         /\ QueryField(query, QueryAt(a, e, v, q), at[k - 1] + 1) = {f}
      BY <3>2, Zenon DEF Scanned
    <3>4. b = at[k - 1] + 1 /\ b - 1 = at[k - 1] /\ b \in 1 .. Len(query) /\ query[b] = Chr.and
      BY <1>1, <1>3, <2>2 DEF Separator
    <3>5. scans[b] = QueryStep(query, scans[b - 1], b)
      BY <3>4, Zenon DEF QueryRun
    <3>6. scans[b] = QueryStep(query, QueryAt(a, e, v, q), b)
      BY <3>3, <3>4, <3>5
    <3>7. PICK u : u = {f}
      OBVIOUS
    <3>8. u = QueryField(query, QueryAt(a, e, v, q), b)
      BY <3>3, <3>4, <3>7
    <3>9. q \cup u = r
      <4>1. PICK m : m = k - 1
        OBVIOUS
      <4>2. m \in Nat \ {0} /\ 1 .. m = (1 .. m - 1) \cup {m}
        BY <2>2, <4>1
      <4>3. {fields[j] : j \in 1 .. m} = {fields[j] : j \in 1 .. m - 1} \cup {fields[m]}
        BY <4>2, Zenon
      <4>4. QED
        BY <1>2, <3>1, <3>7, <4>1, <4>3
    <3>10. QueryStep(query, QueryAt(a, e, v, q), b) = QueryAt(b + 1, 0, 0, r)
      <4>1. query[b] = Chr.and /\ r = q \cup u
        BY <3>4, <3>9
      <4>2. QED
        BY <3>8, <4>1, QueryAtAnd
    <3>11. QED
      BY <3>6, <3>10
  <2>3. QED
    BY <2>1, <2>2
<1>6. PICK name, value, d : name = fields[k][1] /\ value = Encode(fields[k][2]) /\ d = at[k]
  OBVIOUS
<1>7. /\ FieldAt(query, b, d, name, value) /\ <<name, Decode(value)>> = fields[k]
      /\ name \in Seq(Plain) /\ name # <<>> /\ value \in Seq(Safe)
  BY <1>3, <1>4, <1>6
<1>8. PICK f : f = fields[k]
  OBVIOUS
<1>9. Scanned(query, scans, d, r, f)
  <2>1. b \in Nat
    BY <1>3
  <2>2. QED
    BY <1>5, <1>7, <1>8, <2>1, FieldWalk
<1>10. QED
  BY <1>2, <1>6, <1>8, <1>9, Zenon DEF ScannedTo

(* parse returns the fields that create was given, however many they are   *)
(* and whatever their values.                                              *)
LEMMA QueryKept ==
    ASSUME NEW fields \in Seq(Field)
    PROVE  ParseQuery(CreateQuery(fields)) = ToSet(fields)
<1>1. PICK n : n = Len(fields)
  OBVIOUS
<1>2. PICK query : query = CreateQuery(fields)
  OBVIOUS
<1>3. n \in Nat /\ DOMAIN fields = 1 .. n
  BY <1>1
<1>4. PICK at : IsJoined(query, at, Int, TextsOfFields(fields), n)
  <2>1. PICK texts : texts = TextsOfFields(fields)
    OBVIOUS
  <2>2. texts \in Seq(Seq(Int)) /\ Len(texts) = n /\ query = FlattenSeq(texts)
    BY <1>1, <1>2, <2>1, FieldTextsAre
  <2>3. \E at : IsJoined(FlattenSeq(texts), at, Int, texts, Len(texts))
    BY <2>2, Joined
  <2>4. QED
    BY <2>1, <2>2, <2>3
<1>5. query \in Seq(Int) /\ Len(query) = at[n] /\ at[0] = 0
  BY <1>4 DEF IsJoined
<1>6. PICK scans : QueryRun(scans, query) /\ QueryEnd(query) = scans[Len(query)]
  <2>1. Len(query) \in Nat /\ DOMAIN query = 1 .. Len(query)
    BY <1>5
  <2>2. QED
    BY <2>1, QuerySteps
<1>7. CASE n = 0
  <2>1. query = <<>> /\ Len(query) = 0
    BY <1>5, <1>7, EmptySeq
  <2>2. QueryEnd(query) = QueryScan
    BY <1>6, <2>1 DEF QueryRun
  <2>3. QueryEnd(query).result = {} /\ QueryEnd(query).name_pos = 1
        /\ QueryEnd(query).name_end_pos = 0
    BY <2>2 DEF QueryScan
  <2>4. SubSeq(query, 1, 1 - 1) = <<>>
    BY <1>5, SubSeqEmpty
  <2>5. PICK c : c = Len(query) + 1
    OBVIOUS
  <2>6. SubSeq(query, QueryEnd(query).name_pos,
               (IF QueryEnd(query).name_end_pos = 0 THEN c ELSE QueryEnd(query).name_end_pos) - 1)
          = <<>>
    BY <2>1, <2>3, <2>4, <2>5
  <2>7. QueryField(query, QueryEnd(query), c) = {}
    BY <2>6, Zenon DEF QueryField
  <2>8. ParseQuery(query) = {}
    BY <2>3, <2>5, <2>7, ParsedQuery
  <2>9. ToSet(fields) = {}
    BY <1>3, <1>7 DEF ToSet
  <2>10. QED
    BY <1>2, <2>8, <2>9
<1>8. CASE n # 0
  <2> DEFINE S == {k \in Nat : k # 0 /\ k <= n => ScannedTo(query, scans, at, fields, k)}
  <2>1. 0 \in S
    OBVIOUS
  <2>2. ASSUME NEW m \in Nat, m \in S PROVE m + 1 \in S
    <3>1. SUFFICES ASSUME m + 1 <= n PROVE ScannedTo(query, scans, at, fields, m + 1)
      OBVIOUS
    <3>2. PICK k : k = m + 1
      OBVIOUS
    <3>3. k \in 1 .. n /\ k - 1 = m /\ m <= n /\ (k # 1 => m # 0)
      BY <1>3, <3>1, <3>2
    <3>4. k # 1 => ScannedTo(query, scans, at, fields, k - 1)
      BY <2>2, <3>3
    <3>5. ScannedTo(query, scans, at, fields, k)
      BY <1>1, <1>4, <1>5, <1>6, <3>3, <3>4, ScannedNext
    <3>6. QED
      BY <3>2, <3>5
  <2> HIDE DEF S
  <2>3. n \in S
    BY <1>3, <2>1, <2>2, NatSetInduction
  <2>4. ScannedTo(query, scans, at, fields, n)
    BY <1>3, <1>8, <2>3 DEF S
  <2>5. PICK r : r = {fields[j] : j \in 1 .. n - 1}
    OBVIOUS
  <2>6. PICK a, e, v : /\ scans[at[n]] = QueryAt(a, e, v, r)
                       /\ QueryField(query, QueryAt(a, e, v, r), at[n] + 1) = {fields[n]}
    BY <2>4, <2>5, Zenon DEF ScannedTo, Scanned
  <2>7. QueryEnd(query) = QueryAt(a, e, v, r)
    BY <1>5, <1>6, <2>6
  <2>8. QueryField(query, QueryEnd(query), Len(query) + 1) = {fields[n]}
    BY <1>5, <2>6, <2>7
  <2>9. QueryEnd(query).result = r
    BY <2>7 DEF QueryAt
  <2>10. ParseQuery(query) = r \cup {fields[n]}
    BY <2>8, <2>9, ParsedQuery
  <2>11. ToSet(fields) = r \cup {fields[n]}
    <3>1. 1 .. n = (1 .. n - 1) \cup {n}
      BY <1>3, <1>8
    <3>2. ToSet(fields) = {fields[j] : j \in 1 .. n}
      BY <1>3, Zenon DEF ToSet
    <3>3. QED
      BY <2>5, <3>1, <3>2, Zenon
  <2>12. QED
    BY <1>2, <2>10, <2>11
<1>9. QED
  BY <1>7, <1>8

-----------------------------------------------------------------------------
(* SemicolonSeparatedAttributes::parse: its steps, and what they lead to.  *)

(* A scan with these positions and these attributes.                       *)
ScanAt(a, e, v, r) ==
    [name_start_pos |-> a, name_end_pos |-> e, value_start_pos |-> v, result |-> r]

(* The scan after the last character.                                      *)
AttributesEnd(str) ==
    FoldLeftDomain(LAMBDA scan, c : ScanAttribute(str, scan, c), AttributeScan, str)

(* ParseAttributes returns its attributes, if it is in none.               *)
LEMMA ParsedAttributes ==
    ASSUME NEW str, NEW r, AttributesEnd(str) = ScanAt(0, 0, 0, r)
    PROVE  ParseAttributes(str) = r
<1>1. PICK last : last = AttributesEnd(str)
  OBVIOUS
<1>2. PICK rest : rest =
        CASE last.name_start_pos = 0 -> {}
          [] last.name_start_pos # 0 /\ last.name_end_pos = 0 ->
                Attribute(str, last, Len(str) + 1, <<>>)
          [] last.value_start_pos # 0 ->
                Attribute(str, last, last.name_end_pos, After(str, last.value_start_pos - 1))
          [] OTHER -> {}
  OBVIOUS
<1>3. ParseAttributes(str) = last.result \cup rest
  BY <1>1, <1>2, Zenon DEF ParseAttributes, AttributesEnd
<1>4. last.name_start_pos = 0 /\ last.name_end_pos = 0 /\ last.value_start_pos = 0
      /\ last.result = r
  BY <1>1 DEF ScanAt
<1>5. rest = {}
  BY <1>2, <1>4
<1>6. QED
  BY <1>3, <1>4, <1>5

(* The attribute with its name from a to e - 1.                            *)
AttributeOf(str, a, e, value) == <<SubSeq(str, a, e - 1), Decode(value)>>

(* What Attribute returns.                                                 *)
LEMMA AttributeIs ==
    ASSUME NEW str, NEW a, NEW e, NEW v, NEW r, NEW end, NEW value
    PROVE  Attribute(str, ScanAt(a, e, v, r), end, value) = {AttributeOf(str, a, end, value)}
BY DEF Attribute, ScanAt, AttributeOf

(* The scan after an attribute.                                            *)
LEMMA ScanEnds ==
    ASSUME NEW q
    PROVE  [AttributeScan EXCEPT !.result = q] = ScanAt(0, 0, 0, q)
BY DEF AttributeScan, ScanAt

(* A separator before a name.                                              *)
LEMMA ScanIdle ==
    ASSUME NEW str, NEW c, str[c] \in {Chr.space, Chr.semicolon}, NEW r
    PROVE  ScanAttribute(str, ScanAt(0, 0, 0, r), c) = ScanAt(0, 0, 0, r)
<1>1. PICK s : s = ScanAt(0, 0, 0, r)
  OBVIOUS
<1>2. s.name_start_pos = 0 /\ s.name_end_pos = 0
  BY <1>1 DEF ScanAt
<1>3. ScanAttribute(str, s, c) = s
  BY <1>2 DEF ScanAttribute
<1>4. QED
  BY <1>1, <1>3

(* The first character of a name.                                          *)
LEMMA ScanName ==
    ASSUME NEW str, NEW c, str[c] \notin {Chr.space, Chr.semicolon}, NEW r
    PROVE  ScanAttribute(str, ScanAt(0, 0, 0, r), c) = ScanAt(c, 0, 0, r)
<1>1. PICK s : s = ScanAt(0, 0, 0, r)
  OBVIOUS
<1>2. s.name_start_pos = 0 /\ s.name_end_pos = 0
  BY <1>1 DEF ScanAt
<1>3. ScanAttribute(str, s, c) = [s EXCEPT !.name_start_pos = c]
  BY <1>2 DEF ScanAttribute
<1>4. PICK t : t = ScanAt(c, 0, 0, r)
  OBVIOUS
<1>5. [s EXCEPT !.name_start_pos = c] = t
  BY <1>1, <1>4 DEF ScanAt
<1>6. QED
  BY <1>1, <1>3, <1>4, <1>5

(* The end of an attribute without a value.                                *)
LEMMA ScanBare ==
    ASSUME NEW str, NEW c, str[c] = Chr.semicolon, NEW a, a # 0, NEW r,
           NEW q, q = r \cup {AttributeOf(str, a, c, <<>>)}
    PROVE  ScanAttribute(str, ScanAt(a, 0, 0, r), c) = ScanAt(0, 0, 0, q)
<1>1. PICK s : s = ScanAt(a, 0, 0, r)
  OBVIOUS
<1>2. s.name_start_pos = a /\ s.name_end_pos = 0 /\ s.result = r
  BY <1>1 DEF ScanAt
<1>3. ScanAttribute(str, s, c)
        = [AttributeScan EXCEPT !.result = s.result \cup Attribute(str, s, c, <<>>)]
  BY <1>2 DEF ScanAttribute
<1>4. s.result \cup Attribute(str, s, c, <<>>) = q
  BY <1>1, <1>2, AttributeIs
<1>5. QED
  BY <1>1, <1>3, <1>4, ScanEnds

(* The end of a name.                                                      *)
LEMMA ScanEquals ==
    ASSUME NEW str, NEW c, str[c] = Chr.equals, NEW a, a # 0, NEW r
    PROVE  ScanAttribute(str, ScanAt(a, 0, 0, r), c) = ScanAt(a, c, 0, r)
<1>1. PICK s : s = ScanAt(a, 0, 0, r)
  OBVIOUS
<1>2. s.name_start_pos = a /\ s.name_end_pos = 0
  BY <1>1 DEF ScanAt
<1>3. str[c] # Chr.semicolon
  BY ChrValues
<1>4. ScanAttribute(str, s, c) = [s EXCEPT !.name_end_pos = c]
  BY <1>2, <1>3 DEF ScanAttribute
<1>5. PICK t : t = ScanAt(a, c, 0, r)
  OBVIOUS
<1>6. [s EXCEPT !.name_end_pos = c] = t
  BY <1>1, <1>5 DEF ScanAt
<1>7. QED
  BY <1>1, <1>4, <1>5, <1>6

(* The first character of a value.                                         *)
LEMMA ScanValue ==
    ASSUME NEW str, NEW c, NEW a, a # 0, NEW e, e # 0, NEW r
    PROVE  ScanAttribute(str, ScanAt(a, e, 0, r), c) = ScanAt(a, e, ValueStart(str, c), r)
<1>1. PICK s : s = ScanAt(a, e, 0, r)
  OBVIOUS
<1>2. s.name_start_pos = a /\ s.name_end_pos = e /\ s.value_start_pos = 0
  BY <1>1 DEF ScanAt
<1>3. PICK v : v = ValueStart(str, c)
  OBVIOUS
<1>4. ScanAttribute(str, s, c) = [s EXCEPT !.value_start_pos = v]
  BY <1>2, <1>3 DEF ScanAttribute
<1>5. PICK t : t = ScanAt(a, e, v, r)
  OBVIOUS
<1>6. [s EXCEPT !.value_start_pos = v] = t
  BY <1>1, <1>5 DEF ScanAt
<1>7. QED
  BY <1>1, <1>3, <1>4, <1>5, <1>6

(* A character in a value.                                                 *)
LEMMA ScanInValue ==
    ASSUME NEW str, NEW c, str[c] \notin {Chr.quote, Chr.semicolon},
           NEW a, a # 0, NEW e, e # 0, NEW v, v # 0, NEW r
    PROVE  ScanAttribute(str, ScanAt(a, e, v, r), c) = ScanAt(a, e, v, r)
<1>1. PICK s : s = ScanAt(a, e, v, r)
  OBVIOUS
<1>2. s.name_start_pos = a /\ s.name_end_pos = e /\ s.value_start_pos = v
  BY <1>1 DEF ScanAt
<1>3. ScanAttribute(str, s, c) = s
  BY <1>2 DEF ScanAttribute
<1>4. QED
  BY <1>1, <1>3

(* A value from v on ends before character c; q has its attribute, too.    *)
ValueEnds(str, c, a, e, v, r, q) ==
    /\ str[c] \in {Chr.quote, Chr.semicolon} /\ a # 0 /\ e # 0 /\ v # 0
    /\ q = r \cup {AttributeOf(str, a, e, SubSeq(str, v, c - 1))}

(* The end of a value.                                                     *)
LEMMA ScanValueEnd ==
    ASSUME NEW str, NEW c, NEW a, NEW e, NEW v, NEW r, NEW q, ValueEnds(str, c, a, e, v, r, q)
    PROVE  ScanAttribute(str, ScanAt(a, e, v, r), c) = ScanAt(0, 0, 0, q)
<1>1. PICK s : s = ScanAt(a, e, v, r)
  OBVIOUS
<1>2. PICK x : x = SubSeq(str, v, c - 1)
  OBVIOUS
<1>3. /\ str[c] \in {Chr.quote, Chr.semicolon} /\ a # 0 /\ e # 0 /\ v # 0
      /\ q = r \cup {AttributeOf(str, a, e, x)}
  BY <1>2, Zenon DEF ValueEnds
<1>4. s.name_start_pos = a /\ s.name_end_pos = e /\ s.value_start_pos = v /\ s.result = r
  BY <1>1 DEF ScanAt
<1>5. ScanAttribute(str, s, c)
        = [AttributeScan EXCEPT !.result = s.result \cup Attribute(str, s, e, x)]
  BY <1>2, <1>3, <1>4 DEF ScanAttribute
<1>6. s.result \cup Attribute(str, s, e, x) = q
  BY <1>1, <1>3, <1>4, AttributeIs
<1>7. QED
  BY <1>1, <1>5, <1>6, ScanEnds

(* A character in a name.                                                  *)
LEMMA ScanInName ==
    ASSUME NEW str, NEW c, str[c] \notin {Chr.semicolon, Chr.equals}, NEW a, a # 0, NEW r
    PROVE  ScanAttribute(str, ScanAt(a, 0, 0, r), c) = ScanAt(a, 0, 0, r)
<1>1. PICK s : s = ScanAt(a, 0, 0, r)
  OBVIOUS
<1>2. s.name_start_pos = a /\ s.name_end_pos = 0
  BY <1>1 DEF ScanAt
<1>3. ScanAttribute(str, s, c) = s
  BY <1>2 DEF ScanAttribute
<1>4. QED
  BY <1>1, <1>3

(* The values there may be in str.                                         *)
ValuesIn(str) == {<<>>} \cup {SubSeq(str, p[1], p[2] - 1) : p \in Nat \X Nat}

(* The attributes there may be.                                            *)
AttributesIn(str) == {AttributeOf(str, p[1], p[2], p[3]) : p \in Nat \X Nat \X ValuesIn(str)}

(* The scans there are: a name ends after it starts, a value starts after  *)
(* that.                                                                   *)
IsScan(str, a, e, v, r) ==
    /\ a \in Nat /\ e \in Nat /\ v \in Nat /\ r \in SUBSET AttributesIn(str)
    /\ a = 0 => e = 0
    /\ e = 0 => v = 0

(* All of them.                                                            *)
AttributeScans(str) ==
    {ScanAt(p[1], p[2], p[3], p[4]) :
        p \in {q \in Nat \X Nat \X Nat \X SUBSET AttributesIn(str) : IsScan(str, q[1], q[2], q[3], q[4])}}

(* They are what IsScan says.                                              *)
LEMMA ScansAre ==
    ASSUME NEW str
    PROVE  /\ \A a, e, v, r : IsScan(str, a, e, v, r) => ScanAt(a, e, v, r) \in AttributeScans(str)
           /\ \A s \in AttributeScans(str) :
                 \E a, e, v, r : IsScan(str, a, e, v, r) /\ s = ScanAt(a, e, v, r)
<1> DEFINE P == {q \in Nat \X Nat \X Nat \X SUBSET AttributesIn(str) : IsScan(str, q[1], q[2], q[3], q[4])}
<1>1. ASSUME NEW a, NEW e, NEW v, NEW r, IsScan(str, a, e, v, r)
      PROVE  ScanAt(a, e, v, r) \in AttributeScans(str)
  <2>1. PICK q : q = <<a, e, v, r>>
    OBVIOUS
  <2>2. q \in Nat \X Nat \X Nat \X SUBSET AttributesIn(str)
        /\ q[1] = a /\ q[2] = e /\ q[3] = v /\ q[4] = r
    BY <1>1, <2>1 DEF IsScan
  <2>3. q \in P
    BY <1>1, <2>2
  <2>4. ScanAt(q[1], q[2], q[3], q[4]) \in AttributeScans(str)
    BY <2>3, Zenon DEF AttributeScans
  <2>5. QED
    BY <2>2, <2>4
<1>2. ASSUME NEW s \in AttributeScans(str)
      PROVE  \E a, e, v, r : IsScan(str, a, e, v, r) /\ s = ScanAt(a, e, v, r)
  <2>1. PICK q \in P : s = ScanAt(q[1], q[2], q[3], q[4])
    BY Zenon DEF AttributeScans
  <2>2. IsScan(str, q[1], q[2], q[3], q[4])
    BY Zenon
  <2>3. QED
    BY <2>1, <2>2
<1>3. QED
  BY <1>1, <1>2

(* An attribute of str is added to others.                                 *)
LEMMA AttributeOfIn ==
    ASSUME NEW str, NEW a \in Nat, NEW e \in Nat, NEW x \in ValuesIn(str),
           NEW r \in SUBSET AttributesIn(str)
    PROVE  r \cup {AttributeOf(str, a, e, x)} \in SUBSET AttributesIn(str)
<1>1. PICK p : p = <<a, e, x>>
  OBVIOUS
<1>2. p \in Nat \X Nat \X ValuesIn(str) /\ p[1] = a /\ p[2] = e /\ p[3] = x
  BY <1>1
<1>3. AttributeOf(str, p[1], p[2], p[3]) \in AttributesIn(str)
  BY <1>2, Zenon DEF AttributesIn
<1>4. QED
  BY <1>2, <1>3

(* A step leads from a scan to a scan.                                     *)
LEMMA ScanAttributeType ==
    ASSUME NEW str, NEW scan \in AttributeScans(str), NEW c \in Nat \ {0}
    PROVE  ScanAttribute(str, scan, c) \in AttributeScans(str)
<1>1. PICK a, e, v, r : IsScan(str, a, e, v, r) /\ scan = ScanAt(a, e, v, r)
  BY ScansAre
<1>2. /\ a \in Nat /\ e \in Nat /\ v \in Nat /\ r \in SUBSET AttributesIn(str)
      /\ a = 0 => e = 0
      /\ e = 0 => v = 0
  BY <1>1 DEF IsScan
<1>3. ASSUME NEW q \in SUBSET AttributesIn(str) PROVE ScanAt(0, 0, 0, q) \in AttributeScans(str)
  <2>1. IsScan(str, 0, 0, 0, q)
    BY DEF IsScan
  <2>2. QED
    BY <2>1, ScansAre
<1>4. CASE a = 0
  <2>1. scan = ScanAt(0, 0, 0, r)
    BY <1>1, <1>2, <1>4
  <2>2. CASE str[c] \in {Chr.space, Chr.semicolon}
    BY <2>1, <2>2, ScanIdle
  <2>3. CASE str[c] \notin {Chr.space, Chr.semicolon}
    <3>1. IsScan(str, c, 0, 0, r)
      BY <1>2 DEF IsScan
    <3>2. ScanAt(c, 0, 0, r) \in AttributeScans(str)
      BY <3>1, ScansAre
    <3>3. QED
      BY <2>1, <2>3, <3>2, ScanName
  <2>4. QED
    BY <2>2, <2>3
<1>5. CASE a # 0 /\ e = 0
  <2>1. scan = ScanAt(a, 0, 0, r)
    BY <1>1, <1>2, <1>5
  <2>2. CASE str[c] = Chr.semicolon
    <3>1. PICK q : q = r \cup {AttributeOf(str, a, c, <<>>)}
      OBVIOUS
    <3>2. <<>> \in ValuesIn(str)
      BY Zenon DEF ValuesIn
    <3>3. q \in SUBSET AttributesIn(str)
      BY <1>2, <3>1, <3>2, AttributeOfIn
    <3>4. ScanAttribute(str, ScanAt(a, 0, 0, r), c) = ScanAt(0, 0, 0, q)
      BY <1>5, <2>2, <3>1, ScanBare
    <3>5. QED
      BY <1>3, <2>1, <3>3, <3>4
  <2>3. CASE str[c] = Chr.equals
    <3>1. IsScan(str, a, c, 0, r)
      BY <1>2, <1>5 DEF IsScan
    <3>2. ScanAt(a, c, 0, r) \in AttributeScans(str)
      BY <3>1, ScansAre
    <3>3. QED
      BY <1>5, <2>1, <2>3, <3>2, ScanEquals
  <2>4. CASE str[c] \notin {Chr.semicolon, Chr.equals}
    BY <1>5, <2>1, <2>4, ScanInName
  <2>5. QED
    BY <2>2, <2>3, <2>4
<1>6. CASE a # 0 /\ e # 0 /\ v = 0
  <2>1. scan = ScanAt(a, e, 0, r)
    BY <1>1, <1>6
  <2>2. PICK w : w = ValueStart(str, c)
    OBVIOUS
  <2>3. w \in Nat
    BY <2>2 DEF ValueStart
  <2>4. IsScan(str, a, e, w, r)
    BY <1>2, <1>6, <2>3 DEF IsScan
  <2>5. ScanAt(a, e, w, r) \in AttributeScans(str)
    BY <2>4, ScansAre
  <2>6. QED
    BY <1>6, <2>1, <2>2, <2>5, ScanValue
<1>7. CASE a # 0 /\ e # 0 /\ v # 0
  <2>1. CASE str[c] \in {Chr.quote, Chr.semicolon}
    <3>1. PICK x : x = SubSeq(str, v, c - 1)
      OBVIOUS
    <3>2. PICK q : q = r \cup {AttributeOf(str, a, e, x)}
      OBVIOUS
    <3>3. x \in ValuesIn(str)
      <4>1. PICK p : p = <<v, c>>
        OBVIOUS
      <4>2. p \in Nat \X Nat /\ p[1] = v /\ p[2] = c
        BY <1>2, <4>1
      <4>3. SubSeq(str, p[1], p[2] - 1) \in ValuesIn(str)
        BY <4>2, Zenon DEF ValuesIn
      <4>4. QED
        BY <3>1, <4>2, <4>3
    <3>4. q \in SUBSET AttributesIn(str)
      BY <1>2, <3>2, <3>3, AttributeOfIn
    <3>5. ScanAttribute(str, ScanAt(a, e, v, r), c) = ScanAt(0, 0, 0, q)
      <4>1. ValueEnds(str, c, a, e, v, r, q)
        BY <1>7, <2>1, <3>1, <3>2, Zenon DEF ValueEnds
      <4>2. QED
        BY <4>1, ScanValueEnd
    <3>6. QED
      BY <1>1, <1>3, <3>4, <3>5
  <2>2. CASE str[c] \notin {Chr.quote, Chr.semicolon}
    BY <1>1, <1>7, <2>2, ScanInValue
  <2>3. QED
    BY <2>1, <2>2
<1>8. QED
  BY <1>2, <1>4, <1>5, <1>6, <1>7

(* scans is the scan after each character of str.                          *)
AttributesRun(scans, str) ==
    /\ scans \in [0 .. Len(str) -> AttributeScans(str)]
    /\ scans[0] = AttributeScan
    /\ \A k \in 1 .. Len(str) : scans[k] = ScanAttribute(str, scans[k - 1], k)

(* The last scan, unfolded.                                                *)
LEMMA AttributesAreAFold ==
    ASSUME NEW str
    PROVE  AttributesEnd(str) =
             (CHOOSE iter : iter = [t \in SUBSET DOMAIN Places(str) |->
                IF t = {} THEN AttributeScan
                ELSE ScanAttribute(str, iter[t \ {Max(t)}], Places(str)[Max(t)])])[DOMAIN Places(str)]
BY Zenon DEF AttributesEnd, FoldLeftDomain, FoldLeft, MapThenFoldSet, Places

(* The last scan is what the steps lead to.                                *)
LEMMA AttributesSteps ==
    ASSUME NEW str, Len(str) \in Nat, DOMAIN str = 1 .. Len(str)
    PROVE  \E scans : AttributesRun(scans, str) /\ AttributesEnd(str) = scans[Len(str)]
<1> DEFINE n == Len(str)
           A == AttributeScans(str)
           F == [p \in (1 .. n) \X A |-> ScanAttribute(str, p[2], p[1])]
<1>1. n \in Nat /\ DOMAIN str = 1 .. n
  OBVIOUS
<1>2. AttributeScan \in A
  <2>1. IsScan(str, 0, 0, 0, {}) /\ AttributeScan = ScanAt(0, 0, 0, {})
    BY DEF IsScan, AttributeScan, ScanAt
  <2>2. QED
    BY <2>1, ScansAre
<1>3. \A k \in 1 .. n, a \in A : ScanAttribute(str, a, k) \in A
  BY ScanAttributeType
<1> HIDE DEF n, A
<1>4. \A k \in 1 .. n, a \in A : F[<<k, a>>] = ScanAttribute(str, a, k)
  OBVIOUS
<1> HIDE DEF F
<1>5. StaysIn(F, n, A)
  BY <1>3, <1>4 DEF StaysIn
<1>6. PICK g \in [SUBSET (1 .. n) -> A] : Folds(g, F, AttributeScan, n)
  BY <1>1, <1>2, <1>5, FoldExists
<1>7. DOMAIN Places(str) = 1 .. n /\ \A i \in 1 .. n : Places(str)[i] = i
  BY <1>1, Zenon DEF Places
<1> DEFINE Rec(f) == f = [t \in SUBSET DOMAIN Places(str) |->
                IF t = {} THEN AttributeScan
                ELSE ScanAttribute(str, f[t \ {Max(t)}], Places(str)[Max(t)])]
<1>8. Rec(g)
  <2>1. ASSUME NEW t \in SUBSET (1 .. n)
        PROVE  g[t] = IF t = {} THEN AttributeScan
                      ELSE ScanAttribute(str, g[t \ {Max(t)}], Places(str)[Max(t)])
    <3>1. CASE t = {}
      BY <1>6, <3>1, Zenon DEF Folds
    <3>2. CASE t # {}
      <4>1. Max(t) \in 1 .. n
        BY <1>1, <3>2, MaxOfSome
      <4>2. g[t \ {Max(t)}] \in A
        BY <1>6
      <4>3. g[t] = F[<<Max(t), g[t \ {Max(t)}]>>]
        BY <1>6, <3>2, Zenon DEF Folds
      <4>4. QED
        BY <1>4, <1>7, <3>2, <4>1, <4>2, <4>3, Zenon
    <3>3. QED
      BY <3>1, <3>2
  <2>2. QED
    BY <1>6, <1>7, <2>1, Zenon
<1>9. PICK h : Rec(h) /\ AttributesEnd(str) = h[1 .. n]
  <2>1. AttributesEnd(str) = (CHOOSE f : Rec(f))[DOMAIN Places(str)]
    BY AttributesAreAFold, Zenon
  <2> HIDE DEF Rec
  <2>2. Rec(CHOOSE f : Rec(f))
    BY <1>8, Zenon
  <2>3. QED
    BY <2>1, <2>2, <1>7
<1>10. IsFold(h, F, AttributeScan, n, A)
  <2>1. h[{}] = AttributeScan
    BY <1>9, Zenon
  <2>2. ASSUME NEW t \in SUBSET (1 .. n), t # {}, h[t \ {Max(t)}] \in A
        PROVE  h[t] = F[<<Max(t), h[t \ {Max(t)}]>>]
    <3>1. Max(t) \in 1 .. n
      BY <1>1, <2>2, MaxOfSome
    <3>2. h[t] = ScanAttribute(str, h[t \ {Max(t)}], Max(t))
      BY <1>7, <1>9, <2>2, <3>1, Zenon
    <3>3. QED
      BY <1>4, <2>2, <3>1, <3>2, Zenon
  <2>3. QED
    BY <2>1, <2>2 DEF IsFold
<1>11. PICK scans \in [0 .. n -> A] : Steps(scans, F, AttributeScan, n) /\ scans[n] = h[1 .. n]
  BY <1>1, <1>2, <1>5, <1>10, FoldSteps
<1>12. ASSUME NEW k \in 1 .. n PROVE scans[k] = ScanAttribute(str, scans[k - 1], k)
  <2>1. k - 1 \in 0 .. n
    BY <1>1
  <2>2. scans[k - 1] \in A
    BY <1>11, <2>1
  <2>3. QED
    BY <1>4, <1>11, <2>2 DEF Steps
<1>13. AttributesRun(scans, str)
  BY <1>11, <1>12 DEF A, n, Steps, AttributesRun
<1>14. QED
  BY <1>9, <1>11, <1>13 DEF n

-----------------------------------------------------------------------------
(* An attribute: what the scan does from its name to the end of its value. *)

(* m characters after c belong to a value that started before.             *)
ValueGoesOn(str, c, m, a, e, v) ==
    /\ c \in Nat /\ m \in Nat /\ c + m <= Len(str) /\ a # 0 /\ e # 0 /\ v # 0
    /\ \A i \in 1 .. m : str[c + i] \in Safe

(* They leave the scan as it is.                                           *)
LEMMA QuietValue ==
    ASSUME NEW str \in Seq(Int), NEW scans, AttributesRun(scans, str),
           NEW c, NEW m, NEW a, NEW e, NEW v, ValueGoesOn(str, c, m, a, e, v),
           NEW r, scans[c] = ScanAt(a, e, v, r)
    PROVE  scans[c + m] = ScanAt(a, e, v, r)
<1>1. PICK n : n = Len(str)
  OBVIOUS
<1>2. /\ n \in Nat /\ c + m <= n /\ c \in Nat /\ m \in Nat /\ a # 0 /\ e # 0 /\ v # 0
      /\ \A i \in 1 .. m : str[c + i] \in Safe
  BY <1>1 DEF ValueGoesOn
<1> DEFINE S == {k \in Nat : k <= m => scans[c + k] = ScanAt(a, e, v, r)}
<1>3. 0 \in S
  BY <1>2
<1>4. ASSUME NEW k \in Nat, k \in S PROVE k + 1 \in S
  <2>1. SUFFICES ASSUME k + 1 <= m PROVE scans[c + (k + 1)] = ScanAt(a, e, v, r)
    OBVIOUS
  <2>2. PICK j : j = c + (k + 1)
    OBVIOUS
  <2>3. j \in 1 .. n /\ j - 1 = c + k /\ k <= m /\ k + 1 \in 1 .. m
    BY <1>2, <2>1, <2>2
  <2>4. scans[j - 1] = ScanAt(a, e, v, r)
    BY <1>4, <2>3
  <2>5. str[j] \in Safe
    BY <1>2, <2>2, <2>3
  <2>6. str[j] \notin {Chr.quote, Chr.semicolon}
    BY <2>5, SafeCharacters
  <2>7. scans[j] = ScanAttribute(str, scans[j - 1], j)
    BY <1>1, <2>3, Zenon DEF AttributesRun
  <2>8. ScanAttribute(str, ScanAt(a, e, v, r), j) = ScanAt(a, e, v, r)
    BY <1>2, <2>6, ScanInValue
  <2>9. QED
    BY <2>2, <2>4, <2>7, <2>8
<1> HIDE DEF S
<1>5. m \in S
  BY <1>2, <1>3, <1>4, NatSetInduction
<1>6. QED
  BY <1>2, <1>5 DEF S

(* x stands in str from b + 1 on.                                          *)
Stands(str, b, x) ==
    /\ b + Len(x) <= Len(str)
    /\ \A i \in 1 .. Len(x) : str[b + i] = x[i]

(* The characters a name may have.                                         *)
Letter == Int \ {Chr.space, Chr.semicolon, Chr.equals}

(* What stands before a value: its name is the one character x.            *)
NameText(x) == <<Chr.semicolon, Chr.space, x, Chr.equals>>

(* The name is found.                                                      *)
LEMMA NameWalk ==
    ASSUME NEW str \in Seq(Int), NEW scans, AttributesRun(scans, str), NEW b \in Nat,
           NEW x \in Letter, Stands(str, b, NameText(x)),
           NEW r, scans[b + 1] = ScanAt(0, 0, 0, r)
    PROVE  /\ scans[b + 4] = ScanAt(b + 3, b + 4, 0, r)
           /\ SubSeq(str, b + 3, b + 3) = <<x>>
           /\ b + 4 <= Len(str)
<1>1. PICK n : n = Len(str)
  OBVIOUS
<1>2. PICK w : w = NameText(x)
  OBVIOUS
<1>3. n \in Nat /\ Len(w) = 4 /\ w[2] = Chr.space /\ w[3] = x /\ w[4] = Chr.equals
      /\ x \in Int /\ x \notin {Chr.space, Chr.semicolon, Chr.equals}
  BY <1>1, <1>2 DEF NameText, Letter
<1>4. b + 4 <= n /\ \A i \in 1 .. 4 : str[b + i] = w[i]
  BY <1>1, <1>2, <1>3, Zenon DEF Stands
<1>5. PICK c2, c3, c4 : c2 = b + 2 /\ c3 = b + 3 /\ c4 = b + 4
  OBVIOUS
<1>6. /\ c2 \in 1 .. Len(str) /\ c3 \in 1 .. Len(str) /\ c4 \in 1 .. Len(str)
      /\ b + 1 = c2 - 1 /\ c2 = c3 - 1 /\ c3 = c4 - 1 /\ c3 # 0
  <2>1. n \in Nat /\ b + 4 <= n
    BY <1>3, <1>4
  <2>2. c2 \in 1 .. n /\ c3 \in 1 .. n /\ c4 \in 1 .. n
    BY <1>5, <2>1
  <2>3. b + 1 = c2 - 1 /\ c2 = c3 - 1 /\ c3 = c4 - 1 /\ c3 # 0
    BY <1>5
  <2>4. QED
    BY <1>1, <2>2, <2>3
<1>7. str[c2] = Chr.space /\ str[c3] = x /\ str[c4] = Chr.equals
  <2>1. str[b + 2] = w[2] /\ str[b + 3] = w[3] /\ str[b + 4] = w[4]
    BY <1>4
  <2>2. QED
    BY <1>3, <1>5, <2>1, Zenon
<1>8. scans[c2] = ScanAt(0, 0, 0, r)
  <2>1. ScanAttribute(str, ScanAt(0, 0, 0, r), c2) = ScanAt(0, 0, 0, r)
    BY <1>7, ScanIdle
  <2>2. scans[c2] = ScanAttribute(str, scans[c2 - 1], c2)
    BY <1>6, Zenon DEF AttributesRun
  <2>3. QED
    BY <1>6, <2>1, <2>2
<1>9. scans[c3] = ScanAt(c3, 0, 0, r)
  <2>1. ScanAttribute(str, ScanAt(0, 0, 0, r), c3) = ScanAt(c3, 0, 0, r)
    BY <1>3, <1>7, ScanName
  <2>2. scans[c3] = ScanAttribute(str, scans[c3 - 1], c3)
    BY <1>6, Zenon DEF AttributesRun
  <2>3. QED
    BY <1>6, <1>8, <2>1, <2>2
<1>10. scans[c4] = ScanAt(c3, c4, 0, r)
  <2>1. ScanAttribute(str, ScanAt(c3, 0, 0, r), c4) = ScanAt(c3, c4, 0, r)
    BY <1>6, <1>7, ScanEquals
  <2>2. scans[c4] = ScanAttribute(str, scans[c4 - 1], c4)
    BY <1>6, Zenon DEF AttributesRun
  <2>3. QED
    BY <1>6, <1>9, <2>1, <2>2
<1>11. SubSeq(str, c3, c3) = <<x>>
  <2>1. PICK y : y = <<x>>
    OBVIOUS
  <2>2. y \in Seq(Int) /\ Len(y) = 1 /\ y[1] = x
    BY <1>3, <2>1
  <2>3. c2 \in Nat /\ c2 + Len(y) <= Len(str) /\ \A i \in 1 .. Len(y) : str[c2 + i] = y[i]
    BY <1>1, <1>3, <1>4, <1>5, <1>7, <2>2
  <2>4. SubSeq(str, c2 + 1, c2 + Len(y)) = y
    BY <2>2, <2>3, PartIs
  <2>5. c2 + 1 = c3 /\ c2 + Len(y) = c3
    BY <1>5, <2>2
  <2>6. QED
    BY <2>1, <2>4, <2>5
<1>12. QED
  BY <1>1, <1>4, <1>5, <1>10, <1>11

(* The attributes r and one more.                                          *)
Found(str, a, e, value, r) == r \cup {AttributeOf(str, a, e, value)}

(* A value in quotes stands from d + 1 to last.                            *)
QuotedAt(str, d, value, last) ==
    /\ last = d + Len(value) + 2 /\ last <= Len(str)
    /\ str[d + 1] = Chr.quote /\ str[last] = Chr.quote
    /\ \A i \in 1 .. Len(value) : str[d + 1 + i] = value[i]

(* It is found.                                                            *)
LEMMA QuotedWalk ==
    ASSUME NEW str \in Seq(Int), NEW scans, AttributesRun(scans, str), NEW d \in Nat,
           NEW a, a # 0, NEW e, e # 0, NEW r, scans[d] = ScanAt(a, e, 0, r),
           NEW value \in Seq(Safe), NEW last, QuotedAt(str, d, value, last),
           NEW q, q = Found(str, a, e, value, r)
    PROVE  scans[last] = ScanAt(0, 0, 0, q)
<1>1. PICK n : n = Len(str)
  OBVIOUS
<1>2. PICK m : m = Len(value)
  OBVIOUS
<1>3. PICK c, v : c = d + 1 /\ v = d + 2
  OBVIOUS
<1>4. /\ n \in Nat /\ m \in Nat /\ last = d + m + 2 /\ last <= n
      /\ str[d + 1] = Chr.quote /\ str[last] = Chr.quote
      /\ \A i \in 1 .. m : str[d + 1 + i] = value[i]
  BY <1>1, <1>2 DEF QuotedAt
<1>5. /\ c \in 1 .. n /\ c \in Nat /\ c < n /\ d = c - 1 /\ v = c + 1 /\ v # 0
      /\ last \in 1 .. n /\ c + m = last - 1 /\ c + m <= n
  <2>1. n \in Nat /\ m \in Nat /\ last = d + m + 2 /\ last <= n
    BY <1>4
  <2>2. c \in 1 .. n /\ c \in Nat /\ c < n /\ d = c - 1 /\ v = c + 1 /\ v # 0
    BY <1>3, <2>1
  <2>3. last \in 1 .. n /\ c + m = last - 1 /\ c + m <= n
    BY <1>3, <2>1
  <2>4. QED
    BY <2>2, <2>3
<1>6. scans[c] = ScanAt(a, e, v, r)
  <2>1. ValueStart(str, c) = v
    BY <1>1, <1>3, <1>4, <1>5 DEF ValueStart
  <2>2. ScanAttribute(str, ScanAt(a, e, 0, r), c) = ScanAt(a, e, v, r)
    BY <2>1, ScanValue
  <2>3. scans[c] = ScanAttribute(str, scans[c - 1], c)
    BY <1>1, <1>5, Zenon DEF AttributesRun
  <2>4. QED
    BY <1>5, <2>2, <2>3
<1>7. \A i \in 1 .. m : str[c + i] = value[i] /\ value[i] \in Safe
  <2>1. \A i \in 1 .. m : c + i = d + 1 + i
    BY <1>3
  <2>2. QED
    BY <1>2, <1>4, <2>1
<1>8. scans[c + m] = ScanAt(a, e, v, r)
  <2>1. \A i \in 1 .. m : str[c + i] \in Safe
    BY <1>7
  <2>2. c + m <= Len(str)
    BY <1>1, <1>5
  <2>3. QED
    <3>1. ValueGoesOn(str, c, m, a, e, v)
      BY <1>4, <1>5, <2>1, <2>2, Zenon DEF ValueGoesOn
    <3>2. QED
      BY <1>6, <3>1, QuietValue
<1>9. SubSeq(str, v, last - 1) = value
  <2>1. value \in Seq(Int)
    BY SafeCharacters, SeqMonotonic
  <2>2. SubSeq(str, c + 1, c + m) = value
    BY <1>1, <1>2, <1>5, <1>7, <2>1, PartIs
  <2>3. QED
    BY <1>5, <2>2
<1>10. ScanAttribute(str, ScanAt(a, e, v, r), last) = ScanAt(0, 0, 0, q)
  <2>1. ValueEnds(str, last, a, e, v, r, q)
    BY <1>4, <1>5, <1>9, Zenon DEF ValueEnds, Found
  <2>2. QED
    BY <2>1, ScanValueEnd
<1>11. scans[last] = ScanAttribute(str, scans[last - 1], last)
  BY <1>1, <1>5, Zenon DEF AttributesRun
<1>12. QED
  BY <1>5, <1>8, <1>10, <1>11

(* A value without quotes stands from d + 1 on, and the semicolon at last  *)
(* ends it.                                                                *)
PlainAt(str, d, value, last) ==
    /\ last = d + Len(value) + 1 /\ last <= Len(str) /\ str[last] = Chr.semicolon
    /\ \A i \in 1 .. Len(value) : str[d + i] = value[i]

(* It is found, if it is not empty.                                        *)
LEMMA PlainWalk ==
    ASSUME NEW str \in Seq(Int), NEW scans, AttributesRun(scans, str), NEW d \in Nat,
           NEW a, a # 0, NEW e, e # 0, NEW r, scans[d] = ScanAt(a, e, 0, r),
           NEW value \in Seq(Safe), value # <<>>,
           NEW last, PlainAt(str, d, value, last),
           NEW q, q = Found(str, a, e, value, r)
    PROVE  scans[last] = ScanAt(0, 0, 0, q)
<1>1. PICK n : n = Len(str)
  OBVIOUS
<1>2. PICK m : m = Len(value)
  OBVIOUS
<1>3. PICK c : c = d + 1
  OBVIOUS
<1>4. m \in Nat \ {0}
  BY <1>2, EmptySeq
<1>5. PICK k : k = m - 1
  OBVIOUS
<1>6. /\ n \in Nat /\ last = d + m + 1 /\ last <= n /\ str[last] = Chr.semicolon
      /\ \A i \in 1 .. m : str[d + i] = value[i]
  BY <1>1, <1>2 DEF PlainAt
<1>7. /\ k \in Nat /\ c \in 1 .. n /\ c \in Nat /\ d = c - 1 /\ c # 0
      /\ last \in 1 .. n /\ c + k = last - 1 /\ c + k <= n /\ d + m = last - 1 /\ d + m <= n
  <2>1. PICK z : z = last
    OBVIOUS
  <2>2. z = d + m + 1 /\ z <= n /\ n \in Nat
    BY <1>6, <2>1
  <2>3. /\ k \in Nat /\ c \in 1 .. n /\ c \in Nat /\ d = c - 1 /\ c # 0
        /\ z \in 1 .. n /\ c + k = z - 1 /\ c + k <= n /\ d + m = z - 1 /\ d + m <= n
    BY <1>3, <1>4, <1>5, <2>2
  <2>4. QED
    BY <2>1, <2>3
<1>8. \A i \in 1 .. m : str[d + i] = value[i] /\ value[i] \in Safe
  BY <1>2, <1>6
<1>9. scans[c] = ScanAt(a, e, c, r)
  <2>1. 1 \in 1 .. m
    BY <1>4
  <2>2. str[c] \in Safe
    BY <1>3, <1>8, <2>1
  <2>3. str[c] # Chr.quote
    BY <2>2, SafeCharacters
  <2>4. ValueStart(str, c) = c
    BY <2>3 DEF ValueStart
  <2>5. ScanAttribute(str, ScanAt(a, e, 0, r), c) = ScanAt(a, e, c, r)
    BY <2>4, ScanValue
  <2>6. scans[c] = ScanAttribute(str, scans[c - 1], c)
    BY <1>1, <1>7, Zenon DEF AttributesRun
  <2>7. QED
    BY <1>7, <2>5, <2>6
<1>10. scans[c + k] = ScanAt(a, e, c, r)
  <2>1. ASSUME NEW i \in 1 .. k PROVE str[c + i] \in Safe
    <3>1. i + 1 \in 1 .. m /\ d + (i + 1) = c + i
      BY <1>3, <1>4, <1>5
    <3>2. QED
      BY <1>8, <3>1
  <2>2. c + k <= Len(str)
    BY <1>1, <1>7
  <2>3. QED
    <3>1. ValueGoesOn(str, c, k, a, e, c)
      BY <1>7, <2>1, <2>2, Zenon DEF ValueGoesOn
    <3>2. QED
      BY <1>9, <3>1, QuietValue
<1>11. SubSeq(str, c, last - 1) = value
  <2>1. value \in Seq(Int)
    BY SafeCharacters, SeqMonotonic
  <2>2. SubSeq(str, d + 1, d + m) = value
    BY <1>1, <1>2, <1>7, <1>8, <2>1, PartIs
  <2>3. QED
    BY <1>3, <1>7, <2>2
<1>12. ScanAttribute(str, ScanAt(a, e, c, r), last) = ScanAt(0, 0, 0, q)
  <2>1. ValueEnds(str, last, a, e, c, r, q)
    BY <1>6, <1>7, <1>11, Zenon DEF ValueEnds, Found
  <2>2. QED
    BY <2>1, ScanValueEnd
<1>13. scans[last] = ScanAttribute(str, scans[last - 1], last)
  BY <1>1, <1>7, Zenon DEF AttributesRun
<1>14. QED
  BY <1>7, <1>10, <1>12, <1>13

(* The empty text is decoded as itself.                                    *)
LEMMA NothingDecoded == Decode(<<>>) = <<>>
<1>1. <<>> \in Seq(Int) /\ Len(<<>>) = 0 /\ 1 \in 1 .. 0 + 1 /\ 1 > 0
  OBVIOUS
<1>2. PICK f : /\ Decode(<<>>) = f[1]
               /\ \A k \in 1 .. Len(<<>>) + 1 : f[k] = DecodeStep(<<>>, f, k)
  BY <1>1, DecodeRuns
<1>3. f[1] = DecodeStep(<<>>, f, 1)
  BY <1>1, <1>2
<1>4. DecodeStep(<<>>, f, 1) = <<>>
  BY <1>1 DEF DecodeStep
<1>5. QED
  BY <1>2, <1>3, <1>4

(* A value in quotes.                                                      *)
Quoted(value) == <<Chr.quote>> \o value \o <<Chr.quote>>

(* It is a quote, the value, and a quote.                                  *)
LEMMA QuotedIs ==
    ASSUME NEW value \in Seq(Int)
    PROVE  /\ Quoted(value) \in Seq(Int) /\ Len(Quoted(value)) = Len(value) + 2
           /\ Quoted(value)[1] = Chr.quote /\ Quoted(value)[Len(value) + 2] = Chr.quote
           /\ \A i \in 1 .. Len(value) : Quoted(value)[1 + i] = value[i]
<1>1. PICK y : y = <<Chr.quote>>
  OBVIOUS
<1>2. y \in Seq(Int) /\ Len(y) = 1 /\ y[1] = Chr.quote /\ 1 \in 1 .. 1
  BY <1>1, ChrValues
<1>3. PICK u : u = y \o value
  OBVIOUS
<1>4. PICK w : w = u \o y
  OBVIOUS
<1>5. PICK m : m = Len(value)
  OBVIOUS
<1>6. IsConcat(u, Int, y, value)
  BY <1>2, <1>3, Concatenated
<1>7. /\ u \in Seq(Int) /\ Len(u) = 1 + m
      /\ \A i \in 1 .. 1 : u[i] = y[i]
      /\ \A i \in 1 .. m : u[1 + i] = value[i]
  BY <1>2, <1>5, <1>6, Zenon DEF IsConcat
<1>8. IsConcat(w, Int, u, y)
  BY <1>2, <1>4, <1>7, Concatenated
<1>9. /\ w \in Seq(Int) /\ Len(w) = 1 + m + 1
      /\ \A i \in 1 .. 1 + m : w[i] = u[i]
      /\ \A i \in 1 .. 1 : w[1 + m + i] = y[i]
  BY <1>2, <1>7, <1>8, Zenon DEF IsConcat
<1>10. m \in Nat /\ 1 \in 1 .. 1 + m /\ 1 + m + 1 = m + 2 /\ \A i \in 1 .. m : 1 + i \in 1 .. 1 + m
  BY <1>5
<1>11. w[1] = Chr.quote /\ w[m + 2] = Chr.quote /\ \A i \in 1 .. m : w[1 + i] = value[i]
  BY <1>2, <1>7, <1>9, <1>10
<1>12. w = Quoted(value)
  BY <1>1, <1>3, <1>4 DEF Quoted
<1>13. QED
  BY <1>5, <1>9, <1>10, <1>11, <1>12

(* The attributes r, and the attribute named x with the value t.           *)
With(r, x, t) == r \cup {<<<<x>>, t>>}

(* An attribute is read: its name, from b + 1 on, and its value in quotes. *)
LEMMA QuotedAttribute ==
    ASSUME NEW str \in Seq(Int), NEW scans, AttributesRun(scans, str), NEW b \in Nat,
           NEW x \in Letter, NEW t \in Seq(Octet),
           Stands(str, b, NameText(x)), Stands(str, b + 4, Quoted(Encode(t))),
           NEW r, scans[b + 1] = ScanAt(0, 0, 0, r)
    PROVE  scans[(b + 4) + Len(Quoted(Encode(t)))] = ScanAt(0, 0, 0, With(r, x, t))
<1>1. PICK value : value = Encode(t)
  OBVIOUS
<1>2. value \in Seq(Safe) /\ value \in Seq(Int) /\ Decode(value) = t
  BY <1>1, DecodeUndoesEncode, SafeCharacters, SeqMonotonic
<1>3. PICK m, n, d : m = Len(value) /\ n = Len(str) /\ d = b + 4
  OBVIOUS
<1>4. PICK w : w = Quoted(value)
  OBVIOUS
<1>5. /\ m \in Nat /\ Len(w) = m + 2 /\ w[1] = Chr.quote /\ w[m + 2] = Chr.quote
      /\ \A i \in 1 .. m : w[1 + i] = value[i]
  <2>1. /\ Len(Quoted(value)) = Len(value) + 2
        /\ Quoted(value)[1] = Chr.quote /\ Quoted(value)[Len(value) + 2] = Chr.quote
        /\ \A i \in 1 .. Len(value) : Quoted(value)[1 + i] = value[i]
    BY <1>2, QuotedIs
  <2>2. Len(value) \in Nat
    BY <1>2
  <2>3. QED
    BY <1>3, <1>4, <2>1, <2>2
<1>6. /\ scans[d] = ScanAt(b + 3, d, 0, r) /\ SubSeq(str, b + 3, b + 3) = <<x>>
      /\ d \in Nat /\ d # 0 /\ b + 3 # 0 /\ d - 1 = b + 3
  <2>1. /\ scans[b + 4] = ScanAt(b + 3, b + 4, 0, r)
        /\ SubSeq(str, b + 3, b + 3) = <<x>>
    BY NameWalk
  <2>2. QED
    BY <1>3, <2>1
<1>7. d + (m + 2) <= n /\ \A i \in 1 .. m + 2 : str[d + i] = w[i]
  BY <1>1, <1>3, <1>4, <1>5, Zenon DEF Stands
<1>8. PICK last : last = d + m + 2
  OBVIOUS
<1>9. /\ last <= n /\ d + (m + 2) = last /\ 1 \in 1 .. m + 2 /\ m + 2 \in 1 .. m + 2
      /\ \A i \in 1 .. m : 1 + i \in 1 .. m + 2 /\ d + (1 + i) = d + 1 + i
  BY <1>3, <1>5, <1>6, <1>7, <1>8
<1>10. /\ str[d + 1] = Chr.quote /\ str[last] = Chr.quote
       /\ \A i \in 1 .. m : str[d + 1 + i] = value[i]
  BY <1>5, <1>7, <1>9
<1>11. AttributeOf(str, b + 3, d, value) = <<<<x>>, t>>
  BY <1>2, <1>6 DEF AttributeOf
<1>12. PICK q : q = r \cup {AttributeOf(str, b + 3, d, value)}
  OBVIOUS
<1>13. PICK a : a = b + 3
  OBVIOUS
<1>14. scans[last] = ScanAt(0, 0, 0, q)
  <2>1. /\ scans[d] = ScanAt(a, d, 0, r) /\ a # 0 /\ q = Found(str, a, d, value, r)
    BY <1>6, <1>12, <1>13 DEF Found
  <2>2. last = d + Len(value) + 2 /\ last <= Len(str)
    BY <1>3, <1>8, <1>9
  <2>3. \A i \in 1 .. Len(value) : str[d + 1 + i] = value[i]
    BY <1>3, <1>10
  <2>4. QuotedAt(str, d, value, last)
    BY <1>10, <2>2, <2>3, Zenon DEF QuotedAt
  <2>5. QED
    BY <1>2, <1>6, <2>1, <2>4, QuotedWalk
<1>15. b + 4 + Len(w) = last
  BY <1>3, <1>5, <1>8
<1>16. q = With(r, x, t)
  BY <1>11, <1>12 DEF With
<1>17. QED
  BY <1>1, <1>4, <1>14, <1>15, <1>16

(* The same for a value without quotes.                                    *)
LEMMA PlainAttribute ==
    ASSUME NEW str \in Seq(Int), NEW scans, AttributesRun(scans, str), NEW b \in Nat,
           NEW x \in Letter, NEW t \in Seq(Octet), t # <<>>,
           Stands(str, b, NameText(x)), NEW last, PlainAt(str, b + 4, Encode(t), last),
           NEW r, scans[b + 1] = ScanAt(0, 0, 0, r)
    PROVE  scans[last] = ScanAt(0, 0, 0, With(r, x, t))
<1>1. PICK value : value = Encode(t)
  OBVIOUS
<1>2. value \in Seq(Safe) /\ value \in Seq(Int) /\ Decode(value) = t /\ value # <<>>
  BY <1>1, DecodeUndoesEncode, NothingDecoded, SafeCharacters, SeqMonotonic
<1>3. PICK d : d = b + 4
  OBVIOUS
<1>4. /\ scans[d] = ScanAt(b + 3, d, 0, r) /\ SubSeq(str, b + 3, b + 3) = <<x>>
      /\ d \in Nat /\ d # 0 /\ b + 3 # 0 /\ d - 1 = b + 3
  <2>1. /\ scans[b + 4] = ScanAt(b + 3, b + 4, 0, r)
        /\ SubSeq(str, b + 3, b + 3) = <<x>>
    BY NameWalk
  <2>2. QED
    BY <1>3, <2>1
<1>5. AttributeOf(str, b + 3, d, value) = <<<<x>>, t>>
  BY <1>2, <1>4 DEF AttributeOf
<1>6. PICK q : q = r \cup {AttributeOf(str, b + 3, d, value)}
  OBVIOUS
<1>7. PICK a : a = b + 3
  OBVIOUS
<1>8. scans[last] = ScanAt(0, 0, 0, q)
  <2>1. /\ scans[d] = ScanAt(a, d, 0, r) /\ a # 0 /\ q = Found(str, a, d, value, r)
    BY <1>4, <1>6, <1>7 DEF Found
  <2>2. PlainAt(str, d, value, last)
    BY <1>1, <1>3
  <2>3. QED
    BY <1>2, <1>4, <2>1, <2>2, PlainWalk
<1>9. q = With(r, x, t)
  BY <1>5, <1>6 DEF With
<1>10. QED
  BY <1>8, <1>9

(* The parts of the field in AttributesKept: E is the encoded value, M how *)
(* it stands in the second attribute.                                      *)
FieldParts(E, M) ==
    << <<102>>, NameText(97), Quoted(E), NameText(98), M, NameText(99), Quoted(E), <<Chr.semicolon>> >>

(* The field.                                                              *)
FieldOf(E, M) ==
    <<102>> \o NameText(97) \o Quoted(E) \o NameText(98) \o M \o NameText(99) \o Quoted(E)
    \o <<Chr.semicolon>>

(* str is the field, and at is where its parts end.                        *)
Pieces(str, at, E, M) == IsJoined(str, at, Int, FieldParts(E, M), 8)

(* The field is its parts, joined.                                         *)
LEMMA FieldPieces ==
    ASSUME NEW E \in Seq(Int), NEW M \in Seq(Int)
    PROVE  \E at : Pieces(FieldOf(E, M), at, E, M)
<1>1. PICK p1, p2, p3, p4, p8 :
        /\ p1 = <<102>> /\ p2 = NameText(97) /\ p3 = Quoted(E)
        /\ p4 = NameText(98) /\ p8 = <<Chr.semicolon>>
  OBVIOUS
<1>2. PICK p6 : p6 = NameText(99)
  OBVIOUS
<1>3. PICK seqs : seqs = <<p1, p2, p3, p4, M, p6, p3, p8>>
  OBVIOUS
<1>4. PICK C : C = Seq(Int)
  OBVIOUS
<1>5. p1 \in C /\ p2 \in C /\ p3 \in C /\ p4 \in C /\ p6 \in C /\ p8 \in C /\ M \in C
  <2>1. \A x, y, z, w \in Int : <<x, y, z, w>> \in C
    BY <1>4
  <2>2. \A x \in Int : <<x>> \in C
    BY <1>4
  <2>3. Chr.semicolon \in Int /\ Chr.space \in Int /\ Chr.equals \in Int
    BY ChrValues
  <2>4. p1 \in C /\ p8 \in C
    BY <1>1, <2>2, <2>3
  <2>5. p2 \in C /\ p4 \in C /\ p6 \in C
    <3>1. ASSUME NEW x \in Int PROVE NameText(x) \in C
      BY <2>1, <2>3, Zenon DEF NameText
    <3>2. 97 \in Int /\ 98 \in Int /\ 99 \in Int
      OBVIOUS
    <3>3. QED
      BY <1>1, <1>2, <3>1, <3>2, Zenon
  <2>6. QED
    BY <1>1, <1>4, <2>4, <2>5, QuotedIs
<1>6. seqs \in Seq(C) /\ Len(seqs) = 8
  BY <1>3, <1>5
<1>7. PICK g1, g2, g3, g4 : g1 = p1 /\ g2 = g1 \o p2 /\ g3 = g2 \o p3 /\ g4 = g3 \o p4
  OBVIOUS
<1>8. PICK g5, g6, g7, g8 : g5 = g4 \o M /\ g6 = g5 \o p6 /\ g7 = g6 \o p3 /\ g8 = g7 \o p8
  OBVIOUS
<1>9. PICK g : g = <<g1, g2, g3, g4, g5, g6, g7, g8>>
  OBVIOUS
<1>10. Joins(g, seqs, 8)
  <2>1. /\ g[1] = g1 /\ g[2] = g2 /\ g[3] = g3 /\ g[4] = g4
        /\ g[5] = g5 /\ g[6] = g6 /\ g[7] = g7 /\ g[8] = g8
    BY <1>9
  <2>2. /\ seqs[1] = p1 /\ seqs[2] = p2 /\ seqs[3] = p3 /\ seqs[4] = p4
        /\ seqs[5] = M /\ seqs[6] = p6 /\ seqs[7] = p3 /\ seqs[8] = p8
    BY <1>3
  <2>3. ASSUME NEW k \in 1 .. 8, k # 1 PROVE g[k] = g[k - 1] \o seqs[k]
    <3>1. k = 2 \/ k = 3 \/ k = 4 \/ k = 5 \/ k = 6 \/ k = 7 \/ k = 8
      BY <2>3
    <3>2. 2 - 1 = 1 /\ 3 - 1 = 2 /\ 4 - 1 = 3 /\ 5 - 1 = 4 /\ 6 - 1 = 5 /\ 7 - 1 = 6 /\ 8 - 1 = 7
      OBVIOUS
    <3>3. /\ g[2] = g[1] \o seqs[2] /\ g[3] = g[2] \o seqs[3] /\ g[4] = g[3] \o seqs[4]
          /\ g[5] = g[4] \o seqs[5] /\ g[6] = g[5] \o seqs[6] /\ g[7] = g[6] \o seqs[7]
          /\ g[8] = g[7] \o seqs[8]
      BY <1>7, <1>8, <2>1, <2>2, Zenon
    <3>4. QED
      BY <3>1, <3>2, <3>3
  <2>4. QED
    BY <1>6, <1>7, <2>1, <2>2, <2>3 DEF Joins
<1>11. FlattenSeq(seqs) = g8
  <2>1. FlattenSeq(seqs) = g[8]
    BY <1>10, Flattened
  <2>2. QED
    BY <1>9, <2>1
<1>12. g8 = FieldOf(E, M)
  BY <1>1, <1>2, <1>7, <1>8, Zenon DEF FieldOf
<1>13. seqs = FieldParts(E, M)
  BY <1>1, <1>2, <1>3, Zenon DEF FieldParts
<1>14. \E at : IsJoined(FlattenSeq(seqs), at, Int, seqs, Len(seqs))
  BY <1>4, <1>6, Joined
<1>15. QED
  BY <1>6, <1>11, <1>12, <1>13, <1>14 DEF Pieces

(* Each part stands at its place.                                          *)
LEMMA PiecesStand ==
    ASSUME NEW str, NEW at, NEW E \in Seq(Int), NEW M \in Seq(Int), Pieces(str, at, E, M)
    PROVE  /\ str \in Seq(Int) /\ Len(str) = at[8] /\ at[0] = 0
           /\ \A k \in 0 .. 8 : at[k] \in Nat
           /\ \A k \in 1 .. 8 : at[k] = at[k - 1] + Len(FieldParts(E, M)[k])
                                /\ Stands(str, at[k - 1], FieldParts(E, M)[k])
<1>1. PICK p : p = FieldParts(E, M)
  OBVIOUS
<1>2. IsJoined(str, at, Int, p, 8)
  BY <1>1, Zenon DEF Pieces
<1>3. str \in Seq(Int) /\ Len(str) = at[8] /\ at[0] = 0 /\ \A k \in 0 .. 8 : at[k] \in Nat
  BY <1>2 DEF IsJoined
<1>4. ASSUME NEW k \in 1 .. 8
      PROVE  at[k] = at[k - 1] + Len(p[k]) /\ Stands(str, at[k - 1], p[k])
  <2>1. /\ at[k] = at[k - 1] + Len(p[k]) /\ at[k] <= at[8]
        /\ \A i \in 1 .. Len(p[k]) : str[at[k - 1] + i] = p[k][i]
    BY <1>2, Zenon DEF IsJoined
  <2>2. QED
    BY <1>3, <2>1 DEF Stands
<1>5. QED
  BY <1>1, <1>3, <1>4

(* The four attributes of the field are found, whatever the text t.        *)
LEMMA FieldKept ==
    ASSUME NEW t \in Seq(Octet)
    PROVE  LET M == IF t = <<>> THEN Quoted(Encode(t)) ELSE Encode(t)
           IN  ParseAttributes(FieldOf(Encode(t), M)) =
                 { <<<<102>>, <<>>>>, <<<<97>>, t>>, <<<<98>>, t>>, <<<<99>>, t>> }
<1>1. PICK E : E = Encode(t)
  OBVIOUS
<1>2. PICK M : M = IF t = <<>> THEN Quoted(E) ELSE E
  OBVIOUS
<1>3. E \in Seq(Safe) /\ E \in Seq(Int)
  BY <1>1, DecodeUndoesEncode, SafeCharacters, SeqMonotonic
<1>4. M \in Seq(Int)
  BY <1>2, <1>3, QuotedIs
<1>5. PICK str : str = FieldOf(E, M)
  OBVIOUS
<1>6. PICK at : Pieces(str, at, E, M)
  BY <1>3, <1>4, <1>5, FieldPieces
<1>7. /\ str \in Seq(Int) /\ Len(str) = at[8] /\ at[0] = 0
      /\ \A k \in 0 .. 8 : at[k] \in Nat
      /\ \A k \in 1 .. 8 : at[k] = at[k - 1] + Len(FieldParts(E, M)[k])
                           /\ Stands(str, at[k - 1], FieldParts(E, M)[k])
  BY <1>3, <1>4, <1>6, PiecesStand
<1>8. PICK w, f, e : w = Quoted(E) /\ f = <<102>> /\ e = <<Chr.semicolon>>
  OBVIOUS
<1>9. /\ at[1] = at[0] + Len(f) /\ Stands(str, at[0], f)
      /\ at[2] = at[1] + Len(NameText(97)) /\ Stands(str, at[1], NameText(97))
      /\ at[3] = at[2] + Len(w) /\ Stands(str, at[2], w)
      /\ at[4] = at[3] + Len(NameText(98)) /\ Stands(str, at[3], NameText(98))
      /\ at[5] = at[4] + Len(M) /\ Stands(str, at[4], M)
      /\ at[6] = at[5] + Len(NameText(99)) /\ Stands(str, at[5], NameText(99))
      /\ at[7] = at[6] + Len(w) /\ Stands(str, at[6], w)
      /\ at[8] = at[7] + Len(e) /\ Stands(str, at[7], e)
  <2>1. PICK p : p = FieldParts(E, M)
    OBVIOUS
  <2>2. /\ p[1] = f /\ p[2] = NameText(97) /\ p[3] = w /\ p[4] = NameText(98)
        /\ p[5] = M /\ p[6] = NameText(99) /\ p[7] = w /\ p[8] = e
    BY <1>8, <2>1 DEF FieldParts
  <2>3. \A k \in 1 .. 8 : at[k] = at[k - 1] + Len(p[k]) /\ Stands(str, at[k - 1], p[k])
    BY <1>7, <2>1
  <2>4. /\ at[1] = at[0] + Len(p[1]) /\ Stands(str, at[0], p[1])
        /\ at[2] = at[1] + Len(p[2]) /\ Stands(str, at[1], p[2])
        /\ at[3] = at[2] + Len(p[3]) /\ Stands(str, at[2], p[3])
        /\ at[4] = at[3] + Len(p[4]) /\ Stands(str, at[3], p[4])
    BY <2>3
  <2>5. /\ at[5] = at[4] + Len(p[5]) /\ Stands(str, at[4], p[5])
        /\ at[6] = at[5] + Len(p[6]) /\ Stands(str, at[5], p[6])
        /\ at[7] = at[6] + Len(p[7]) /\ Stands(str, at[6], p[7])
        /\ at[8] = at[7] + Len(p[8]) /\ Stands(str, at[7], p[8])
    BY <2>3
  <2>6. QED
    BY <2>2, <2>4, <2>5
<1>10. /\ at[1] \in Nat /\ at[2] \in Nat /\ at[3] \in Nat /\ at[4] \in Nat
       /\ at[5] \in Nat /\ at[6] \in Nat /\ at[7] \in Nat /\ at[8] \in Nat
  BY <1>7
<1>11. /\ Len(NameText(97)) = 4 /\ NameText(97)[1] = Chr.semicolon
       /\ Len(NameText(98)) = 4 /\ NameText(98)[1] = Chr.semicolon
       /\ Len(NameText(99)) = 4 /\ NameText(99)[1] = Chr.semicolon
       /\ Len(f) = 1 /\ f[1] = 102 /\ Len(e) = 1 /\ e[1] = Chr.semicolon
  BY <1>8 DEF NameText
<1>12. 97 \in Letter /\ 98 \in Letter /\ 99 \in Letter
  BY ChrValues DEF Letter
<1>13. PICK n, wl, ml : n = Len(str) /\ wl = Len(w) /\ ml = Len(M)
  OBVIOUS
<1>14. PICK a3, a5, a7 : a3 = at[3] /\ a5 = at[5] /\ a7 = at[7]
  OBVIOUS
<1>15. /\ at[1] = 1 /\ at[2] = 1 + 4 /\ at[4] = a3 + 4 /\ at[6] = a5 + 4 /\ n = a7 + 1
       /\ a3 = (1 + 4) + wl /\ a5 = (a3 + 4) + ml /\ a7 = (a5 + 4) + wl
       /\ wl \in Nat /\ ml \in Nat /\ a3 \in Nat /\ a5 \in Nat /\ a7 \in Nat /\ n \in Nat
  <2>1. w \in Seq(Int)
    BY <1>3, <1>8, QuotedIs
  <2>2. wl \in Nat /\ ml \in Nat
    BY <1>4, <1>13, <2>1
  <2>3. at[1] = 1
    <3>1. at[1] = at[0] + Len(f) /\ at[0] = 0
      BY <1>7, <1>9
    <3>2. QED
      BY <1>11, <3>1
  <2>4. at[2] = 1 + 4 /\ at[4] = a3 + 4 /\ at[6] = a5 + 4
    BY <1>9, <1>11, <1>14, <2>3
  <2>5. a3 = (1 + 4) + wl /\ a5 = (a3 + 4) + ml /\ a7 = (a5 + 4) + wl
    BY <1>9, <1>13, <1>14, <2>4
  <2>6. n = a7 + 1
    BY <1>7, <1>9, <1>11, <1>13, <1>14
  <2>7. QED
    BY <1>10, <1>14, <2>2, <2>3, <2>4, <2>5, <2>6
<1>16. /\ str[1] = 102 /\ str[1 + 1] = Chr.semicolon /\ str[a3 + 1] = Chr.semicolon
       /\ str[a5 + 1] = Chr.semicolon /\ str[a7 + 1] = Chr.semicolon
  <2>1. ASSUME NEW b, NEW x, Stands(str, b, x), Len(x) \in Nat \ {0}
        PROVE  str[b + 1] = x[1]
    BY <2>1 DEF Stands
  <2>2. /\ Stands(str, at[0], f) /\ Stands(str, at[1], NameText(97))
        /\ Stands(str, at[3], NameText(98)) /\ Stands(str, at[5], NameText(99))
        /\ Stands(str, at[7], e)
    BY <1>9
  <2>3. str[at[0] + 1] = f[1]
    BY <1>11, <2>1, <2>2
  <2>4. str[at[1] + 1] = NameText(97)[1]
    BY <1>11, <2>1, <2>2
  <2>5. str[at[3] + 1] = NameText(98)[1]
    BY <1>11, <2>1, <2>2
  <2>6. str[at[5] + 1] = NameText(99)[1]
    BY <1>11, <2>1, <2>2
  <2>7. str[at[7] + 1] = e[1]
    BY <1>11, <2>1, <2>2
  <2>8. at[0] + 1 = 1
    BY <1>7
  <2>9. QED
    BY <1>11, <1>14, <1>15, <2>3, <2>4, <2>5, <2>6, <2>7, <2>8
<1>17. /\ Stands(str, 1, NameText(97)) /\ Stands(str, 1 + 4, w)
       /\ Stands(str, a3, NameText(98)) /\ Stands(str, a3 + 4, M)
       /\ Stands(str, a5, NameText(99)) /\ Stands(str, a5 + 4, w)
  <2>1. /\ Stands(str, at[1], NameText(97)) /\ Stands(str, at[2], w)
        /\ Stands(str, at[3], NameText(98)) /\ Stands(str, at[4], M)
        /\ Stands(str, at[5], NameText(99)) /\ Stands(str, at[6], w)
    BY <1>9
  <2>2. QED
    BY <1>14, <1>15, <2>1
<1>18. w = Quoted(Encode(t))
  BY <1>1, <1>8
<1>19. PICK scans : AttributesRun(scans, str) /\ AttributesEnd(str) = scans[n]
  <2>1. Len(str) \in Nat /\ DOMAIN str = 1 .. Len(str)
    BY <1>7
  <2>2. QED
    BY <1>13, <2>1, AttributesSteps
<1>20. str \in Seq(Int) /\ AttributesRun(scans, str) /\ 1 \in Nat /\ a3 \in Nat /\ a5 \in Nat
  BY <1>7, <1>15, <1>19
<1>21. ASSUME NEW b \in Nat, NEW x \in Letter, NEW r, Stands(str, b, NameText(x)),
              Stands(str, b + 4, w), scans[b + 1] = ScanAt(0, 0, 0, r)
       PROVE  scans[(b + 4) + wl] = ScanAt(0, 0, 0, With(r, x, t))
  <2>1. Stands(str, b + 4, Quoted(Encode(t)))
    BY <1>18, <1>21
  <2>2. scans[(b + 4) + Len(Quoted(Encode(t)))] = ScanAt(0, 0, 0, With(r, x, t))
    BY <1>20, <1>21, <2>1, QuotedAttribute
  <2>3. QED
    BY <1>13, <1>18, <2>2
<1>22. PICK r0, r1, r2, r3 :
         /\ r0 = {<<<<102>>, <<>>>>} /\ r1 = With(r0, 97, t)
         /\ r2 = With(r1, 98, t) /\ r3 = With(r2, 99, t)
  OBVIOUS
<1>23. ASSUME NEW k \in 1 .. n PROVE scans[k] = ScanAttribute(str, scans[k - 1], k)
  BY <1>13, <1>19, Zenon DEF AttributesRun
<1>24. scans[1 + 1] = ScanAt(0, 0, 0, r0)
  <2>1. 1 \in 1 .. n /\ 2 \in 1 .. n /\ 1 - 1 = 0 /\ 2 - 1 = 1 /\ 1 + 1 = 2
    BY <1>15
  <2>2. scans[0] = ScanAt(0, 0, 0, {})
    BY <1>19 DEF AttributesRun, AttributeScan, ScanAt
  <2>3. str[1] \notin {Chr.space, Chr.semicolon}
    BY <1>16, ChrValues
  <2>4. scans[1] = ScanAt(1, 0, 0, {})
    <3>1. ScanAttribute(str, ScanAt(0, 0, 0, {}), 1) = ScanAt(1, 0, 0, {})
      BY <2>3, ScanName
    <3>2. QED
      BY <1>23, <2>1, <2>2, <3>1
  <2>5. AttributeOf(str, 1, 2, <<>>) = <<f, <<>>>>
    <3>1. 0 \in Nat /\ 0 + Len(f) <= Len(str) /\ \A i \in 1 .. Len(f) : str[0 + i] = f[i]
      BY <1>11, <1>13, <1>16, <2>1
    <3>2. f \in Seq(Int)
      BY <1>8
    <3>3. SubSeq(str, 0 + 1, 0 + Len(f)) = f
      BY <1>7, <3>1, <3>2, PartIs
    <3>4. SubSeq(str, 1, 2 - 1) = f
      BY <1>11, <3>3
    <3>5. QED
      BY <3>4, NothingDecoded DEF AttributeOf
  <2>6. r0 = {} \cup {AttributeOf(str, 1, 2, <<>>)}
    BY <1>8, <1>22, <2>5
  <2>7. ScanAttribute(str, ScanAt(1, 0, 0, {}), 2) = ScanAt(0, 0, 0, r0)
    <3>1. str[2] = Chr.semicolon
      BY <1>16, <2>1
    <3>2. QED
      BY <2>6, <3>1, ScanBare
  <2>8. QED
    BY <1>23, <2>1, <2>4, <2>7
<1>25. scans[a3] = ScanAt(0, 0, 0, r1)
  <2>1. PICK b, x : b = 1 /\ x = 97
    OBVIOUS
  <2>2. /\ b \in Nat /\ x \in Letter /\ Stands(str, b, NameText(x)) /\ Stands(str, b + 4, w)
        /\ scans[b + 1] = ScanAt(0, 0, 0, r0)
    BY <1>12, <1>24, <1>17, <1>20, <2>1
  <2>3. scans[(b + 4) + wl] = ScanAt(0, 0, 0, With(r0, x, t))
    BY <1>21, <2>2
  <2>4. QED
    BY <1>15, <1>22, <2>1, <2>3
<1>26. ASSUME NEW b \in {a3, a5, a7}, NEW r, scans[b] = ScanAt(0, 0, 0, r)
       PROVE  scans[b + 1] = ScanAt(0, 0, 0, r)
  <2>1. PICK c : c = b + 1
    OBVIOUS
  <2>2. str[c] = Chr.semicolon
    BY <1>16, <2>1
  <2>3. c \in 1 .. n /\ c - 1 = b
    <3>1. b \in Nat /\ b <= a7
      BY <1>15
    <3>2. QED
      BY <1>15, <2>1, <3>1
  <2>4. ScanAttribute(str, ScanAt(0, 0, 0, r), c) = ScanAt(0, 0, 0, r)
    BY <2>2, ScanIdle
  <2>5. QED
    BY <1>23, <1>26, <2>1, <2>3, <2>4
<1>27. scans[a3 + 1] = ScanAt(0, 0, 0, r1)
  BY <1>25, <1>26
<1>28. scans[a5 + 1] = ScanAt(0, 0, 0, r2)
  <2>1. PICK x : x = 98
    OBVIOUS
  <2>2. x \in Letter /\ Stands(str, a3, NameText(x)) /\ r2 = With(r1, x, t)
    BY <1>12, <1>22, <1>17, <2>1
  <2>3. CASE t = <<>>
    <3>1. M = w
      BY <1>2, <1>8, <2>3
    <3>2. Stands(str, a3 + 4, w) /\ ml = wl
      BY <1>13, <1>17, <3>1
    <3>3. scans[(a3 + 4) + wl] = ScanAt(0, 0, 0, r2)
      BY <1>27, <1>20, <1>21, <2>2, <3>2
    <3>4. scans[a5] = ScanAt(0, 0, 0, r2)
      BY <1>15, <3>2, <3>3
    <3>5. QED
      BY <1>26, <3>4
  <2>4. CASE t # <<>>
    <3>1. M = Encode(t)
      BY <1>1, <1>2, <2>4
    <3>2. PICK last : last = a5 + 1
      OBVIOUS
    <3>3. PlainAt(str, a3 + 4, Encode(t), last)
      <4>1. last = (a3 + 4) + Len(Encode(t)) + 1 /\ last <= Len(str)
        <5>1. ml = Len(Encode(t)) /\ n = Len(str)
          BY <1>13, <3>1
        <5>2. a5 + 1 = (a3 + 4) + ml + 1 /\ a5 + 1 <= n
          BY <1>15
        <5>3. QED
          BY <3>2, <5>1, <5>2
      <4>2. \A i \in 1 .. Len(Encode(t)) : str[(a3 + 4) + i] = Encode(t)[i]
        BY <1>17, <3>1, Zenon DEF Stands
      <4>3. QED
        BY <1>16, <3>2, <4>1, <4>2, Zenon DEF PlainAt
    <3>4. scans[last] = ScanAt(0, 0, 0, With(r1, x, t))
      BY <1>27, <1>20, <2>2, <2>4, <3>3, PlainAttribute
    <3>5. QED
      BY <2>2, <3>2, <3>4
  <2>5. QED
    BY <2>3, <2>4
<1>29. scans[a7] = ScanAt(0, 0, 0, r3)
  <2>1. PICK x : x = 99
    OBVIOUS
  <2>2. x \in Letter /\ Stands(str, a5, NameText(x)) /\ r3 = With(r2, x, t)
    BY <1>12, <1>22, <1>17, <2>1
  <2>3. scans[(a5 + 4) + wl] = ScanAt(0, 0, 0, r3)
    BY <1>28, <1>17, <1>20, <1>21, <2>2
  <2>4. QED
    BY <1>15, <2>3
<1>30. scans[n] = ScanAt(0, 0, 0, r3)
  BY <1>15, <1>26, <1>29
<1>31. ParseAttributes(str) = r3
  BY <1>19, <1>30, ParsedAttributes
<1>32. r3 = { <<<<102>>, <<>>>>, <<<<97>>, t>>, <<<<98>>, t>>, <<<<99>>, t>> }
  BY <1>22, Zenon DEF With
<1>33. QED
  BY <1>1, <1>2, <1>5, <1>31, <1>32

-----------------------------------------------------------------------------
(* The theorems about the fields of messages.                              *)

(* The text that is typed is one of bytes.                                 *)
THEOREM TextIsText == TextSpec => []TypeTextOK
<1>1. TextInit => TypeTextOK
  BY DEF TextInit, TypeTextOK
<1>2. TypeTextOK /\ [TextNext]_text => TypeTextOK'
  BY DEF TypeTextOK, TextNext, TypeText
<1>3. QED
  BY <1>1, <1>2, PTL DEF TextSpec

(* Its characters are octets.                                              *)
LEMMA TypedOctets == TypeTextOK => text \in Seq(Octet)
<1>1. Bytes \subseteq Octet
  BY BytesAssumption DEF Octet
<1>2. TypeTextOK => text \in Seq(Bytes)
  BY DEF TypeTextOK
<1>3. QED
  BY <1>1, <1>2, SeqMonotonic, Zenon

(* QueryString::parse returns the fields that QueryString::create put into *)
(* the query (utility.hpp), whatever bytes their values have and however   *)
(* long they are.                                                          *)
THEOREM QueryReturns == TextSpec => []QueryRoundTrip
<1>1. TypeTextOK => QueryRoundTrip
  <2> SUFFICES ASSUME TypeTextOK PROVE QueryRoundTrip
    OBVIOUS
  <2>1. text \in Seq(Octet)
    BY TypedOctets
  <2>2. Reverse(text) \in Seq(Octet)
    <3>1. PICK n : n = Len(text)
      OBVIOUS
    <3>2. n \in Nat /\ \A i \in 1 .. n : text[i] \in Octet
      BY <2>1, <3>1
    <3>3. Reverse(text) = [i \in 1 .. n |-> text[(n - i) + 1]]
      BY <3>1, Zenon DEF Reverse
    <3>4. \A i \in 1 .. n : text[(n - i) + 1] \in Octet
      <4>1. \A i \in 1 .. n : (n - i) + 1 \in 1 .. n
        BY <3>2
      <4>2. QED
        BY <3>2, <4>1
    <3>5. [i \in 1 .. n |-> text[(n - i) + 1]] \in [1 .. n -> Octet]
      BY <3>4
    <3>6. QED
      BY <3>2, <3>3, <3>5
  <2>3. \A a \in Plain : <<a>> \in Seq(Plain) \ {<<>>}
    OBVIOUS
  <2>4. \A a, b \in Plain : <<a, b>> \in Seq(Plain) \ {<<>>}
    OBVIOUS
  <2>5. 97 \in Plain /\ 98 \in Plain /\ 99 \in Plain
    BY ChrValues DEF Plain
  <2>6. PICK f1, f2, f3 : f1 = <<<<97>>, text>> /\ f2 = <<<<98, 99>>, Reverse(text)>>
                          /\ f3 = <<<<97>>, <<>>>>
    OBVIOUS
  <2>7. <<>> \in Seq(Octet)
    OBVIOUS
  <2>8. \A s \in Seq(Plain) \ {<<>>}, x \in Seq(Octet) : <<s, x>> \in Field
    BY Zenon DEF Field
  <2>9. f1 \in Field /\ f2 \in Field /\ f3 \in Field
    BY <2>1, <2>2, <2>3, <2>4, <2>5, <2>6, <2>7, <2>8
  <2>10. <<f1, f2, f3>> \in Seq(Field)
    BY <2>9
  <2>11. ParseQuery(CreateQuery(<<f1, f2, f3>>)) = ToSet(<<f1, f2, f3>>)
    BY <2>10, QueryKept, Zenon
  <2>12. QED
    BY <2>6, <2>11, Zenon DEF QueryRoundTrip
<1>2. QED
  BY <1>1, TextIsText, PTL

(* SemicolonSeparatedAttributes::parse (utility.hpp) returns each          *)
(* attribute with its value, in quotes or not and in any place, whatever   *)
(* bytes the value has and however long it is.                             *)
THEOREM AttributesReturn == TextSpec => []AttributesKept
<1>1. TypeTextOK => AttributesKept
  <2> SUFFICES ASSUME TypeTextOK PROVE AttributesKept
    OBVIOUS
  <2>1. text \in Seq(Octet)
    BY TypedOctets
  <2>2. ParseAttributes(FieldOf(Encode(text),
                                IF text = <<>> THEN Quoted(Encode(text)) ELSE Encode(text)))
          = { <<<<102>>, <<>>>>, <<<<97>>, text>>, <<<<98>>, text>>, <<<<99>>, text>> }
    BY <2>1, FieldKept
  <2>3. QED
    BY <2>2, Zenon DEF AttributesKept, FieldOf, NameText, Quoted
<1>2. QED
  BY <1>1, TextIsText, PTL

-----------------------------------------------------------------------------
(* The lines of a message: what to_string writes, and what parse makes of  *)
(* each.                                                                   *)

(* The characters of a message, those that parse looks for by name.        *)
Sign == STRING \cup {SP, CR, LF, ":", "/", "?", "H", "T", "P", "L"}

(* They differ where parse depends on it.                                  *)
LEMMA Signs ==
    /\ SP # LF /\ CR # LF /\ CR # SP /\ ":" # LF /\ ":" # SP /\ ":" # CR /\ "/" # SP /\ "/" # LF
    /\ "?" # SP /\ "?" # LF
<1>1. SP # LF
  BY Zenon DEF SP, LF
<1>2. CR # LF
  BY Zenon DEF CR, LF
<1>3. CR # SP
  BY Zenon DEF CR, SP
<1>4. ":" # LF
  BY Zenon DEF LF
<1>5. ":" # SP
  BY Zenon DEF SP
<1>6. ":" # CR
  BY Zenon DEF CR
<1>7. "/" # SP
  BY Zenon DEF SP
<1>8. "/" # LF
  BY Zenon DEF LF
<1>9. "?" # SP
  BY Zenon DEF SP
<1>10. "?" # LF
  BY Zenon DEF LF
<1>11. QED
  BY <1>1, <1>2, <1>3, <1>4, <1>5, <1>6, <1>7, <1>8, <1>9, <1>10

(* They are characters of messages.                                        *)
LEMMA SignsAre ==
    /\ STRING \subseteq Sign /\ SP \in Sign /\ CR \in Sign /\ LF \in Sign
    /\ ":" \in Sign /\ "/" \in Sign /\ "?" \in Sign /\ "H" \in Sign /\ "T" \in Sign /\ "P" \in Sign
    /\ "L" \in Sign
  BY Zenon DEF Sign

(* Texts that are joined, and one more after them.                         *)
LEMMA JoinedAfter ==
    ASSUME NEW C, NEW seqs \in Seq(Seq(C)), NEW n, n = Len(seqs), NEW t, NEW at,
           IsJoined(t, at, C, seqs, n), NEW s \in Seq(C), NEW more, more = Append(seqs, s)
    PROVE  \E to : IsJoined(t \o s, to, C, more, n + 1)
<1>1. PICK l : l = Len(s)
  OBVIOUS
<1>2. PICK m : m = at[n]
  OBVIOUS
<1>3. n \in Nat /\ l \in Nat /\ m \in Nat /\ Len(t) = m /\ t \in Seq(C) /\ at[0] = 0
  BY <1>1, <1>2 DEF IsJoined
<1>4. PICK to : to = [k \in 0 .. n + 1 |-> IF k <= n THEN at[k] ELSE m + l]
  OBVIOUS
<1>5. /\ \A k \in 0 .. n : to[k] = at[k] /\ at[k] \in Nat
      /\ to[n + 1] = m + l
  <2>1. \A k \in 0 .. n : to[k] = at[k]
    BY <1>3, <1>4
  <2>2. to[n + 1] = m + l
    BY <1>3, <1>4
  <2>3. \A k \in 0 .. n : at[k] \in Nat
    BY DEF IsJoined
  <2>4. QED
    BY <2>1, <2>2, <2>3
<1>6. to \in [0 .. n + 1 -> Nat]
  <2>1. ASSUME NEW k \in 0 .. n + 1 PROVE to[k] \in Nat
    <3>1. m + l \in Nat
      BY <1>3
    <3>2. CASE k \in 0 .. n
      BY <1>5, <3>2
    <3>3. CASE k = n + 1
      BY <1>5, <3>1, <3>3
    <3>4. QED
      BY <1>3, <3>2, <3>3
  <2>2. QED
    BY <1>4, <2>1
<1>7. PICK u : u = t \o s
  OBVIOUS
<1>8. /\ u \in Seq(C) /\ Len(u) = m + l
      /\ \A i \in 1 .. m : u[i] = t[i]
      /\ \A i \in 1 .. l : u[m + i] = s[i]
  <2>1. IsConcat(u, C, t, s)
    BY <1>3, <1>7, Concatenated, Zenon
  <2>2. QED
    BY <1>1, <1>3, <2>1, Zenon DEF IsConcat
<1>9. /\ \A k \in 1 .. n : more[k] = seqs[k]
      /\ more[n + 1] = s
  OBVIOUS
<1>10. ASSUME NEW k \in 1 .. n
       PROVE  /\ to[k] = to[k - 1] + Len(more[k]) /\ to[k] <= to[n + 1]
              /\ \A i \in 1 .. Len(more[k]) : u[to[k - 1] + i] = more[k][i]
  <2>1. k \in 0 .. n /\ k - 1 \in 0 .. n
    BY <1>3
  <2>2. PICK a, b, x : a = at[k - 1] /\ b = at[k] /\ x = seqs[k]
    OBVIOUS
  <2>3. a \in Nat /\ b \in Nat /\ x \in Seq(C) /\ Len(x) \in Nat
    BY <1>5, <2>1, <2>2
  <2>4. b = a + Len(x) /\ b <= m /\ \A i \in 1 .. Len(x) : t[a + i] = x[i]
    BY <1>2, <2>2, Zenon DEF IsJoined
  <2>5. to[k] = b /\ to[k - 1] = a /\ more[k] = x
    BY <1>5, <1>9, <2>1, <2>2
  <2>6. \A i \in 1 .. Len(x) : a + i \in 1 .. m
    BY <1>3, <2>3, <2>4
  <2>7. \A i \in 1 .. Len(x) : u[a + i] = x[i]
    BY <1>8, <2>4, <2>6
  <2>8. b <= m + l
    BY <1>3, <2>3, <2>4
  <2>9. QED
    BY <1>5, <2>4, <2>5, <2>7, <2>8
<1>11. /\ to[n + 1] = to[n] + Len(more[n + 1]) /\ to[n + 1] <= to[n + 1]
       /\ \A i \in 1 .. Len(more[n + 1]) : u[to[n] + i] = more[n + 1][i]
  <2>1. to[n] = m
    BY <1>2, <1>3, <1>5
  <2>2. QED
    BY <1>1, <1>3, <1>5, <1>8, <1>9, <2>1
<1>12. IsJoined(u, to, C, more, n + 1)
  <2>1. to[0] = 0
    BY <1>3, <1>5
  <2>2. \A k \in 1 .. n + 1 : to[k] = to[k - 1] + Len(more[k]) /\ to[k] <= to[n + 1]
    <3>1. SUFFICES ASSUME NEW k \in 1 .. n + 1
                   PROVE  to[k] = to[k - 1] + Len(more[k]) /\ to[k] <= to[n + 1]
      OBVIOUS
    <3>2. k \in 1 .. n \/ (k = n + 1 /\ k - 1 = n)
      BY <1>3
    <3>3. QED
      BY <1>10, <1>11, <3>2
  <2>3. \A k \in 1 .. n + 1 : \A i \in 1 .. Len(more[k]) : u[to[k - 1] + i] = more[k][i]
    <3>1. SUFFICES ASSUME NEW k \in 1 .. n + 1
                   PROVE  \A i \in 1 .. Len(more[k]) : u[to[k - 1] + i] = more[k][i]
      OBVIOUS
    <3>2. k \in 1 .. n \/ (k = n + 1 /\ k - 1 = n)
      BY <1>3
    <3>3. QED
      BY <1>10, <1>11, <3>2
  <2>4. u \in Seq(C) /\ Len(u) = to[n + 1]
    BY <1>5, <1>8
  <2>5. QED
    BY <1>6, <2>1, <2>2, <2>3, <2>4 DEF IsJoined
<1>13. QED
  BY <1>7, <1>12

(* Texts that are joined, and one more before them.                        *)
LEMMA JoinedBefore ==
    ASSUME NEW C, NEW seqs \in Seq(Seq(C)), NEW n, n = Len(seqs), NEW t, NEW at,
           IsJoined(t, at, C, seqs, n), NEW s \in Seq(C), NEW more, more = <<s>> \o seqs
    PROVE  \E to : IsJoined(s \o t, to, C, more, n + 1)
<1>1. PICK l : l = Len(s)
  OBVIOUS
<1>2. PICK m : m = at[n]
  OBVIOUS
<1>3. n \in Nat /\ l \in Nat /\ m \in Nat /\ Len(t) = m /\ t \in Seq(C) /\ at[0] = 0
  BY <1>1, <1>2 DEF IsJoined
<1>4. PICK to : to = [k \in 0 .. n + 1 |-> IF k = 0 THEN 0 ELSE l + at[k - 1]]
  OBVIOUS
<1>5. /\ \A k \in 0 .. n : to[k + 1] = l + at[k] /\ at[k] \in Nat
      /\ to[0] = 0
  <2>1. \A k \in 0 .. n : at[k] \in Nat
    BY DEF IsJoined
  <2>2. ASSUME NEW k \in 0 .. n PROVE to[k + 1] = l + at[k]
    <3>1. k + 1 \in 0 .. n + 1 /\ k + 1 # 0 /\ (k + 1) - 1 = k
      BY <1>3
    <3>2. QED
      BY <1>4, <3>1
  <2>3. to[0] = 0
    <3>1. 0 \in 0 .. n + 1
      BY <1>3
    <3>2. QED
      BY <1>4, <3>1
  <2>4. QED
    BY <2>1, <2>2, <2>3
<1>6. to \in [0 .. n + 1 -> Nat]
  <2>1. ASSUME NEW k \in 0 .. n + 1 PROVE to[k] \in Nat
    <3>1. CASE k = 0
      BY <1>5, <3>1
    <3>2. CASE k # 0
      <4>1. PICK j : j = k - 1
        OBVIOUS
      <4>2. j \in 0 .. n /\ k = j + 1
        BY <1>3, <3>2, <4>1
      <4>3. to[k] = l + at[j] /\ at[j] \in Nat
        BY <1>5, <4>2
      <4>4. QED
        BY <1>3, <4>3
    <3>3. QED
      BY <3>1, <3>2
  <2>2. QED
    BY <1>4, <2>1
<1>7. PICK u : u = s \o t
  OBVIOUS
<1>8. /\ u \in Seq(C) /\ Len(u) = l + m
      /\ \A i \in 1 .. l : u[i] = s[i]
      /\ \A i \in 1 .. m : u[l + i] = t[i]
  <2>1. IsConcat(u, C, s, t)
    BY <1>3, <1>7, Concatenated, Zenon
  <2>2. QED
    BY <1>1, <1>3, <2>1, Zenon DEF IsConcat
<1>9. /\ \A k \in 1 .. n : more[k + 1] = seqs[k]
      /\ more[1] = s
  OBVIOUS
<1>10. ASSUME NEW k \in 1 .. n
       PROVE  /\ to[k + 1] = to[k] + Len(more[k + 1]) /\ to[k + 1] <= to[n + 1]
              /\ \A i \in 1 .. Len(more[k + 1]) : u[to[k] + i] = more[k + 1][i]
  <2>1. k \in 0 .. n /\ k - 1 \in 0 .. n /\ (k - 1) + 1 = k /\ n \in 0 .. n
    BY <1>3
  <2>2. PICK a, b, x : a = at[k - 1] /\ b = at[k] /\ x = seqs[k]
    OBVIOUS
  <2>3. a \in Nat /\ b \in Nat /\ x \in Seq(C) /\ Len(x) \in Nat
    BY <1>5, <2>1, <2>2
  <2>4. b = a + Len(x) /\ b <= m /\ \A i \in 1 .. Len(x) : t[a + i] = x[i]
    BY <1>2, <2>2, Zenon DEF IsJoined
  <2>5. to[k + 1] = l + b /\ to[k] = l + a /\ more[k + 1] = x /\ to[n + 1] = l + m
    BY <1>2, <1>5, <1>9, <2>1, <2>2
  <2>6. \A i \in 1 .. Len(x) : a + i \in 1 .. m /\ (l + a) + i = l + (a + i)
    BY <1>3, <2>3, <2>4
  <2>7. \A i \in 1 .. Len(x) : u[(l + a) + i] = x[i]
    BY <1>8, <2>4, <2>6
  <2>8. l + b = (l + a) + Len(x) /\ l + b <= l + m
    BY <1>3, <2>3, <2>4
  <2>9. QED
    BY <2>5, <2>7, <2>8
<1>11. /\ to[1] = to[0] + Len(more[1]) /\ to[1] <= to[n + 1]
       /\ \A i \in 1 .. Len(more[1]) : u[to[0] + i] = more[1][i]
  <2>1. to[1] = l
    <3>1. 0 \in 0 .. n /\ 0 + 1 = 1
      BY <1>3
    <3>2. QED
      BY <1>3, <1>5, <3>1
  <2>2. to[n + 1] = l + m
    BY <1>2, <1>3, <1>5
  <2>3. \A i \in 1 .. l : 0 + i = i
    OBVIOUS
  <2>4. QED
    BY <1>1, <1>3, <1>5, <1>8, <1>9, <2>1, <2>2, <2>3
<1>12. IsJoined(u, to, C, more, n + 1)
  <2>1. ASSUME NEW k \in 1 .. n + 1
        PROVE  /\ to[k] = to[k - 1] + Len(more[k]) /\ to[k] <= to[n + 1]
               /\ \A i \in 1 .. Len(more[k]) : u[to[k - 1] + i] = more[k][i]
    <3>1. CASE k = 1
      BY <1>11, <3>1
    <3>2. CASE k # 1
      <4>1. PICK j : j = k - 1
        OBVIOUS
      <4>2. j \in 1 .. n /\ k = j + 1
        BY <1>3, <3>2, <4>1
      <4>3. QED
        BY <1>10, <4>1, <4>2
    <3>3. QED
      BY <3>1, <3>2
  <2>2. u \in Seq(C) /\ Len(u) = to[n + 1]
    <3>1. n \in 0 .. n
      BY <1>3
    <3>2. QED
      BY <1>2, <1>5, <1>8, <3>1
  <2>3. QED
    BY <1>5, <1>6, <2>1, <2>2 DEF IsJoined
<1>13. QED
  BY <1>7, <1>12

(* A text without certain characters, character by character.              *)
LEMMA WithoutAny ==
    ASSUME NEW ends, NEW t, Without(ends, t)
    PROVE  /\ t \in Seq(Sign) /\ Len(t) \in Nat
           /\ \A i \in 1 .. Len(t) : t[i] \notin ends
<1>1. t \in Seq(STRING) /\ Range(t) \cap ends = {}
  BY DEF Without
<1>2. STRING \subseteq Sign
  BY DEF Sign
<1>3. t \in Seq(Sign)
  BY <1>1, <1>2, SeqMonotonic, Zenon
<1>4. \A i \in 1 .. Len(t) : t[i] \in Range(t)
  BY <1>1 DEF Range
<1>5. QED
  BY <1>1, <1>3, <1>4

(* The search for what is not a space ends behind a single space.          *)
LEMMA FirstOther ==
    ASSUME NEW s, NEW from \in Nat \ {0}, NEW to \in Nat, from + 1 <= to,
           s[from] = SP, s[from + 1] # SP
    PROVE  SelectInSubSeq(s, from, to, LAMBDA x : x # SP) = from + 1
<1> DEFINE I == {i \in from .. to : s[i] # SP}
<1>1. SelectInSubSeq(s, from, to, LAMBDA x : x # SP) = IF I # {} THEN Min(I) ELSE 0
  BY DEF SelectInSubSeq
<1>2. from + 1 \in I /\ \A y \in I : from + 1 <= y
  <2>1. from + 1 \in from .. to
    OBVIOUS
  <2>2. ASSUME NEW y \in from .. to, s[y] # SP PROVE from + 1 <= y
    <3>1. y # from
      BY <2>2
    <3>2. QED
      BY <3>1
  <2>3. QED
    BY <2>1, <2>2
<1>3. I \subseteq Nat
  OBVIOUS
<1>4. Min(I) = from + 1
  <2> HIDE DEF I
  <2>1. Min(I) \in I /\ \A y \in I : Min(I) <= y
    BY <1>2 DEF Min
  <2>2. PICK m, f : m = Min(I) /\ f = from + 1
    OBVIOUS
  <2>3. m \in Nat /\ f \in Nat /\ m <= f /\ f <= m
    BY <1>2, <1>3, <2>1, <2>2
  <2>4. QED
    BY <2>2, <2>3
<1>5. QED
  BY <1>1, <1>2, <1>4

(* What to_string writes for a field of the header.                        *)
FieldOfHeader(f) == f[1] \o <<":", SP>> \o f[2] \o <<CR, LF>>

(* A text with one newline, its last character.                            *)
IsLine(l) ==
    /\ l \in Seq(Sign) /\ Len(l) \in Nat \ {0} /\ l[Len(l)] = LF
    /\ \A i \in 1 .. Len(l) - 1 : l[i] # LF

(* What getline returns of it.                                             *)
Stripped(l) == SubSeq(l, 1, Len(l) - 1)

(* HttpHeader::parse finds the field f in line l, and no other.            *)
HoldsField(l, f) == IsLine(l) /\ Has(Stripped(l), ":") /\ FieldLine(Stripped(l)) = {f}

(* The text without its last character, character by character.            *)
LEMMA StrippedIs ==
    ASSUME NEW l, l \in Seq(Sign), Len(l) \in Nat \ {0}
    PROVE  /\ Stripped(l) \in Seq(Sign) /\ Len(Stripped(l)) = Len(l) - 1
           /\ \A i \in 1 .. Len(l) - 1 : Stripped(l)[i] = l[i]
<1>1. PICK n : n = Len(l) - 1
  OBVIOUS
<1>2. 1 \in 1 .. Len(l) + 1 /\ n \in 1 - 1 .. Len(l) /\ n - 1 + 1 = n /\ n \in Nat
  BY <1>1
<1>3. /\ SubSeq(l, 1, n) \in Seq(Sign)
      /\ Len(SubSeq(l, 1, n)) = n - 1 + 1
      /\ \A i \in 1 .. n - 1 + 1 : SubSeq(l, 1, n)[i] = l[1 + i - 1]
  BY <1>2, PartOf, Zenon
<1>4. \A i \in 1 .. n : 1 + i - 1 = i
  BY <1>2
<1>5. QED
  BY <1>1, <1>2, <1>3, <1>4 DEF Stripped

(* l has the name and the value of a field, and what to_string puts around *)
(* them.                                                                   *)
IsFieldLine(l, name, value) ==
    /\ l \in Seq(Sign) /\ Len(l) = Len(name) + Len(value) + 4
    /\ \A i \in 1 .. Len(name) : l[i] = name[i]
    /\ l[Len(name) + 1] = ":" /\ l[Len(name) + 2] = SP
    /\ \A i \in 1 .. Len(value) : l[Len(name) + 2 + i] = value[i]
    /\ l[Len(name) + Len(value) + 3] = CR /\ l[Len(name) + Len(value) + 4] = LF

(* The text that is written for a field has.                               *)
LEMMA FieldLineIs ==
    ASSUME NEW name \in Seq(Sign), NEW value \in Seq(Sign)
    PROVE  IsFieldLine(name \o <<":", SP>> \o value \o <<CR, LF>>, name, value)
<1>1. PICK n, v : n = Len(name) /\ v = Len(value)
  OBVIOUS
<1>2. PICK a, b : a = <<":", SP>> /\ b = <<CR, LF>>
  OBVIOUS
<1>3. n \in Nat /\ v \in Nat /\ a \in Seq(Sign) /\ b \in Seq(Sign) /\ Len(a) = 2 /\ Len(b) = 2
      /\ a[1] = ":" /\ a[2] = SP /\ b[1] = CR /\ b[2] = LF
  <2>1. ":" \in Sign /\ SP \in Sign /\ CR \in Sign /\ LF \in Sign
    BY SignsAre
  <2>2. a \in Seq(Sign) /\ Len(a) = 2 /\ a[1] = ":" /\ a[2] = SP
    BY <1>2, <2>1
  <2>3. b \in Seq(Sign) /\ Len(b) = 2 /\ b[1] = CR /\ b[2] = LF
    BY <1>2, <2>1
  <2>4. n \in Nat /\ v \in Nat
    BY <1>1
  <2>5. QED
    BY <2>2, <2>3, <2>4
<1>4. PICK x : x = name \o a
  OBVIOUS
<1>5. IsConcat(x, Sign, name, a)
  BY <1>3, <1>4, Concatenated, Zenon
<1>6. /\ x \in Seq(Sign) /\ Len(x) = n + 2 /\ \A i \in 1 .. n : x[i] = name[i]
      /\ \A i \in 1 .. 2 : x[n + i] = a[i]
  BY <1>1, <1>3, <1>5 DEF IsConcat
<1>7. PICK y : y = x \o value
  OBVIOUS
<1>8. IsConcat(y, Sign, x, value)
  BY <1>6, <1>7, Concatenated, Zenon
<1>9. /\ y \in Seq(Sign) /\ Len(y) = n + v + 2 /\ \A i \in 1 .. n + 2 : y[i] = x[i]
      /\ \A i \in 1 .. v : y[n + 2 + i] = value[i]
  BY <1>1, <1>3, <1>6, <1>8 DEF IsConcat
<1>10. PICK l : l = y \o b
  OBVIOUS
<1>11. IsConcat(l, Sign, y, b)
  BY <1>3, <1>9, <1>10, Concatenated, Zenon
<1>12. /\ l \in Seq(Sign) /\ Len(l) = n + v + 4 /\ \A i \in 1 .. n + v + 2 : l[i] = y[i]
       /\ \A i \in 1 .. 2 : l[n + v + 2 + i] = b[i]
  BY <1>1, <1>3, <1>9, <1>11 DEF IsConcat
<1>13. \A i \in 1 .. n : l[i] = name[i]
  <2>1. \A i \in 1 .. n : i \in 1 .. n + 2 /\ i \in 1 .. n + v + 2
    BY <1>3
  <2>2. QED
    BY <1>6, <1>9, <1>12, <2>1
<1>14. l[n + 1] = ":" /\ l[n + 2] = SP
  <2>1. n + 1 \in 1 .. n + 2 /\ n + 2 \in 1 .. n + 2 /\ n + 1 \in 1 .. n + v + 2 /\ n + 2 \in 1 .. n + v + 2
    BY <1>3
  <2>2. l[n + 1] = x[n + 1] /\ l[n + 2] = x[n + 2]
    BY <1>9, <1>12, <2>1
  <2>3. x[n + 1] = a[1] /\ x[n + 2] = a[2]
    BY <1>6
  <2>4. QED
    BY <1>3, <2>2, <2>3
<1>15. \A i \in 1 .. v : l[n + 2 + i] = value[i]
  <2>1. \A i \in 1 .. v : n + 2 + i \in 1 .. n + v + 2
    BY <1>3
  <2>2. QED
    BY <1>9, <1>12, <2>1
<1>16. l[n + v + 3] = CR /\ l[n + v + 4] = LF
  <2>1. n + v + 2 + 1 = n + v + 3 /\ n + v + 2 + 2 = n + v + 4
    BY <1>3
  <2>2. l[n + v + 2 + 1] = b[1] /\ l[n + v + 2 + 2] = b[2]
    BY <1>12
  <2>3. QED
    BY <1>3, <2>1, <2>2
<1>17. IsFieldLine(l, name, value)
  BY <1>1, <1>12, <1>13, <1>14, <1>15, <1>16, Zenon DEF IsFieldLine
<1>18. QED
  BY <1>2, <1>4, <1>7, <1>10, <1>17

(* It is a line that holds the field.                                      *)
LEMMA FieldLineRead ==
    ASSUME NEW f, SoundField(f), NEW l, IsFieldLine(l, f[1], f[2])
    PROVE  HoldsField(l, f)
<1>1. PICK name, value : name = f[1] /\ value = f[2]
  OBVIOUS
<1>2. PICK n, v : n = Len(name) /\ v = Len(value)
  OBVIOUS
<1>3. /\ name \in Seq(Sign) /\ n \in Nat /\ \A i \in 1 .. n : name[i] # ":" /\ name[i] # LF
      /\ value \in Seq(Sign) /\ v \in Nat /\ \A i \in 1 .. v : value[i] # LF
  <2>1. Without({":", LF}, name) /\ Without({LF}, value)
    BY <1>1 DEF SoundField
  <2>2. /\ name \in Seq(Sign) /\ Len(name) \in Nat
        /\ \A i \in 1 .. Len(name) : name[i] \notin {":", LF}
    BY <2>1, WithoutAny, Zenon
  <2>3. /\ value \in Seq(Sign) /\ Len(value) \in Nat
        /\ \A i \in 1 .. Len(value) : value[i] \notin {LF}
    BY <2>1, WithoutAny, Zenon
  <2>4. QED
    BY <1>2, <2>2, <2>3
<1>4. f = <<name, value>> /\ (v # 0 => value[1] # SP)
  <2>1. f \in Seq(STRING) \X Seq(STRING) /\ (value # <<>> => value[1] # SP)
    BY <1>1 DEF SoundField
  <2>2. f = <<name, value>>
    BY <1>1, <2>1
  <2>3. v # 0 => value # <<>>
    BY <1>2
  <2>4. QED
    BY <2>1, <2>2, <2>3
<1>5. /\ l \in Seq(Sign) /\ Len(l) = n + v + 4
      /\ \A i \in 1 .. n : l[i] = name[i]
      /\ l[n + 1] = ":" /\ l[n + 2] = SP
      /\ \A i \in 1 .. v : l[n + 2 + i] = value[i]
      /\ l[n + v + 3] = CR /\ l[n + v + 4] = LF
  BY <1>1, <1>2 DEF IsFieldLine
<1>6. PICK w : w = Stripped(l)
  OBVIOUS
<1>7. w \in Seq(Sign) /\ Len(w) = n + v + 3 /\ \A i \in 1 .. n + v + 3 : w[i] = l[i]
  <2>1. PICK m : m = Len(l)
    OBVIOUS
  <2>2. m \in Nat \ {0} /\ m - 1 = n + v + 3
    BY <1>3, <1>5, <2>1
  <2>3. /\ w \in Seq(Sign) /\ Len(w) = m - 1
        /\ \A i \in 1 .. m - 1 : w[i] = l[i]
    BY <1>5, <1>6, <2>1, <2>2, StrippedIs
  <2>4. QED
    BY <2>2, <2>3
<1>8. /\ \A i \in 1 .. n : w[i] = name[i]
      /\ w[n + 1] = ":" /\ w[n + 2] = SP
      /\ \A i \in 1 .. v : w[n + 2 + i] = value[i]
      /\ w[n + v + 3] = CR
  <2>1. /\ \A i \in 1 .. n : i \in 1 .. n + v + 3
        /\ n + 1 \in 1 .. n + v + 3 /\ n + 2 \in 1 .. n + v + 3
        /\ \A i \in 1 .. v : n + 2 + i \in 1 .. n + v + 3
        /\ n + v + 3 \in 1 .. n + v + 3
    BY <1>3
  <2>2. QED
    BY <1>5, <1>7, <2>1
<1>9. IsLine(l)
  <2>1. Len(l) \in Nat \ {0} /\ Len(l) - 1 = n + v + 3
    BY <1>3, <1>5
  <2>2. ASSUME NEW i \in 1 .. n + v + 3 PROVE w[i] # LF
    <3>1. \/ i \in 1 .. n \/ i = n + 1 \/ i = n + 2 \/ i = n + v + 3
          \/ \E j \in 1 .. v : i = n + 2 + j
      <4>1. i \in n + 3 .. n + v + 2 => i - (n + 2) \in 1 .. v /\ i = n + 2 + (i - (n + 2))
        BY <1>3
      <4>2. i \in 1 .. n \/ i = n + 1 \/ i = n + 2 \/ i = n + v + 3 \/ i \in n + 3 .. n + v + 2
        BY <1>3
      <4>3. QED
        BY <4>1, <4>2
    <3>2. QED
      BY <1>3, <1>8, <3>1, Signs
  <2>3. \A i \in 1 .. Len(l) - 1 : l[i] # LF
    BY <1>7, <2>1, <2>2
  <2>4. QED
    BY <1>5, <2>1, <2>3 DEF IsLine
<1>10. Find(w, ":") = n + 1
  <2>1. PICK c : c = n + 1
    OBVIOUS
  <2>2. Len(w) \in Nat /\ 1 \in Nat \ {0} /\ c \in 1 .. Len(w) /\ c - 1 = n
    BY <1>3, <1>7, <2>1
  <2>3. w[c] = ":" /\ \A i \in 1 .. c - 1 : w[i] # ":"
    BY <1>3, <1>8, <2>1, <2>2
  <2>4. FindFrom(w, ":", 1) = c
    BY <2>2, <2>3, FindsAt, Zenon
  <2>5. QED
    BY <2>1, <2>4 DEF Find
<1>11. SelectInSubSeq(w, n + 2, n + v + 3, LAMBDA x : x # SP) = n + 3
  <2>1. w[n + 3] # SP
    <3>1. CASE v = 0
      <4>1. n + v + 3 = n + 3
        BY <1>3, <3>1
      <4>2. QED
        BY <1>8, <4>1, Signs
    <3>2. CASE v # 0
      <4>1. 1 \in 1 .. v /\ n + 2 + 1 = n + 3
        BY <1>3, <3>2
      <4>2. QED
        BY <1>4, <1>8, <3>2, <4>1
    <3>3. QED
      BY <3>1, <3>2
  <2>2. PICK from, to : from = n + 2 /\ to = n + v + 3
    OBVIOUS
  <2>3. from \in Nat \ {0} /\ to \in Nat /\ from + 1 <= to /\ from + 1 = n + 3
    BY <1>3, <2>2
  <2>4. w[from] = SP /\ w[from + 1] # SP
    BY <1>8, <2>1, <2>2, <2>3
  <2>5. SelectInSubSeq(w, from, to, LAMBDA x : x # SP) = from + 1
    BY <2>3, <2>4, FirstOther
  <2>6. QED
    BY <2>2, <2>3, <2>5
<1>12. SubSeq(w, 1, n) = name
  <2>1. 0 \in Nat /\ 0 + n = n /\ 0 + 1 = 1 /\ 0 + n <= Len(w) /\ \A i \in 1 .. n : 0 + i = i
    BY <1>3, <1>7
  <2>2. \A i \in 1 .. n : w[0 + i] = name[i]
    BY <1>8, <2>1
  <2>3. SubSeq(w, 0 + 1, 0 + n) = name
    BY <1>2, <1>3, <1>7, <2>1, <2>2, PartIs
  <2>4. QED
    BY <2>1, <2>3
<1>13. SubSeq(w, n + 3, n + v + 2) = value
  <2>1. n + 2 \in Nat /\ (n + 2) + v = n + v + 2 /\ (n + 2) + 1 = n + 3 /\ (n + 2) + v <= Len(w)
    BY <1>3, <1>7
  <2>2. SubSeq(w, (n + 2) + 1, (n + 2) + v) = value
    BY <1>2, <1>3, <1>7, <1>8, <2>1, PartIs
  <2>3. QED
    BY <2>1, <2>2
<1>14. Has(w, ":")
  BY <1>3, <1>10 DEF Has
<1>15. FieldLine(w) = {<<name, value>>}
  <2>1. PICK c : c = n + 1
    OBVIOUS
  <2>2. PICK s : s = n + 3
    OBVIOUS
  <2>3. PICK m : m = n + v + 3
    OBVIOUS
  <2>4. c + 1 = n + 2 /\ c # m /\ c # 0 /\ c - 1 = n /\ s # 0 /\ m - 1 = n + v + 2
    BY <1>3, <2>1, <2>2, <2>3
  <2>5. Len(w) = m /\ Find(w, ":") = c
    BY <1>7, <1>10, <2>1, <2>3
  <2>6. SelectInSubSeq(w, c + 1, m, LAMBDA x : x # SP) = s
    BY <1>11, <2>2, <2>3, <2>4
  <2>7. Before(w, c) = name
    BY <1>12, <2>4 DEF Before
  <2>8. Value(w, s) = value
    BY <1>13, <2>2, <2>4, <2>5 DEF Value
  <2>9. QED
    BY <2>4, <2>5, <2>6, <2>7, <2>8, Zenon DEF FieldLine
<1>16. QED
  BY <1>4, <1>6, <1>9, <1>14, <1>15, Zenon DEF HoldsField

(* The lines of a header.                                                  *)
FieldTextsOf(listed) == [k \in DOMAIN listed |-> FieldOfHeader(listed[k])]

(* The line of a field holds it.                                           *)
LEMMA FieldOfHeaderHolds ==
    ASSUME NEW f, SoundField(f)
    PROVE  FieldOfHeader(f) \in Seq(Sign) /\ HoldsField(FieldOfHeader(f), f)
<1>1. f[1] \in Seq(Sign) /\ f[2] \in Seq(Sign)
  <2>1. Without({":", LF}, f[1]) /\ Without({LF}, f[2])
    BY DEF SoundField
  <2>2. QED
    BY <2>1, WithoutAny, Zenon
<1>2. IsFieldLine(FieldOfHeader(f), f[1], f[2])
  BY <1>1, FieldLineIs, Zenon DEF FieldOfHeader
<1>3. HoldsField(FieldOfHeader(f), f)
  BY <1>2, FieldLineRead, Zenon
<1>4. QED
  BY <1>2, <1>3 DEF IsFieldLine

(* The text of a header is its lines, and line k holds field k.            *)
LEMMA FieldsAre ==
    ASSUME NEW listed, SoundHeader(listed)
    PROVE  /\ Fields(listed) = FlattenSeq(FieldTextsOf(listed))
           /\ FieldTextsOf(listed) \in Seq(Seq(Sign))
           /\ Len(listed) \in Nat /\ Len(FieldTextsOf(listed)) = Len(listed)
           /\ \A k \in 1 .. Len(listed) : HoldsField(FieldTextsOf(listed)[k], listed[k])
<1>1. PICK n : n = Len(listed)
  OBVIOUS
<1>2. n \in Nat /\ DOMAIN listed = 1 .. n /\ \A k \in 1 .. n : SoundField(listed[k])
  BY <1>1 DEF SoundHeader
<1>3. PICK t : t = [k \in 1 .. n |-> FieldOfHeader(listed[k])]
  OBVIOUS
<1>4. FieldTextsOf(listed) = t
  BY <1>2, <1>3, Zenon DEF FieldTextsOf
<1>5. \A k \in 1 .. n : FieldOfHeader(listed[k]) \in Seq(Sign) /\ HoldsField(FieldOfHeader(listed[k]), listed[k])
  BY <1>2, FieldOfHeaderHolds, Zenon
<1>6. t \in [1 .. n -> Seq(Sign)]
  BY <1>3, <1>5, Zenon
<1>7. t \in Seq(Seq(Sign)) /\ Len(t) = n
  BY <1>2, <1>6
<1>8. \A k \in 1 .. n : HoldsField(t[k], listed[k])
  BY <1>3, <1>5, Zenon
<1>9. Fields(listed) = FlattenSeq(t)
  BY <1>2, <1>3, Zenon DEF Fields, FieldOfHeader
<1>10. QED
  BY <1>1, <1>2, <1>4, <1>7, <1>8, <1>9

(* x is a first line and a line for each field.                            *)
HasFields(x, at, seqs, lead, fields) ==
    /\ seqs \in Seq(Seq(Sign)) /\ Len(fields) \in Nat /\ Len(seqs) = Len(fields) + 1
    /\ IsJoined(x, at, Sign, seqs, Len(fields) + 1)
    /\ seqs[1] = lead
    /\ \A k \in 1 .. Len(fields) : HoldsField(seqs[k + 1], fields[k])

(* A first line and the text of a header is.                               *)
LEMMA LeadAndFields ==
    ASSUME NEW lead \in Seq(Sign), NEW listed, SoundHeader(listed)
    PROVE  \E at, seqs : HasFields(lead \o Fields(listed), at, seqs, lead, listed)
<1>1. PICK n, t : n = Len(listed) /\ t = FieldTextsOf(listed)
  OBVIOUS
<1>2. /\ Fields(listed) = FlattenSeq(t) /\ t \in Seq(Seq(Sign)) /\ n \in Nat /\ Len(t) = n
      /\ \A k \in 1 .. n : HoldsField(t[k], listed[k])
  BY <1>1, FieldsAre
<1>3. PICK at : IsJoined(Fields(listed), at, Sign, t, n)
  BY <1>2, Joined
<1>4. PICK seqs : seqs = <<lead>> \o t
  OBVIOUS
<1>5. PICK to : IsJoined(lead \o Fields(listed), to, Sign, seqs, n + 1)
  BY <1>2, <1>3, <1>4, JoinedBefore, Zenon
<1>6. /\ seqs \in Seq(Seq(Sign)) /\ Len(seqs) = n + 1 /\ seqs[1] = lead
      /\ \A k \in 1 .. n : seqs[k + 1] = t[k]
  <2>1. PICK u : u = <<lead>>
    OBVIOUS
  <2>2. u \in Seq(Seq(Sign)) /\ Len(u) = 1 /\ u[1] = lead
    BY <2>1
  <2>3. IsConcat(seqs, Seq(Sign), u, t)
    BY <1>2, <1>4, <2>1, <2>2, Concatenated, Zenon
  <2>4. /\ seqs \in Seq(Seq(Sign)) /\ Len(seqs) = 1 + n
        /\ \A i \in 1 .. 1 : seqs[i] = u[i]
        /\ \A i \in 1 .. n : seqs[1 + i] = t[i]
    BY <1>2, <2>2, <2>3 DEF IsConcat
  <2>5. \A k \in 1 .. n : 1 + k = k + 1
    OBVIOUS
  <2>6. QED
    BY <1>2, <2>2, <2>4, <2>5
<1>7. \A k \in 1 .. n : HoldsField(seqs[k + 1], listed[k])
  BY <1>2, <1>6
<1>8. QED
  BY <1>1, <1>2, <1>5, <1>6, <1>7, Zenon DEF HasFields

(* The same with another field after them.                                 *)
LEMMA OneMoreField ==
    ASSUME NEW x, NEW at, NEW seqs, NEW lead, NEW fields, HasFields(x, at, seqs, lead, fields),
           NEW f, SoundField(f), NEW s, s = FieldOfHeader(f), NEW more, more = Append(fields, f),
           fields \in Seq(Seq(STRING) \X Seq(STRING))
    PROVE  \E to, all : HasFields(x \o s, to, all, lead, more)
<1>1. PICK n : n = Len(fields)
  OBVIOUS
<1>2. /\ seqs \in Seq(Seq(Sign)) /\ n \in Nat /\ Len(seqs) = n + 1
      /\ IsJoined(x, at, Sign, seqs, n + 1) /\ seqs[1] = lead
      /\ \A k \in 1 .. n : HoldsField(seqs[k + 1], fields[k])
  BY <1>1 DEF HasFields
<1>3. s \in Seq(Sign) /\ HoldsField(s, f)
  BY FieldOfHeaderHolds
<1>4. PICK all : all = Append(seqs, s)
  OBVIOUS
<1>5. PICK m : m = n + 1
  OBVIOUS
<1>6. m = Len(seqs) /\ IsJoined(x, at, Sign, seqs, m)
  BY <1>2, <1>5
<1>7. PICK to : IsJoined(x \o s, to, Sign, all, m + 1)
  BY <1>2, <1>3, <1>4, <1>6, JoinedAfter, Zenon
<1>8. /\ all \in Seq(Seq(Sign)) /\ Len(all) = m + 1 /\ all[m + 1] = s
      /\ \A k \in 1 .. m : all[k] = seqs[k]
  BY <1>2, <1>3, <1>4, <1>5
<1>9. Len(more) = m /\ more[m] = f /\ \A k \in 1 .. n : more[k] = fields[k]
  BY <1>1, <1>2, <1>5
<1>10. all[1] = lead
  <2>1. 1 \in 1 .. m
    BY <1>2, <1>5
  <2>2. QED
    BY <1>2, <1>8, <2>1
<1>11. ASSUME NEW k \in 1 .. m PROVE HoldsField(all[k + 1], more[k])
  <2>1. CASE k = m
    BY <1>3, <1>8, <1>9, <2>1
  <2>2. CASE k # m
    <3>1. k \in 1 .. n /\ k + 1 \in 1 .. m
      BY <1>2, <1>5, <2>2
    <3>2. all[k + 1] = seqs[k + 1] /\ more[k] = fields[k]
      BY <1>8, <1>9, <3>1
    <3>3. QED
      BY <1>2, <3>1, <3>2
  <2>3. QED
    BY <2>1, <2>2
<1>12. m \in Nat
  BY <1>2, <1>5
<1>13. QED
  BY <1>7, <1>8, <1>9, <1>10, <1>11, <1>12, Zenon DEF HasFields

(* x is a first line, a line for each field and an empty line.             *)
IsMessage(x, at, lines, lead, fields) ==
    /\ lines \in Seq(Seq(Sign)) /\ Len(fields) \in Nat /\ Len(lines) = Len(fields) + 2
    /\ IsJoined(x, at, Sign, lines, Len(fields) + 2)
    /\ lines[1] = lead /\ lines[Len(fields) + 2] = <<CR, LF>>
    /\ \A k \in 1 .. Len(fields) : HoldsField(lines[k + 1], fields[k])

(* A first line, its fields and an empty line is.                          *)
LEMMA MessageEnds ==
    ASSUME NEW x, NEW at, NEW seqs, NEW lead, NEW fields, HasFields(x, at, seqs, lead, fields)
    PROVE  \E to, lines : IsMessage(x \o <<CR, LF>>, to, lines, lead, fields)
<1>1. PICK n : n = Len(fields)
  OBVIOUS
<1>2. /\ seqs \in Seq(Seq(Sign)) /\ n \in Nat /\ Len(seqs) = n + 1
      /\ IsJoined(x, at, Sign, seqs, n + 1) /\ seqs[1] = lead
      /\ \A k \in 1 .. n : HoldsField(seqs[k + 1], fields[k])
  BY <1>1 DEF HasFields
<1>3. PICK s : s = <<CR, LF>>
  OBVIOUS
<1>4. s \in Seq(Sign)
  BY <1>3, SignsAre
<1>5. PICK lines : lines = Append(seqs, s)
  OBVIOUS
<1>6. PICK m : m = n + 1
  OBVIOUS
<1>7. m = Len(seqs) /\ IsJoined(x, at, Sign, seqs, m)
  BY <1>2, <1>6
<1>8. PICK to : IsJoined(x \o s, to, Sign, lines, m + 1)
  BY <1>2, <1>4, <1>5, <1>7, JoinedAfter, Zenon
<1>9. /\ lines \in Seq(Seq(Sign)) /\ Len(lines) = m + 1 /\ lines[m + 1] = s
      /\ \A k \in 1 .. m : lines[k] = seqs[k]
  BY <1>2, <1>4, <1>5, <1>6
<1>10. lines[1] = lead /\ m + 1 = n + 2
  <2>1. 1 \in 1 .. m /\ m + 1 = n + 2
    BY <1>2, <1>6
  <2>2. QED
    BY <1>2, <1>9, <2>1
<1>11. ASSUME NEW k \in 1 .. n PROVE HoldsField(lines[k + 1], fields[k])
  <2>1. k + 1 \in 1 .. m
    BY <1>2, <1>6
  <2>2. QED
    BY <1>2, <1>9, <2>1
<1>12. QED
  BY <1>1, <1>2, <1>3, <1>8, <1>9, <1>10, <1>11, Zenon DEF IsMessage

-----------------------------------------------------------------------------
(* The first line of a request, and the beginnings of one.                 *)

(* u begins with t.                                                        *)
Starts(t, u) == Len(t) <= Len(u) /\ \A i \in 1 .. Len(t) : u[i] = t[i]

(* u is t and then s.                                                      *)
Grown(u, t, s) ==
    u \in Seq(Sign) /\ Len(u) = Len(t) + Len(s) /\ Starts(t, u) /\ Stands(u, Len(t), s)

(* t \o s is.                                                              *)
LEMMA Grows ==
    ASSUME NEW t \in Seq(Sign), NEW s \in Seq(Sign), NEW u, u = t \o s
    PROVE  Grown(u, t, s)
<1>1. IsConcat(u, Sign, t, s)
  BY Concatenated, Zenon
<1>2. PICK n, m : n = Len(t) /\ m = Len(s)
  OBVIOUS
<1>3. n \in Nat /\ m \in Nat
  BY <1>2
<1>4. /\ u \in Seq(Sign) /\ Len(u) = n + m
      /\ \A i \in 1 .. n : u[i] = t[i]
      /\ \A i \in 1 .. m : u[n + i] = s[i]
  BY <1>1, <1>2, Zenon DEF IsConcat
<1>5. Starts(t, u)
  BY <1>2, <1>3, <1>4 DEF Starts
<1>6. Stands(u, n, s)
  BY <1>2, <1>3, <1>4 DEF Stands
<1>7. QED
  BY <1>2, <1>4, <1>5, <1>6 DEF Grown

(* A beginning of a beginning is a beginning.                              *)
LEMMA StartsOn ==
    ASSUME NEW t, Len(t) \in Nat, NEW u, Len(u) \in Nat, NEW w, Len(w) \in Nat, Starts(t, u), Starts(u, w)
    PROVE  Starts(t, w)
BY DEF Starts

(* What stands in a beginning stands in the whole.                         *)
LEMMA StandsOn ==
    ASSUME NEW t, Len(t) \in Nat, NEW u, Len(u) \in Nat, Starts(t, u),
           NEW b \in Nat, NEW x, Len(x) \in Nat, Stands(t, b, x)
    PROVE  Stands(u, b, x)
<1>1. PICK n, m, l : n = Len(t) /\ m = Len(u) /\ l = Len(x)
  OBVIOUS
<1>2. /\ n \in Nat /\ m \in Nat /\ l \in Nat /\ n <= m /\ b + l <= n
      /\ \A i \in 1 .. n : u[i] = t[i]
      /\ \A i \in 1 .. l : t[b + i] = x[i]
  BY <1>1 DEF Starts, Stands
<1>3. \A i \in 1 .. l : b + i \in 1 .. n
  BY <1>2
<1>4. b + l <= m /\ \A i \in 1 .. l : u[b + i] = x[i]
  BY <1>2, <1>3
<1>5. QED
  BY <1>1, <1>4 DEF Stands

(* The last place of a character is found.                                 *)
LEMMA LastIs ==
    ASSUME NEW s, NEW c, NEW from \in Nat \ {0}, NEW to \in Nat, NEW k \in from .. to,
           s[k] = c, \A i \in k + 1 .. to : s[i] # c
    PROVE  LastOf(s, c, from, to) = k
<1> DEFINE I == {i \in from .. to : s[i] = c}
<1>1. LastOf(s, c, from, to) = IF I # {} THEN Max(I) ELSE 0
  BY DEF LastOf, SelectLastInSubSeq
<1>2. k \in I
  OBVIOUS
<1>3. Max(I) \in I /\ \A i \in I : i <= Max(I)
  <2>1. I \in SUBSET (1 .. to)
    OBVIOUS
  <2> HIDE DEF I
  <2>2. QED
    BY <1>2, <2>1, MaxOfSome
<1>4. PICK m : m = Max(I)
  OBVIOUS
<1>5. m \in from .. to /\ s[m] = c /\ k <= m
  BY <1>2, <1>3, <1>4
<1>6. m = k
  BY <1>5
<1>7. QED
  BY <1>1, <1>2, <1>4, <1>6

(* The first line that Request::to_string writes.                          *)
RequestLead(r) ==
    r.method \o <<SP>> \o r.path \o Marked(r.query_string)
    \o <<SP, "H", "T", "T", "P", "/">> \o r.version \o <<CR, LF>>

(* l has the parts of a request in their order.                            *)
LeadParts(l, method, path_, query, version) ==
    /\ l \in Seq(Sign)
    /\ Len(l) = Len(method) + Len(path_) + Len(query) + Len(version) + 10
    /\ Stands(l, 0, method) /\ Stands(l, Len(method), <<SP>>)
    /\ Stands(l, Len(method) + 1, path_)
    /\ Stands(l, Len(method) + 1 + Len(path_), Marked(query))
    /\ Stands(l, Len(method) + 1 + Len(path_) + (1 + Len(query)), <<SP, "H", "T", "T", "P", "/">>)
    /\ Stands(l, Len(method) + 1 + Len(path_) + (1 + Len(query)) + 6, version)
    /\ Stands(l, Len(method) + 1 + Len(path_) + (1 + Len(query)) + 6 + Len(version), <<CR, LF>>)

(* The line that is written has.                                           *)
LEMMA LeadPartsAre ==
    ASSUME NEW a \in Seq(Sign), NEW b \in Seq(Sign), NEW c \in Seq(Sign), NEW v \in Seq(Sign)
    PROVE  LeadParts(a \o <<SP>> \o b \o Marked(c) \o <<SP, "H", "T", "T", "P", "/">> \o v \o <<CR, LF>>,
                     a, b, c, v)
<1>1. PICK s, h, e : s = <<SP>> /\ h = <<SP, "H", "T", "T", "P", "/">> /\ e = <<CR, LF>>
  OBVIOUS
<1>2. s \in Seq(Sign) /\ Len(s) = 1 /\ e \in Seq(Sign) /\ Len(e) = 2
  BY <1>1, SignsAre
<1>3. h \in Seq(Sign) /\ Len(h) = 6
  BY <1>1, SignsAre
<1>4. PICK q : q = Marked(c)
  OBVIOUS
<1>5. q \in Seq(Sign) /\ Len(q) = 1 + Len(c)
  <2>1. PICK z : z = <<"?">>
    OBVIOUS
  <2>2. z \in Seq(Sign) /\ Len(z) = 1
    BY <2>1, SignsAre
  <2>3. q = z \o c
    BY <1>4, <2>1 DEF Marked
  <2>4. QED
    <3>1. Grown(q, z, c)
      BY <2>2, <2>3, Grows, Zenon
    <3>2. QED
      BY <2>2, <3>1 DEF Grown
<1>6. PICK u1 : u1 = a \o s
  OBVIOUS
<1>7. u1 \in Seq(Sign) /\ Len(u1) = Len(a) + 1 /\ Starts(a, u1) /\ Stands(u1, Len(a), s)
  <2>1. Grown(u1, a, s)
    BY <1>2, <1>6, Grows, Zenon
  <2>2. QED
    BY <1>2, <1>6, <2>1 DEF Grown
<1>8. PICK u2 : u2 = u1 \o b
  OBVIOUS
<1>9. u2 \in Seq(Sign) /\ Len(u2) = Len(u1) + Len(b) /\ Starts(u1, u2) /\ Stands(u2, Len(u1), b)
  <2>1. Grown(u2, u1, b)
    BY <1>7, <1>8, Grows, Zenon
  <2>2. QED
    BY <1>7, <1>8, <2>1 DEF Grown
<1>10. PICK u3 : u3 = u2 \o q
  OBVIOUS
<1>11. u3 \in Seq(Sign) /\ Len(u3) = Len(u2) + Len(q) /\ Starts(u2, u3) /\ Stands(u3, Len(u2), q)
  <2>1. Grown(u3, u2, q)
    BY <1>5, <1>9, <1>10, Grows, Zenon
  <2>2. QED
    BY <1>5, <1>9, <1>10, <2>1 DEF Grown
<1>12. PICK u4 : u4 = u3 \o h
  OBVIOUS
<1>13. u4 \in Seq(Sign) /\ Len(u4) = Len(u3) + 6 /\ Starts(u3, u4) /\ Stands(u4, Len(u3), h)
  <2>1. Grown(u4, u3, h)
    BY <1>3, <1>11, <1>12, Grows, Zenon
  <2>2. QED
    BY <1>3, <1>11, <1>12, <2>1 DEF Grown
<1>14. PICK u5 : u5 = u4 \o v
  OBVIOUS
<1>15. u5 \in Seq(Sign) /\ Len(u5) = Len(u4) + Len(v) /\ Starts(u4, u5) /\ Stands(u5, Len(u4), v)
  <2>1. Grown(u5, u4, v)
    BY <1>13, <1>14, Grows, Zenon
  <2>2. QED
    BY <1>13, <1>14, <2>1 DEF Grown
<1>16. PICK l : l = u5 \o e
  OBVIOUS
<1>17. l \in Seq(Sign) /\ Len(l) = Len(u5) + 2 /\ Starts(u5, l) /\ Stands(l, Len(u5), e)
  <2>1. Grown(l, u5, e)
    BY <1>2, <1>15, <1>16, Grows, Zenon
  <2>2. QED
    BY <1>2, <1>15, <1>16, <2>1 DEF Grown
<1>18. /\ Len(a) \in Nat /\ Len(b) \in Nat /\ Len(c) \in Nat /\ Len(v) \in Nat
       /\ Len(u1) \in Nat /\ Len(u2) \in Nat /\ Len(u3) \in Nat /\ Len(u4) \in Nat /\ Len(u5) \in Nat
       /\ Len(l) \in Nat /\ Len(s) \in Nat /\ Len(h) \in Nat /\ Len(q) \in Nat
  <2>1. \A w \in Seq(Sign) : Len(w) \in Nat
    OBVIOUS
  <2>2. QED
    BY <1>2, <1>3, <1>5, <1>7, <1>9, <1>11, <1>13, <1>15, <1>17, <2>1, Zenon
<1>19. Starts(u4, l)
  BY <1>15, <1>17, <1>18, StartsOn, Zenon
<1>20. Starts(u3, l)
  BY <1>13, <1>18, <1>19, StartsOn, Zenon
<1>21. Starts(u2, l)
  BY <1>11, <1>18, <1>20, StartsOn, Zenon
<1>22. Starts(u1, l)
  BY <1>9, <1>18, <1>21, StartsOn, Zenon
<1>23. Starts(a, l)
  BY <1>7, <1>18, <1>22, StartsOn, Zenon
<1>24. Stands(l, 0, a)
  BY <1>18, <1>23 DEF Starts, Stands
<1>25. Stands(l, Len(a), s)
  BY <1>7, <1>18, <1>22, StandsOn, Zenon
<1>26. Stands(l, Len(u1), b)
  BY <1>9, <1>18, <1>21, StandsOn, Zenon
<1>27. Stands(l, Len(u2), q)
  BY <1>11, <1>18, <1>20, StandsOn, Zenon
<1>28. Stands(l, Len(u3), h)
  BY <1>13, <1>18, <1>19, StandsOn, Zenon
<1>29. Stands(l, Len(u4), v)
  BY <1>15, <1>17, <1>18, StandsOn, Zenon
<1>30. Len(l) = Len(a) + Len(b) + Len(c) + Len(v) + 10
  BY <1>5, <1>7, <1>9, <1>11, <1>13, <1>15, <1>17, <1>18
<1>31. LeadParts(l, a, b, c, v)
  BY <1>1, <1>4, <1>5, <1>7, <1>9, <1>11, <1>13, <1>15, <1>17, <1>24, <1>25, <1>26, <1>27, <1>28, <1>29,
     <1>30, Zenon DEF LeadParts
<1>32. l = a \o <<SP>> \o b \o Marked(c) \o <<SP, "H", "T", "T", "P", "/">> \o v \o <<CR, LF>>
  BY <1>1, <1>4, <1>6, <1>8, <1>10, <1>12, <1>14, <1>16, Zenon
<1>33. QED
  BY <1>31, <1>32, Zenon

(* The same with the places m, q and e where a space, the question mark    *)
(* and the next space stand.                                               *)
LeadAt(l, a, b, c, v, m, q, e) ==
    /\ l \in Seq(Sign) /\ m = Len(a) + 1 /\ q = m + Len(b) + 1 /\ e = q + Len(c) + 1
    /\ Len(l) = e + Len(v) + 7
    /\ \A i \in 1 .. Len(a) : l[i] = a[i]
    /\ l[m] = SP /\ l[q] = "?" /\ l[e] = SP
    /\ \A i \in 1 .. Len(b) : l[m + i] = b[i]
    /\ \A i \in 1 .. Len(c) : l[q + i] = c[i]
    /\ l[e + 1] = "H" /\ l[e + 2] = "T" /\ l[e + 3] = "T" /\ l[e + 4] = "P" /\ l[e + 5] = "/"
    /\ \A i \in 1 .. Len(v) : l[e + 5 + i] = v[i]
    /\ l[e + Len(v) + 6] = CR /\ l[e + Len(v) + 7] = LF

(* There are such places.                                                  *)
LEMMA LeadPositions ==
    ASSUME NEW a \in Seq(Sign), NEW b \in Seq(Sign), NEW c \in Seq(Sign), NEW v \in Seq(Sign),
           NEW l, LeadParts(l, a, b, c, v)
    PROVE  \E m, q, e : LeadAt(l, a, b, c, v, m, q, e)
<1>1. PICK na, nb, nc, nv : na = Len(a) /\ nb = Len(b) /\ nc = Len(c) /\ nv = Len(v)
  OBVIOUS
<1>2. na \in Nat /\ nb \in Nat /\ nc \in Nat /\ nv \in Nat
  BY <1>1
<1>3. PICK s, h, z, w : s = <<SP>> /\ h = <<SP, "H", "T", "T", "P", "/">> /\ z = <<CR, LF>> /\ w = Marked(c)
  OBVIOUS
<1>4. /\ l \in Seq(Sign) /\ Len(l) = na + nb + nc + nv + 10
      /\ Stands(l, 0, a) /\ Stands(l, na, s) /\ Stands(l, na + 1, b) /\ Stands(l, na + 1 + nb, w)
      /\ Stands(l, na + 1 + nb + (1 + nc), h) /\ Stands(l, na + 1 + nb + (1 + nc) + 6, v)
      /\ Stands(l, na + 1 + nb + (1 + nc) + 6 + nv, z)
  BY <1>1, <1>3, Zenon DEF LeadParts
<1>5. PICK m, q, e : m = na + 1 /\ q = na + nb + 2 /\ e = na + nb + nc + 3
  OBVIOUS
<1>6. /\ m \in Nat /\ q \in Nat /\ e \in Nat /\ m = na + 1 /\ q = m + nb + 1 /\ e = q + nc + 1
      /\ na + nb + nc + nv + 10 = e + nv + 7 /\ na + 1 + nb + (1 + nc) = e - 1
      /\ na + 1 + nb = q - 1 /\ na = m - 1
  BY <1>2, <1>5
<1>7. \A i \in 1 .. na : l[i] = a[i]
  <2>1. \A i \in 1 .. na : 0 + i = i
    OBVIOUS
  <2>2. QED
    BY <1>1, <1>4, <2>1 DEF Stands
<1>8. l[m] = SP
  <2>1. Len(s) = 1 /\ s[1] = SP
    BY <1>3
  <2>2. l[na + 1] = s[1]
    BY <1>4, <2>1 DEF Stands
  <2>3. QED
    BY <1>5, <2>1, <2>2
<1>9. \A i \in 1 .. nb : l[m + i] = b[i]
  BY <1>1, <1>4, <1>5, Zenon DEF Stands
<1>10. l[q] = "?" /\ \A i \in 1 .. nc : l[q + i] = c[i]
  <2>1. PICK x : x = <<"?">>
    OBVIOUS
  <2>2. x \in Seq(Sign) /\ Len(x) = 1 /\ x[1] = "?"
    BY <2>1, SignsAre
  <2>3. IsConcat(w, Sign, x, c)
    BY <1>3, <2>1, <2>2, Concatenated, Zenon DEF Marked
  <2>4. /\ Len(w) = 1 + nc /\ \A i \in 1 .. 1 : w[i] = x[i]
        /\ \A i \in 1 .. nc : w[1 + i] = c[i]
    BY <1>1, <2>2, <2>3 DEF IsConcat
  <2>5. \A i \in 1 .. 1 + nc : l[(q - 1) + i] = w[i]
    BY <1>4, <1>6, <2>4 DEF Stands
  <2>6. 1 \in 1 .. 1 + nc /\ (q - 1) + 1 = q
    BY <1>2, <1>6
  <2>7. \A i \in 1 .. nc : 1 + i \in 1 .. 1 + nc /\ (q - 1) + (1 + i) = q + i
    BY <1>2, <1>6
  <2>8. l[q] = "?"
    BY <2>2, <2>4, <2>5, <2>6
  <2>9. QED
    BY <2>4, <2>5, <2>7, <2>8
<1>11. /\ l[e] = SP /\ l[e + 1] = "H" /\ l[e + 2] = "T" /\ l[e + 3] = "T" /\ l[e + 4] = "P"
       /\ l[e + 5] = "/"
  <2>1. /\ Len(h) = 6 /\ h[1] = SP /\ h[2] = "H" /\ h[3] = "T" /\ h[4] = "T" /\ h[5] = "P" /\ h[6] = "/"
    BY <1>3
  <2>2. \A i \in 1 .. 6 : l[(e - 1) + i] = h[i]
    <3>1. PICK g : g = e - 1
      OBVIOUS
    <3>2. Stands(l, g, h)
      BY <1>4, <1>6, <3>1
    <3>3. QED
      BY <2>1, <3>1, <3>2 DEF Stands
  <2>3. /\ (e - 1) + 1 = e /\ (e - 1) + 2 = e + 1 /\ (e - 1) + 3 = e + 2 /\ (e - 1) + 4 = e + 3
        /\ (e - 1) + 5 = e + 4 /\ (e - 1) + 6 = e + 5
    <3>1. e \in Nat
      BY <1>6
    <3>2. QED
      BY <3>1
  <2>4. /\ l[(e - 1) + 1] = h[1] /\ l[(e - 1) + 2] = h[2] /\ l[(e - 1) + 3] = h[3]
        /\ l[(e - 1) + 4] = h[4] /\ l[(e - 1) + 5] = h[5] /\ l[(e - 1) + 6] = h[6]
    <3>1. 1 \in 1 .. 6 /\ 2 \in 1 .. 6 /\ 3 \in 1 .. 6 /\ 4 \in 1 .. 6 /\ 5 \in 1 .. 6 /\ 6 \in 1 .. 6
      OBVIOUS
    <3>2. QED
      BY <2>2, <3>1, Zenon
  <2>5. QED
    BY <2>1, <2>3, <2>4
<1>12. \A i \in 1 .. nv : l[e + 5 + i] = v[i]
  <2>1. (e - 1) + 6 = e + 5
    BY <1>6
  <2>2. Stands(l, e + 5, v)
    BY <1>4, <1>6, <2>1
  <2>3. QED
    BY <1>1, <2>2, Zenon DEF Stands
<1>13. l[e + nv + 6] = CR /\ l[e + nv + 7] = LF
  <2>1. (e - 1) + 6 + nv + 1 = e + nv + 6 /\ (e - 1) + 6 + nv + 2 = e + nv + 7
    BY <1>2, <1>6
  <2>2. Len(z) = 2 /\ z[1] = CR /\ z[2] = LF
    BY <1>3
  <2>3. l[(e - 1) + 6 + nv + 1] = z[1] /\ l[(e - 1) + 6 + nv + 2] = z[2]
    <3>1. PICK g : g = (e - 1) + 6 + nv
      OBVIOUS
    <3>2. Stands(l, g, z)
      BY <1>4, <1>6, <3>1
    <3>3. \A i \in 1 .. 2 : l[g + i] = z[i]
      BY <2>2, <3>2 DEF Stands
    <3>4. QED
      BY <3>1, <3>3
  <2>4. QED
    BY <2>1, <2>2, <2>3
<1>14. LeadAt(l, a, b, c, v, m, q, e)
  BY <1>1, <1>4, <1>6, <1>7, <1>8, <1>9, <1>10, <1>11, <1>12, <1>13, Zenon DEF LeadAt
<1>15. QED
  BY <1>14

(* No part has a character that ends it.                                   *)
LeadWords(r) ==
    /\ r.method \in Seq(Sign) /\ r.path \in Seq(Sign) /\ r.query_string \in Seq(Sign)
    /\ r.version \in Seq(Sign)
    /\ \A i \in 1 .. Len(r.method) : r.method[i] \notin {SP, LF}
    /\ \A i \in 1 .. Len(r.path) : r.path[i] \notin {SP, LF}
    /\ \A i \in 1 .. Len(r.query_string) : r.query_string[i] \notin {SP, "?", LF}
    /\ \A i \in 1 .. Len(r.version) : r.version[i] # LF

(* So it is in a request of MessagesAssumption.                            *)
LEMMA RequestWords == ASSUME NEW r, SoundRequest(r) PROVE LeadWords(r)
<1>1. /\ Without({SP, LF}, r.method) /\ Without({SP, LF}, r.path)
      /\ Without({SP, "?", LF}, r.query_string) /\ Without({LF}, r.version)
  BY DEF SoundRequest
<1>2. r.method \in Seq(Sign) /\ \A i \in 1 .. Len(r.method) : r.method[i] \notin {SP, LF}
  BY <1>1, WithoutAny, Zenon
<1>3. r.path \in Seq(Sign) /\ \A i \in 1 .. Len(r.path) : r.path[i] \notin {SP, LF}
  BY <1>1, WithoutAny, Zenon
<1>4. /\ r.query_string \in Seq(Sign)
      /\ \A i \in 1 .. Len(r.query_string) : r.query_string[i] \notin {SP, "?", LF}
  BY <1>1, WithoutAny, Zenon
<1>5. r.version \in Seq(Sign) /\ \A i \in 1 .. Len(r.version) : r.version[i] \notin {LF}
  BY <1>1, WithoutAny, Zenon
<1>6. QED
  BY <1>2, <1>3, <1>4, <1>5 DEF LeadWords

(* l is the line of r, with these places.                                  *)
LeadOf(r, l, m, q, e) ==
    LeadWords(r) /\ LeadAt(l, r.method, r.path, r.query_string, r.version, m, q, e)

(* What parse finds in u: the method, the path and the query of r.         *)
PathIs(r, u, m, q, e) ==
    /\ m \in Nat \ {0} /\ q \in m + 1 .. e - 1 /\ e \in Nat
    /\ Find(u, SP) = m /\ FindFrom(u, SP, m + 1) = e /\ LastOf(u, "?", m + 1, e - 1) = q
    /\ Before(u, m) = r.method /\ SubSeq(u, m + 1, q - 1) = r.path
    /\ SubSeq(u, q + 1, e - 1) = r.query_string

(* It finds them in a beginning of the line that goes as far as the second *)
(* space.                                                                  *)
LEMMA PathRead ==
    ASSUME NEW r, NEW l, NEW m, NEW q, NEW e, LeadOf(r, l, m, q, e),
           NEW u \in Seq(Sign), Starts(u, l), e <= Len(u)
    PROVE  PathIs(r, u, m, q, e)
<1>1. PICK a, b, c : a = r.method /\ b = r.path /\ c = r.query_string
  OBVIOUS
<1>2. PICK na, nb, nc : na = Len(a) /\ nb = Len(b) /\ nc = Len(c)
  OBVIOUS
<1>3. /\ a \in Seq(Sign) /\ na \in Nat /\ \A i \in 1 .. na : a[i] # SP
      /\ b \in Seq(Sign) /\ nb \in Nat /\ \A i \in 1 .. nb : b[i] # SP
      /\ c \in Seq(Sign) /\ nc \in Nat /\ \A i \in 1 .. nc : c[i] # SP /\ c[i] # "?"
  BY <1>1, <1>2 DEF LeadWords, LeadOf
<1>4. PICK n : n = Len(u)
  OBVIOUS
<1>5. n \in Nat /\ e <= n /\ \A i \in 1 .. n : u[i] = l[i]
  BY <1>4 DEF Starts
<1>6. /\ m = na + 1 /\ q = m + nb + 1 /\ e = q + nc + 1
      /\ \A i \in 1 .. na : l[i] = a[i]
      /\ l[m] = SP /\ l[q] = "?" /\ l[e] = SP
      /\ \A i \in 1 .. nb : l[m + i] = b[i]
      /\ \A i \in 1 .. nc : l[q + i] = c[i]
  BY <1>1, <1>2, Zenon DEF LeadAt, LeadOf
<1>7. /\ na \in Nat /\ nb \in Nat /\ nc \in Nat /\ n \in Nat /\ e <= n
      /\ m = na + 1 /\ q = m + nb + 1 /\ e = q + nc + 1
  BY <1>3, <1>5, <1>6
<1>8. /\ m \in Nat \ {0} /\ q \in m + 1 .. e - 1 /\ e \in Nat /\ m - 1 = na /\ q - 1 = m + nb /\ e - 1 = q + nc
      /\ m \in 1 .. n /\ q \in 1 .. n /\ e \in 1 .. n /\ m + 1 \in Nat \ {0} /\ e \in m + 1 .. n
  BY <1>7
<1>9. /\ \A i \in 1 .. na : u[i] = a[i]
      /\ u[m] = SP /\ u[q] = "?" /\ u[e] = SP
      /\ \A i \in 1 .. nb : u[m + i] = b[i]
      /\ \A i \in 1 .. nc : u[q + i] = c[i]
  <2>1. /\ \A i \in 1 .. na : i \in 1 .. n
        /\ \A i \in 1 .. nb : m + i \in 1 .. n
        /\ \A i \in 1 .. nc : q + i \in 1 .. n
    BY <1>7
  <2>2. QED
    BY <1>5, <1>6, <1>8, <2>1
<1>10. Find(u, SP) = m
  <2>1. \A i \in 1 .. m - 1 : u[i] # SP
    BY <1>3, <1>8, <1>9
  <2>2. 1 \in Nat \ {0} /\ Len(u) \in Nat /\ m \in 1 .. Len(u)
    BY <1>4, <1>5, <1>8
  <2>3. FindFrom(u, SP, 1) = m
    BY <1>9, <2>1, <2>2, FindsAt, Zenon
  <2>4. QED
    BY <2>3 DEF Find
<1>11. FindFrom(u, SP, m + 1) = e
  <2>1. ASSUME NEW i \in m + 1 .. e - 1 PROVE u[i] # SP
    <3>1. \/ \E j \in 1 .. nb : i = m + j
          \/ i = q
          \/ \E j \in 1 .. nc : i = q + j
      <4>1. i \in m + 1 .. m + nb \/ i = q \/ i \in q + 1 .. q + nc
        BY <1>7
      <4>2. i \in m + 1 .. m + nb => i - m \in 1 .. nb /\ i = m + (i - m)
        BY <1>7
      <4>3. i \in q + 1 .. q + nc => i - q \in 1 .. nc /\ i = q + (i - q)
        BY <1>7
      <4>4. QED
        BY <4>1, <4>2, <4>3
    <3>2. QED
      BY <1>3, <1>9, <3>1, Signs
  <2>2. PICK from : from = m + 1
    OBVIOUS
  <2>3. from \in Nat \ {0} /\ Len(u) \in Nat /\ e \in from .. Len(u) /\ \A i \in from .. e - 1 : u[i] # SP
    BY <1>4, <1>5, <1>8, <2>1, <2>2
  <2>4. FindFrom(u, SP, from) = e
    BY <1>9, <2>3, FindsAt, Zenon
  <2>5. QED
    BY <2>2, <2>4
<1>12. LastOf(u, "?", m + 1, e - 1) = q
  <2>1. PICK from, to : from = m + 1 /\ to = e - 1
    OBVIOUS
  <2>2. from \in Nat \ {0} /\ to \in Nat /\ q \in from .. to /\ to = q + nc
    BY <1>8, <2>1
  <2>3. ASSUME NEW i \in q + 1 .. to PROVE u[i] # "?"
    <3>1. PICK j : j = i - q
      OBVIOUS
    <3>2. j \in 1 .. nc /\ i = q + j
      BY <1>3, <1>8, <2>2, <3>1
    <3>3. QED
      BY <1>3, <1>9, <3>2
  <2>4. LastOf(u, "?", from, to) = q
    <3>1. u[q] = "?" /\ q \in from .. to
      BY <1>9, <2>2
    <3>2. QED
      BY <2>2, <2>3, <3>1, LastIs
  <2>5. QED
    BY <2>1, <2>4
<1>13. Before(u, m) = a
  <2>1. 0 \in Nat /\ 0 + na = na /\ 0 + 1 = 1 /\ 0 + na <= n /\ \A i \in 1 .. na : 0 + i = i
    BY <1>7
  <2>2. \A i \in 1 .. na : u[0 + i] = a[i]
    BY <1>9, <2>1
  <2>3. SubSeq(u, 0 + 1, 0 + na) = a
    BY <1>2, <1>3, <1>4, <2>1, <2>2, PartIs
  <2>4. m # 0
    BY <1>8
  <2>5. QED
    BY <1>8, <2>1, <2>3, <2>4 DEF Before
<1>14. SubSeq(u, m + 1, q - 1) = b
  <2>1. m \in Nat /\ m + nb <= n
    BY <1>7
  <2>2. SubSeq(u, m + 1, m + nb) = b
    BY <1>2, <1>3, <1>4, <1>9, <2>1, PartIs
  <2>3. QED
    BY <1>8, <2>2
<1>15. SubSeq(u, q + 1, e - 1) = c
  <2>1. q \in Nat /\ q + nc <= n
    BY <1>7
  <2>2. SubSeq(u, q + 1, q + nc) = c
    BY <1>2, <1>3, <1>4, <1>9, <2>1, PartIs
  <2>3. QED
    BY <1>8, <2>2
<1>16. m \in Nat \ {0} /\ q \in m + 1 .. e - 1 /\ e \in Nat
  BY <1>8
<1>17. QED
  BY <1>1, <1>10, <1>11, <1>12, <1>13, <1>14, <1>15, <1>16, Zenon DEF PathIs

(* The parts of a request.                                                 *)
RequestParts(a, b, c, v) ==
    [NoParts EXCEPT !.method = a, !.path = b, !.query_string = c, !.version = v]

(* Three of them.                                                          *)
LEMMA RequestPartsAre ==
    ASSUME NEW a, NEW b, NEW c, NEW v
    PROVE  /\ RequestParts(a, b, c, v).method = a /\ RequestParts(a, b, c, v).path = b
           /\ RequestParts(a, b, c, v).query_string = c
BY DEF RequestParts, NoParts

(* The places RequestLine looks for.                                       *)
LineMarks(u, m, e, q, p, b) ==
    /\ m = Find(u, SP) /\ e = FindFrom(u, SP, m + 1) /\ q = LastOf(u, "?", m + 1, e - 1)
    /\ p = FindFrom(u, "/", e + 1) /\ b = IF q = 0 THEN e - 1 ELSE q - 1

(* What it returns.                                                        *)
ParsedLine(u, m, e, q, p, b) ==
    IF m = 0 \/ e = 0 \/ p = 0 \/ SubSeq(u, e + 1, p - 1) # <<"H", "T", "T", "P">> THEN Failed
    ELSE [ok |-> TRUE,
          parts |-> RequestParts(Before(u, m), SubSeq(u, m + 1, b),
                                 IF q = 0 THEN <<>> ELSE SubSeq(u, q + 1, e - 1),
                                 SubSeq(u, p + 1, Len(u) - 1))]

(* If all are found.                                                       *)
LEMMA ParsedLineIs ==
    ASSUME NEW u, NEW m, NEW e, NEW q, NEW p, NEW b, q # 0, m # 0, e # 0, p # 0,
           SubSeq(u, e + 1, p - 1) = <<"H", "T", "T", "P">>
    PROVE  ParsedLine(u, m, e, q, p, b) =
             [ok |-> TRUE,
              parts |-> RequestParts(Before(u, m), SubSeq(u, m + 1, b), SubSeq(u, q + 1, e - 1),
                                     SubSeq(u, p + 1, Len(u) - 1))]
BY Zenon DEF ParsedLine

(* If it is no failure, they were.                                         *)
LEMMA ParsedLineFails ==
    ASSUME NEW u, NEW m, NEW e, NEW q, NEW p, NEW b, ParsedLine(u, m, e, q, p, b).ok
    PROVE  m # 0 /\ e # 0 /\ p # 0 /\ SubSeq(u, e + 1, p - 1) = <<"H", "T", "T", "P">>
<1>1. ~Failed.ok
  BY DEF Failed
<1>2. QED
  BY <1>1, Zenon DEF ParsedLine

(* RequestLine, as these two say it.                                       *)
LEMMA RequestLineIs ==
    ASSUME NEW u, NEW m, NEW e, NEW q, NEW p, NEW b, LineMarks(u, m, e, q, p, b)
    PROVE  RequestLine(u) = ParsedLine(u, m, e, q, p, b)
<1>1. q = SelectLastInSubSeq(u, m + 1, e - 1, LAMBDA x : x = "?")
  BY Zenon DEF LastOf, LineMarks
<1>2. m = Find(u, SP) /\ e = FindFrom(u, SP, m + 1) /\ p = FindFrom(u, "/", e + 1) /\ b = IF q = 0 THEN e - 1 ELSE q - 1
  BY Zenon DEF LineMarks
<1>3. QED
  BY <1>1, <1>2, Zenon DEF RequestLine, RequestParts, ParsedLine

(* A beginning of the line that is accepted goes as far as the second      *)
(* space.                                                                  *)
LEMMA FirstPart ==
    ASSUME NEW r, NEW l, NEW m, NEW q, NEW e, LeadOf(r, l, m, q, e),
           NEW u \in Seq(Sign), Starts(u, l), RequestLine(u).ok
    PROVE  e <= Len(u)
<1>1. PICK a, b, c : a = r.method /\ b = r.path /\ c = r.query_string
  OBVIOUS
<1>2. PICK na, nb, nc : na = Len(a) /\ nb = Len(b) /\ nc = Len(c)
  OBVIOUS
<1>3. /\ na \in Nat /\ \A i \in 1 .. na : a[i] # SP
      /\ nb \in Nat /\ \A i \in 1 .. nb : b[i] # SP
      /\ nc \in Nat /\ \A i \in 1 .. nc : c[i] # SP
  BY <1>1, <1>2 DEF LeadWords, LeadOf
<1>4. PICK n : n = Len(u)
  OBVIOUS
<1>5. n \in Nat /\ \A i \in 1 .. n : u[i] = l[i]
  BY <1>4 DEF Starts
<1>6. /\ m = na + 1 /\ q = m + nb + 1 /\ e = q + nc + 1
      /\ \A i \in 1 .. na : l[i] = a[i]
      /\ l[q] = "?"
      /\ \A i \in 1 .. nb : l[m + i] = b[i]
      /\ \A i \in 1 .. nc : l[q + i] = c[i]
  BY <1>1, <1>2, Zenon DEF LeadAt, LeadOf
<1>7. /\ na \in Nat /\ nb \in Nat /\ nc \in Nat /\ m = na + 1 /\ q = m + nb + 1 /\ e = q + nc + 1
      /\ m \in Nat /\ q \in Nat /\ e \in Nat
  BY <1>3, <1>6
<1>8. \A i \in 1 .. e - 1 : i # m => l[i] # SP
  <2>1. SUFFICES ASSUME NEW i \in 1 .. e - 1, i # m PROVE l[i] # SP
    OBVIOUS
  <2>2. i \in 1 .. na \/ i \in m + 1 .. m + nb \/ i = q \/ i \in q + 1 .. q + nc
    BY <1>7, <2>1
  <2>3. CASE i \in 1 .. na
    BY <1>3, <1>6, <2>3
  <2>4. CASE i \in m + 1 .. m + nb
    <3>1. PICK j : j = i - m
      OBVIOUS
    <3>2. j \in 1 .. nb /\ i = m + j
      BY <1>7, <2>4, <3>1
    <3>3. l[m + j] = b[j] /\ b[j] # SP
      BY <1>3, <1>6, <3>2, Zenon
    <3>4. QED
      BY <3>2, <3>3
  <2>5. CASE i = q
    BY <1>6, <2>5, Signs
  <2>6. CASE i \in q + 1 .. q + nc
    <3>1. PICK j : j = i - q
      OBVIOUS
    <3>2. j \in 1 .. nc /\ i = q + j
      BY <1>7, <2>6, <3>1
    <3>3. l[q + j] = c[j] /\ c[j] # SP
      BY <1>3, <1>6, <3>2, Zenon
    <3>4. QED
      BY <3>2, <3>3
  <2>7. QED
    BY <2>2, <2>3, <2>4, <2>5, <2>6
<1>9. PICK f, g : f = Find(u, SP) /\ g = FindFrom(u, SP, f + 1)
  OBVIOUS
<1>10. f # 0 /\ g # 0
  <2>1. PICK s, p, x : s = LastOf(u, "?", f + 1, g - 1) /\ p = FindFrom(u, "/", g + 1) /\ x = IF s = 0 THEN g - 1 ELSE s - 1
    OBVIOUS
  <2>2. RequestLine(u) = ParsedLine(u, f, g, s, p, x)
    <3>1. LineMarks(u, f, g, s, p, x)
      BY <1>9, <2>1, Zenon DEF LineMarks
    <3>2. QED
      BY <3>1, RequestLineIs, Zenon
  <2>3. ParsedLine(u, f, g, s, p, x).ok
    BY <2>2
  <2>4. QED
    BY <2>3, ParsedLineFails, Zenon
<1>11. f \in 1 .. n /\ u[f] = SP
  <2>1. 1 \in Nat /\ Len(u) \in Nat
    BY <1>4, <1>5
  <2>2. f = FindFrom(u, SP, 1)
    BY <1>9 DEF Find
  <2>3. \/ f = 0
        \/ f \in 1 .. Len(u) /\ u[f] = SP
    BY <2>1, <2>2, FindsFirst
  <2>4. QED
    BY <1>4, <1>10, <2>3
<1>12. g \in f + 1 .. n /\ u[g] = SP
  <2>1. PICK from : from = f + 1
    OBVIOUS
  <2>2. from \in Nat /\ Len(u) \in Nat /\ g = FindFrom(u, SP, from)
    BY <1>4, <1>5, <1>9, <1>11, <2>1
  <2>3. \/ g = 0
        \/ g \in from .. Len(u) /\ u[g] = SP
    BY <2>2, FindsFirst
  <2>4. QED
    BY <1>4, <1>10, <2>1, <2>3
<1>13. ~(n < e)
  <2>1. SUFFICES ASSUME n < e PROVE FALSE
    OBVIOUS
  <2>2. f \in 1 .. e - 1 /\ g \in 1 .. e - 1 /\ g \in 1 .. n /\ f # g
    BY <1>5, <1>7, <1>11, <1>12, <2>1
  <2>3. l[f] = SP /\ l[g] = SP
    BY <1>5, <1>11, <1>12, <2>2
  <2>4. QED
    BY <1>8, <2>2, <2>3
<1>14. QED
  BY <1>4, <1>5, <1>7, <1>13

(* It has the method, the path and the query of the whole.                 *)
LEMMA PartlyRead ==
    ASSUME NEW r, NEW l, NEW m, NEW q, NEW e, LeadOf(r, l, m, q, e),
           NEW u \in Seq(Sign), Starts(u, l), RequestLine(u).ok
    PROVE  /\ RequestLine(u).parts.method = r.method /\ RequestLine(u).parts.path = r.path
           /\ RequestLine(u).parts.query_string = r.query_string
<1>1. e <= Len(u)
  BY FirstPart, Zenon
<1>2. /\ m \in Nat \ {0} /\ q \in m + 1 .. e - 1 /\ e \in Nat
      /\ Find(u, SP) = m /\ FindFrom(u, SP, m + 1) = e /\ LastOf(u, "?", m + 1, e - 1) = q
      /\ Before(u, m) = r.method /\ SubSeq(u, m + 1, q - 1) = r.path
      /\ SubSeq(u, q + 1, e - 1) = r.query_string
  <2>1. PathIs(r, u, m, q, e)
    BY <1>1, PathRead, Zenon
  <2>2. QED
    BY <2>1, Zenon DEF PathIs
<1>3. PICK p, b : p = FindFrom(u, "/", e + 1) /\ b = IF q = 0 THEN e - 1 ELSE q - 1
  OBVIOUS
<1>4. RequestLine(u) = ParsedLine(u, m, e, q, p, b)
  <2>1. LineMarks(u, m, e, q, p, b)
    BY <1>2, <1>3, Zenon DEF LineMarks
  <2>2. QED
    BY <2>1, RequestLineIs, Zenon
<1>5. p # 0 /\ m # 0 /\ e # 0 /\ SubSeq(u, e + 1, p - 1) = <<"H", "T", "T", "P">>
  <2>1. ParsedLine(u, m, e, q, p, b).ok
    BY <1>4
  <2>2. QED
    BY <2>1, ParsedLineFails, Zenon
<1>6. q # 0 /\ b = q - 1
  BY <1>2, <1>3
<1>7. PICK v : v = SubSeq(u, p + 1, Len(u) - 1)
  OBVIOUS
<1>8. RequestLine(u).parts = RequestParts(r.method, r.path, r.query_string, v)
  <2>1. ParsedLine(u, m, e, q, p, b) =
             [ok |-> TRUE,
              parts |-> RequestParts(Before(u, m), SubSeq(u, m + 1, b), SubSeq(u, q + 1, e - 1), v)]
    BY <1>5, <1>6, <1>7, ParsedLineIs, Zenon
  <2>2. ParsedLine(u, m, e, q, p, b) =
             [ok |-> TRUE, parts |-> RequestParts(r.method, r.path, r.query_string, v)]
    BY <1>2, <1>6, <2>1, Zenon
  <2>3. QED
    BY <1>4, <2>2
<1>9. QED
  BY <1>8, RequestPartsAre

(* The whole line is read as what it was made of.                          *)
LEMMA WhollyRead ==
    ASSUME NEW r, NEW l, NEW m, NEW q, NEW e, LeadOf(r, l, m, q, e),
           NEW u, u = Stripped(l)
    PROVE  RequestLine(u) = [ok |-> TRUE, parts |-> PartsOf(r, "request")]
<1>1. PICK v, nv : v = r.version /\ nv = Len(v)
  OBVIOUS
<1>2. v \in Seq(Sign) /\ nv \in Nat
  BY <1>1 DEF LeadWords, LeadOf
<1>3. /\ l \in Seq(Sign) /\ Len(l) = e + nv + 7
      /\ l[e + 1] = "H" /\ l[e + 2] = "T" /\ l[e + 3] = "T" /\ l[e + 4] = "P" /\ l[e + 5] = "/"
      /\ \A i \in 1 .. nv : l[e + 5 + i] = v[i]
  BY <1>1, Zenon DEF LeadAt, LeadOf
<1>4. e \in Nat
  <2>1. /\ m = Len(r.method) + 1 /\ q = m + Len(r.path) + 1 /\ e = q + Len(r.query_string) + 1
    BY Zenon DEF LeadAt, LeadOf
  <2>2. Len(r.method) \in Nat /\ Len(r.path) \in Nat /\ Len(r.query_string) \in Nat
    BY DEF LeadWords, LeadOf
  <2>3. PICK a, b, c : a = Len(r.method) /\ b = Len(r.path) /\ c = Len(r.query_string)
    OBVIOUS
  <2>4. a \in Nat /\ b \in Nat /\ c \in Nat /\ m = a + 1 /\ q = m + b + 1 /\ e = q + c + 1
    BY <2>1, <2>2, <2>3
  <2>5. QED
    BY <2>4
<1>5. PICK n : n = e + nv + 6
  OBVIOUS
<1>6. n \in Nat /\ Len(l) \in Nat \ {0} /\ Len(l) - 1 = n /\ e <= n /\ n <= Len(l)
  BY <1>2, <1>3, <1>4, <1>5
<1>7. u \in Seq(Sign) /\ Len(u) = n /\ \A i \in 1 .. n : u[i] = l[i]
  <2>1. /\ u \in Seq(Sign) /\ Len(u) = Len(l) - 1
        /\ \A i \in 1 .. Len(l) - 1 : u[i] = l[i]
    BY <1>3, <1>6, StrippedIs
  <2>2. QED
    BY <1>6, <2>1
<1>8. Starts(u, l)
  BY <1>6, <1>7 DEF Starts
<1>9. /\ m \in Nat \ {0} /\ q \in m + 1 .. e - 1
      /\ Find(u, SP) = m /\ FindFrom(u, SP, m + 1) = e /\ LastOf(u, "?", m + 1, e - 1) = q
      /\ Before(u, m) = r.method /\ SubSeq(u, m + 1, q - 1) = r.path
      /\ SubSeq(u, q + 1, e - 1) = r.query_string
  <2>1. e <= Len(u)
    BY <1>6, <1>7
  <2>2. QED
    <3>1. PathIs(r, u, m, q, e)
      BY <1>7, <1>8, <2>1, PathRead, Zenon
    <3>2. QED
      BY <3>1, Zenon DEF PathIs
<1>10. PICK p, b : p = e + 5 /\ b = IF q = 0 THEN e - 1 ELSE q - 1
  OBVIOUS
<1>11. u[e + 1] = "H" /\ u[e + 2] = "T" /\ u[e + 3] = "T" /\ u[e + 4] = "P" /\ u[p] = "/"
  <2>1. e + 1 \in 1 .. n /\ e + 2 \in 1 .. n /\ e + 3 \in 1 .. n /\ e + 4 \in 1 .. n /\ e + 5 \in 1 .. n
    BY <1>2, <1>4, <1>5
  <2>2. QED
    BY <1>3, <1>7, <1>10, <2>1, Zenon
<1>12. FindFrom(u, "/", e + 1) = p
  <2>1. PICK from : from = e + 1
    OBVIOUS
  <2>2. from \in Nat \ {0} /\ Len(u) \in Nat /\ p \in from .. Len(u) /\ Len(u) = n
    BY <1>2, <1>4, <1>5, <1>7, <1>10, <2>1
  <2>3. ASSUME NEW i \in from .. p - 1 PROVE u[i] # "/"
    <3>1. i = e + 1 \/ i = e + 2 \/ i = e + 3 \/ i = e + 4
      BY <1>4, <1>10, <2>1
    <3>2. QED
      BY <1>11, <3>1
  <2>4. FindFrom(u, "/", from) = p
    BY <1>11, <2>2, <2>3, FindsAt
  <2>5. QED
    BY <2>1, <2>4
<1>13. SubSeq(u, e + 1, p - 1) = <<"H", "T", "T", "P">>
  <2>1. PICK h : h = <<"H", "T", "T", "P">>
    OBVIOUS
  <2>2. h \in Seq(Sign) /\ Len(h) = 4 /\ h[1] = "H" /\ h[2] = "T" /\ h[3] = "T" /\ h[4] = "P"
    BY <2>1, SignsAre
  <2>3. \A i \in 1 .. 4 : u[e + i] = h[i]
    <3>1. \A i \in 1 .. 4 : i = 1 \/ i = 2 \/ i = 3 \/ i = 4
      OBVIOUS
    <3>2. QED
      BY <1>11, <2>2, <3>1
  <2>4. e + 4 <= Len(u) /\ p - 1 = e + 4
    BY <1>2, <1>4, <1>5, <1>7, <1>10
  <2>5. SubSeq(u, e + 1, e + 4) = h
    BY <1>4, <1>7, <2>2, <2>3, <2>4, PartIs
  <2>6. QED
    BY <2>1, <2>4, <2>5
<1>14. SubSeq(u, p + 1, n - 1) = v
  <2>1. p \in Nat /\ p + nv <= n /\ p + nv = n - 1
    BY <1>2, <1>4, <1>5, <1>10
  <2>2. \A i \in 1 .. nv : u[p + i] = v[i]
    <3>1. \A i \in 1 .. nv : p + i \in 1 .. n /\ p + i = e + 5 + i
      BY <1>2, <1>4, <1>5, <1>10
    <3>2. QED
      BY <1>3, <1>7, <3>1
  <2>3. SubSeq(u, p + 1, p + nv) = v
    BY <1>1, <1>2, <1>7, <2>1, <2>2, PartIs
  <2>4. QED
    BY <2>1, <2>3
<1>15. RequestLine(u) = ParsedLine(u, m, e, q, p, b)
  <2>1. LineMarks(u, m, e, q, p, b)
    BY <1>9, <1>10, <1>12, Zenon DEF LineMarks
  <2>2. QED
    BY <2>1, RequestLineIs, Zenon
<1>16. m # 0 /\ e # 0 /\ q # 0 /\ p # 0 /\ b = q - 1
  BY <1>4, <1>9, <1>10
<1>17. RequestLine(u) = [ok |-> TRUE, parts |-> RequestParts(r.method, r.path, r.query_string, r.version)]
  <2>1. ParsedLine(u, m, e, q, p, b) =
             [ok |-> TRUE,
              parts |-> RequestParts(Before(u, m), SubSeq(u, m + 1, b), SubSeq(u, q + 1, e - 1),
                                     SubSeq(u, p + 1, Len(u) - 1))]
    BY <1>13, <1>16, ParsedLineIs, Zenon
  <2>2. QED
    BY <1>1, <1>7, <1>9, <1>14, <1>15, <1>16, <2>1, Zenon
<1>18. QED
  BY <1>17, Zenon DEF PartsOf, RequestParts

-----------------------------------------------------------------------------
(* The first line of a response.                                           *)

(* The first line that Response::to_string writes.                         *)
ResponseLead(r) ==
    <<"H", "T", "T", "P", "/">> \o r.version \o <<SP>> \o r.status_code
    \o <<SP>> \o r.status_text \o <<CR, LF>>

(* The code and the text of the status.                                    *)
StatusOf(r) == r.status_code \o <<SP>> \o r.status_text

(* l has the version and the status x, with a space at e between them.     *)
StatusAt(l, v, x, e) ==
    /\ l \in Seq(Sign) /\ v \in Seq(Sign) /\ x \in Seq(Sign)
    /\ e = Len(v) + 6 /\ Len(l) = e + Len(x) + 2
    /\ l[1] = "H" /\ l[2] = "T" /\ l[3] = "T" /\ l[4] = "P" /\ l[5] = "/"
    /\ \A i \in 1 .. Len(v) : l[5 + i] = v[i]
    /\ l[e] = SP
    /\ \A i \in 1 .. Len(x) : l[e + i] = x[i]
    /\ l[e + Len(x) + 1] = CR /\ l[e + Len(x) + 2] = LF

(* A line with these parts has.                                            *)
LEMMA StatusPositions ==
    ASSUME NEW v \in Seq(Sign), NEW x \in Seq(Sign),
           NEW l, l = <<"H", "T", "T", "P", "/">> \o v \o <<SP>> \o x \o <<CR, LF>>
    PROVE  \E e : StatusAt(l, v, x, e)
<1>1. PICK h, s, z : h = <<"H", "T", "T", "P", "/">> /\ s = <<SP>> /\ z = <<CR, LF>>
  OBVIOUS
<1>2. h \in Seq(Sign) /\ Len(h) = 5 /\ h[1] = "H" /\ h[2] = "T" /\ h[3] = "T" /\ h[4] = "P" /\ h[5] = "/"
  BY <1>1, SignsAre
<1>3. s \in Seq(Sign) /\ Len(s) = 1 /\ s[1] = SP /\ z \in Seq(Sign) /\ Len(z) = 2 /\ z[1] = CR /\ z[2] = LF
  BY <1>1, SignsAre
<1>4. PICK nv, nx : nv = Len(v) /\ nx = Len(x)
  OBVIOUS
<1>5. nv \in Nat /\ nx \in Nat
  BY <1>4
<1>6. PICK u1 : u1 = h \o v
  OBVIOUS
<1>7. u1 \in Seq(Sign) /\ Len(u1) = 5 + nv /\ Starts(h, u1) /\ Stands(u1, 5, v)
  <2>1. Grown(u1, h, v)
    BY <1>2, <1>6, Grows, Zenon
  <2>2. QED
    BY <1>2, <1>4, <1>6, <2>1 DEF Grown
<1>8. PICK u2 : u2 = u1 \o s
  OBVIOUS
<1>9. u2 \in Seq(Sign) /\ Len(u2) = Len(u1) + 1 /\ Starts(u1, u2) /\ Stands(u2, Len(u1), s)
  <2>1. Grown(u2, u1, s)
    BY <1>3, <1>7, <1>8, Grows, Zenon
  <2>2. QED
    BY <1>3, <1>7, <1>8, <2>1 DEF Grown
<1>10. PICK u3 : u3 = u2 \o x
  OBVIOUS
<1>11. u3 \in Seq(Sign) /\ Len(u3) = Len(u2) + nx /\ Starts(u2, u3) /\ Stands(u3, Len(u2), x)
  <2>1. Grown(u3, u2, x)
    BY <1>9, <1>10, Grows, Zenon
  <2>2. QED
    BY <1>4, <1>9, <1>10, <2>1 DEF Grown
<1>12. l = u3 \o z
  BY <1>1, <1>6, <1>8, <1>10, Zenon
<1>13. l \in Seq(Sign) /\ Len(l) = Len(u3) + 2 /\ Starts(u3, l) /\ Stands(l, Len(u3), z)
  <2>1. Grown(l, u3, z)
    BY <1>3, <1>11, <1>12, Grows, Zenon
  <2>2. QED
    BY <1>3, <1>11, <1>12, <2>1 DEF Grown
<1>14. PICK e : e = nv + 6
  OBVIOUS
<1>15. /\ e \in Nat /\ Len(u1) = e - 1 /\ Len(u2) = e /\ Len(u3) = e + nx /\ Len(l) = e + nx + 2
       /\ (e - 1) + 1 = e
  BY <1>5, <1>7, <1>9, <1>11, <1>13, <1>14
<1>16. /\ Len(u1) \in Nat /\ Len(u2) \in Nat /\ Len(u3) \in Nat /\ Len(l) \in Nat
       /\ Len(h) \in Nat /\ Len(v) \in Nat /\ Len(s) \in Nat /\ Len(x) \in Nat
  <2>1. \A w \in Seq(Sign) : Len(w) \in Nat
    OBVIOUS
  <2>2. QED
    BY <1>2, <1>3, <1>7, <1>9, <1>11, <1>13, <2>1, Zenon
<1>17. Starts(u2, l)
  BY <1>11, <1>13, <1>16, StartsOn, Zenon
<1>18. Starts(u1, l)
  BY <1>9, <1>16, <1>17, StartsOn, Zenon
<1>19. Starts(h, l)
  BY <1>7, <1>16, <1>18, StartsOn, Zenon
<1>20. Stands(l, 5, v)
  <2>1. PICK k : k = 5
    OBVIOUS
  <2>2. k \in Nat /\ Stands(u1, k, v)
    BY <1>7, <2>1
  <2>3. Stands(l, k, v)
    BY <1>16, <1>18, <2>2, StandsOn, Zenon
  <2>4. QED
    BY <2>1, <2>3
<1>21. Stands(l, Len(u1), s)
  BY <1>9, <1>16, <1>17, StandsOn, Zenon
<1>22. Stands(l, Len(u2), x)
  <2>1. Stands(u3, Len(u2), x) /\ Starts(u3, l)
    BY <1>11, <1>13
  <2>2. QED
    BY <1>16, <2>1, StandsOn, Zenon
<1>23. l[1] = "H" /\ l[2] = "T" /\ l[3] = "T" /\ l[4] = "P" /\ l[5] = "/"
  <2>1. \A i \in 1 .. 5 : l[i] = h[i]
    BY <1>2, <1>19 DEF Starts
  <2>2. 1 \in 1 .. 5 /\ 2 \in 1 .. 5 /\ 3 \in 1 .. 5 /\ 4 \in 1 .. 5 /\ 5 \in 1 .. 5
    OBVIOUS
  <2>3. QED
    BY <1>2, <2>1, <2>2, Zenon
<1>24. \A i \in 1 .. nv : l[5 + i] = v[i]
  BY <1>4, <1>20, Zenon DEF Stands
<1>25. l[e] = SP
  <2>1. l[(e - 1) + 1] = s[1]
    BY <1>3, <1>15, <1>21 DEF Stands
  <2>2. QED
    BY <1>3, <1>15, <2>1
<1>26. \A i \in 1 .. nx : l[e + i] = x[i]
  BY <1>4, <1>15, <1>22, Zenon DEF Stands
<1>27. l[e + nx + 1] = CR /\ l[e + nx + 2] = LF
  <2>1. PICK g : g = e + nx
    OBVIOUS
  <2>2. Stands(l, g, z)
    BY <1>13, <1>15, <2>1
  <2>3. l[g + 1] = z[1] /\ l[g + 2] = z[2]
    <3>1. \A i \in 1 .. 2 : l[g + i] = z[i]
      BY <1>3, <2>2 DEF Stands
    <3>2. 1 \in 1 .. 2 /\ 2 \in 1 .. 2
      OBVIOUS
    <3>3. QED
      BY <3>1, <3>2, Zenon
  <2>4. QED
    BY <1>3, <2>1, <2>3
<1>28. StatusAt(l, v, x, e)
  BY <1>4, <1>13, <1>14, <1>15, <1>23, <1>24, <1>25, <1>26, <1>27, Zenon DEF StatusAt
<1>29. QED
  BY <1>28

(* No part has a character that ends it.                                   *)
StatusWords(r) ==
    /\ r.version \in Seq(Sign) /\ StatusOf(r) \in Seq(Sign)
    /\ \A i \in 1 .. Len(r.version) : r.version[i] \notin {SP, LF}
    /\ \A i \in 1 .. Len(StatusOf(r)) : StatusOf(r)[i] # LF

(* So it is in a response of MessagesAssumption.                           *)
LEMMA ResponseWords ==
    ASSUME NEW r, SoundResponse(r)
    PROVE  StatusWords(r) /\ \E e : StatusAt(ResponseLead(r), r.version, StatusOf(r), e)
<1>1. PICK v, c, t : v = r.version /\ c = r.status_code /\ t = r.status_text
  OBVIOUS
<1>2. Without({SP, LF}, v) /\ Without({LF}, c) /\ Without({LF}, t)
  BY <1>1 DEF SoundResponse
<1>3. v \in Seq(Sign) /\ \A i \in 1 .. Len(v) : v[i] \notin {SP, LF}
  BY <1>2, WithoutAny, Zenon
<1>4. c \in Seq(Sign) /\ Len(c) \in Nat /\ \A i \in 1 .. Len(c) : c[i] \notin {LF}
  BY <1>2, WithoutAny, Zenon
<1>5. t \in Seq(Sign) /\ Len(t) \in Nat /\ \A i \in 1 .. Len(t) : t[i] \notin {LF}
  BY <1>2, WithoutAny, Zenon
<1>6. PICK h, s, z : h = <<"H", "T", "T", "P", "/">> /\ s = <<SP>> /\ z = <<CR, LF>>
  OBVIOUS
<1>7. h \in Seq(Sign)
  BY <1>6, SignsAre
<1>8. s \in Seq(Sign) /\ Len(s) = 1 /\ s[1] = SP /\ z \in Seq(Sign)
  BY <1>6, SignsAre
<1>9. PICK y, x : y = h \o v \o s /\ x = c \o s \o t
  OBVIOUS
<1>10. y \in Seq(Sign)
  BY <1>3, <1>7, <1>8, <1>9
<1>11. PICK w : w = c \o s
  OBVIOUS
<1>12. IsConcat(w, Sign, c, s)
  BY <1>4, <1>8, <1>11, Concatenated, Zenon
<1>13. /\ w \in Seq(Sign) /\ Len(w) = Len(c) + 1 /\ \A i \in 1 .. Len(c) : w[i] = c[i]
       /\ w[Len(c) + 1] = SP
  BY <1>8, <1>12 DEF IsConcat
<1>14. IsConcat(x, Sign, w, t)
  BY <1>5, <1>9, <1>11, <1>13, Concatenated, Zenon
<1>15. PICK n, k : n = Len(w) /\ k = Len(t)
  OBVIOUS
<1>16. /\ x \in Seq(Sign) /\ Len(x) = n + k /\ n \in Nat /\ k \in Nat
       /\ \A i \in 1 .. n : x[i] = w[i]
       /\ \A i \in 1 .. k : x[n + i] = t[i]
  BY <1>4, <1>5, <1>13, <1>14, <1>15 DEF IsConcat
<1>17. \A i \in 1 .. n : w[i] # LF
  <2>1. \A i \in 1 .. n : i \in 1 .. Len(c) \/ i = Len(c) + 1
    BY <1>4, <1>13, <1>15
  <2>2. QED
    BY <1>4, <1>13, <2>1, Signs
<1>18. ASSUME NEW i \in 1 .. Len(x) PROVE x[i] # LF
  <2>1. CASE i \in 1 .. n
    BY <1>16, <1>17, <2>1
  <2>2. CASE i \notin 1 .. n
    <3>1. PICK j : j = i - n
      OBVIOUS
    <3>2. j \in 1 .. k /\ i = n + j
      BY <1>16, <2>2, <3>1
    <3>3. QED
      BY <1>5, <1>15, <1>16, <3>2
  <2>3. QED
    BY <2>1, <2>2
<1>19. StatusOf(r) = x
  BY <1>1, <1>6, <1>9, Zenon DEF StatusOf
<1>20. StatusWords(r)
  BY <1>1, <1>3, <1>16, <1>18, <1>19, Zenon DEF StatusWords
<1>21. y \o c \o s \o t = y \o x
  <2>1. (y \o c) \o s = y \o w
    BY <1>4, <1>8, <1>10, <1>11, ConcatAssociative
  <2>2. (y \o w) \o t = y \o (w \o t)
    BY <1>5, <1>10, <1>13, ConcatAssociative
  <2>3. w \o t = x
    BY <1>9, <1>11, Zenon
  <2>4. QED
    BY <2>1, <2>2, <2>3, Zenon
<1>22. ResponseLead(r) = y \o c \o s \o t \o z
  BY <1>1, <1>6, <1>9, Zenon DEF ResponseLead
<1>23. ResponseLead(r) = <<"H", "T", "T", "P", "/">> \o v \o <<SP>> \o x \o <<CR, LF>>
  BY <1>6, <1>9, <1>21, <1>22, Zenon
<1>24. \E e : StatusAt(ResponseLead(r), v, x, e)
  BY <1>3, <1>16, <1>23, StatusPositions, Zenon
<1>25. QED
  BY <1>1, <1>19, <1>20, <1>24

(* The parts of a response.                                                *)
ResponseParts(v, x) == [NoParts EXCEPT !.version = v, !.status_code = x]

(* The line is read as what it was made of.                                *)
LEMMA StatusRead ==
    ASSUME NEW r, StatusWords(r), NEW l, NEW e, StatusAt(l, r.version, StatusOf(r), e),
           NEW u, u = Stripped(l)
    PROVE  StatusLine(u) = [ok |-> TRUE, parts |-> PartsOf(r, "response")]
<1>1. PICK v, x : v = r.version /\ x = StatusOf(r)
  OBVIOUS
<1>2. PICK nv, nx : nv = Len(v) /\ nx = Len(x)
  OBVIOUS
<1>3. /\ l \in Seq(Sign) /\ v \in Seq(Sign) /\ x \in Seq(Sign)
      /\ e = nv + 6 /\ Len(l) = e + nx + 2
      /\ l[1] = "H" /\ l[2] = "T" /\ l[3] = "T" /\ l[4] = "P" /\ l[5] = "/"
      /\ \A i \in 1 .. nv : l[5 + i] = v[i]
      /\ l[e] = SP
      /\ \A i \in 1 .. nx : l[e + i] = x[i]
  BY <1>1, <1>2, Zenon DEF StatusAt
<1>4. \A i \in 1 .. nv : v[i] # SP
  BY <1>1, <1>2 DEF StatusWords
<1>5. PICK n : n = e + nx + 1
  OBVIOUS
<1>6. /\ nv \in Nat /\ nx \in Nat /\ e \in Nat /\ e > 5 /\ n \in Nat /\ n > 5 /\ e \in 1 .. n /\ e # n
      /\ e - 1 = 5 + nv /\ n - 1 = e + nx /\ 5 + nv <= n /\ e + nx <= n /\ e # 0
      /\ n + 1 = e + nx + 2 /\ n + 1 - 1 = n /\ 5 + 1 = 6
  <2>1. nv \in Nat /\ nx \in Nat /\ e = nv + 6
    BY <1>2, <1>3
  <2>2. QED
    BY <1>5, <2>1
<1>7. u \in Seq(Sign) /\ Len(u) = n /\ \A i \in 1 .. n : u[i] = l[i]
  <2>1. Len(l) \in Nat \ {0} /\ Len(l) - 1 = n
    BY <1>3, <1>6
  <2>2. /\ u \in Seq(Sign) /\ Len(u) = Len(l) - 1
        /\ \A i \in 1 .. Len(l) - 1 : u[i] = l[i]
    BY <1>3, <2>1, StrippedIs
  <2>3. QED
    BY <2>1, <2>2
<1>8. Find(u, SP) = e
  <2>1. ASSUME NEW i \in 1 .. e - 1 PROVE u[i] # SP
    <3>1. i \in 1 .. n /\ (i = 1 \/ i = 2 \/ i = 3 \/ i = 4 \/ i = 5 \/ i \in 6 .. 5 + nv)
      BY <1>6
    <3>2. CASE i \in 1 .. 5
      <4>1. "H" # SP /\ "T" # SP /\ "P" # SP /\ "/" # SP
        BY Zenon DEF SP
      <4>2. i = 1 \/ i = 2 \/ i = 3 \/ i = 4 \/ i = 5
        BY <3>2
      <4>3. QED
        BY <1>3, <1>7, <3>1, <4>1, <4>2
    <3>3. CASE i \in 6 .. 5 + nv
      <4>1. PICK j : j = i - 5
        OBVIOUS
      <4>2. j \in 1 .. nv /\ i = 5 + j
        BY <1>6, <3>3, <4>1
      <4>3. QED
        BY <1>3, <1>4, <1>7, <3>1, <4>2
    <3>4. QED
      BY <3>1, <3>2, <3>3
  <2>2. u[e] = SP
    BY <1>3, <1>6, <1>7
  <2>3. 1 \in Nat \ {0} /\ Len(u) \in Nat /\ e \in 1 .. Len(u)
    BY <1>6, <1>7
  <2>4. FindFrom(u, SP, 1) = e
    BY <2>1, <2>2, <2>3, FindsAt
  <2>5. QED
    BY <2>4 DEF Find
<1>9. SubSeq(u, 6, e - 1) = v
  <2>1. 5 \in Nat /\ 5 + Len(v) <= Len(u)
    BY <1>2, <1>6, <1>7
  <2>2. \A i \in 1 .. Len(v) : u[5 + i] = v[i]
    <3>1. \A i \in 1 .. nv : 5 + i \in 1 .. n
      BY <1>6
    <3>2. QED
      BY <1>2, <1>3, <1>7, <3>1
  <2>3. SubSeq(u, 5 + 1, 5 + Len(v)) = v
    <3>1. u \in Seq(Sign) /\ v \in Seq(Sign)
      BY <1>3, <1>7
    <3>2. QED
      BY <2>1, <2>2, <3>1, PartIs, Zenon
  <2>4. QED
    BY <1>2, <1>6, <2>3
<1>10. SubSeq(u, e + 1, n - 1) = x
  <2>1. e \in Nat /\ e + Len(x) <= Len(u)
    BY <1>2, <1>6, <1>7
  <2>2. \A i \in 1 .. Len(x) : u[e + i] = x[i]
    <3>1. \A i \in 1 .. nx : e + i \in 1 .. n
      BY <1>6
    <3>2. QED
      BY <1>2, <1>3, <1>7, <3>1
  <2>3. SubSeq(u, e + 1, e + Len(x)) = x
    <3>1. u \in Seq(Sign) /\ x \in Seq(Sign)
      BY <1>3, <1>7
    <3>2. QED
      BY <2>1, <2>2, <3>1, PartIs, Zenon
  <2>4. QED
    BY <1>2, <1>6, <2>3
<1>11. e # 0 /\ ~(Len(u) <= 5) /\ e # Len(u) /\ e > 5
  BY <1>6, <1>7
<1>12. StatusLine(u) = [ok |-> TRUE, parts |-> ResponseParts(SubSeq(u, 6, e - 1), SubSeq(u, e + 1, Len(u) - 1))]
  BY <1>8, <1>11, Zenon DEF StatusLine, ResponseParts
<1>13. StatusLine(u) = [ok |-> TRUE, parts |-> ResponseParts(v, x)]
  BY <1>7, <1>9, <1>10, <1>12, Zenon
<1>14. "response" # "request"
  OBVIOUS
<1>15. PartsOf(r, "response") = ResponseParts(v, x)
  BY <1>1, <1>14, Zenon DEF PartsOf, ResponseParts, StatusOf
<1>16. QED
  BY <1>13, <1>15

(* The first line of a request has one newline, at its end.                *)
LEMMA RequestLeadIsLine ==
    ASSUME NEW r, NEW l, NEW m, NEW q, NEW e, LeadOf(r, l, m, q, e)
    PROVE  IsLine(l)
<1>1. PICK a, b, c, v : a = r.method /\ b = r.path /\ c = r.query_string /\ v = r.version
  OBVIOUS
<1>2. PICK na, nb, nc, nv : na = Len(a) /\ nb = Len(b) /\ nc = Len(c) /\ nv = Len(v)
  OBVIOUS
<1>3. /\ na \in Nat /\ \A i \in 1 .. na : a[i] # LF
      /\ nb \in Nat /\ \A i \in 1 .. nb : b[i] # LF
      /\ nc \in Nat /\ \A i \in 1 .. nc : c[i] # LF
      /\ nv \in Nat /\ \A i \in 1 .. nv : v[i] # LF
  BY <1>1, <1>2 DEF LeadWords, LeadOf
<1>4. /\ l \in Seq(Sign) /\ m = na + 1 /\ q = m + nb + 1 /\ e = q + nc + 1
      /\ Len(l) = e + nv + 7
      /\ \A i \in 1 .. na : l[i] = a[i]
      /\ l[m] = SP /\ l[q] = "?" /\ l[e] = SP
      /\ \A i \in 1 .. nb : l[m + i] = b[i]
      /\ \A i \in 1 .. nc : l[q + i] = c[i]
      /\ l[e + 1] = "H" /\ l[e + 2] = "T" /\ l[e + 3] = "T" /\ l[e + 4] = "P" /\ l[e + 5] = "/"
      /\ \A i \in 1 .. nv : l[e + 5 + i] = v[i]
      /\ l[e + nv + 6] = CR /\ l[e + nv + 7] = LF
  BY <1>1, <1>2, Zenon DEF LeadAt, LeadOf
<1>5. PICK f, n : f = e + 5 /\ n = e + nv + 7
  OBVIOUS
<1>6. /\ na \in Nat /\ nb \in Nat /\ nc \in Nat /\ nv \in Nat /\ m = na + 1 /\ q = m + nb + 1
      /\ e = q + nc + 1 /\ f = e + 5 /\ n = f + nv + 2 /\ n - 1 = e + nv + 6
      /\ m \in Nat /\ q \in Nat /\ e \in Nat /\ f \in Nat /\ n \in Nat \ {0}
  BY <1>3, <1>4, <1>5
<1>7. ASSUME NEW i \in 1 .. n - 1 PROVE l[i] # LF
  <2>1. \/ i \in 1 .. na \/ i = m \/ i \in m + 1 .. m + nb \/ i = q \/ i \in q + 1 .. q + nc \/ i = e
        \/ i = e + 1 \/ i = e + 2 \/ i = e + 3 \/ i = e + 4 \/ i = e + 5
        \/ i \in f + 1 .. f + nv \/ i = n - 1
    BY <1>6
  <2>2. CASE i \in 1 .. na
    BY <1>3, <1>4, <2>2
  <2>3. CASE i \in m + 1 .. m + nb
    <3>1. PICK j : j = i - m
      OBVIOUS
    <3>2. j \in 1 .. nb /\ i = m + j
      BY <1>6, <2>3, <3>1
    <3>3. l[m + j] = b[j] /\ b[j] # LF
      BY <1>3, <1>4, <3>2, Zenon
    <3>4. QED
      BY <3>2, <3>3
  <2>4. CASE i \in q + 1 .. q + nc
    <3>1. PICK j : j = i - q
      OBVIOUS
    <3>2. j \in 1 .. nc /\ i = q + j
      BY <1>6, <2>4, <3>1
    <3>3. l[q + j] = c[j] /\ c[j] # LF
      BY <1>3, <1>4, <3>2, Zenon
    <3>4. QED
      BY <3>2, <3>3
  <2>5. CASE i \in f + 1 .. f + nv
    <3>1. PICK j : j = i - f
      OBVIOUS
    <3>2. j \in 1 .. nv /\ i = e + 5 + j
      BY <1>6, <2>5, <3>1
    <3>3. l[e + 5 + j] = v[j] /\ v[j] # LF
      BY <1>3, <1>4, <3>2, Zenon
    <3>4. QED
      BY <3>2, <3>3
  <2>6. CASE i = n - 1
    <3>1. l[i] = CR
      BY <1>4, <1>6, <2>6
    <3>2. QED
      BY <3>1, Signs
  <2>7. "H" # LF /\ "T" # LF /\ "P" # LF
    BY Zenon DEF LF
  <2>8. CASE i = m \/ i = q \/ i = e \/ i = e + 1 \/ i = e + 2 \/ i = e + 3 \/ i = e + 4 \/ i = e + 5
    <3>1. /\ l[m] # LF /\ l[q] # LF /\ l[e] # LF /\ l[e + 1] # LF /\ l[e + 2] # LF /\ l[e + 3] # LF
          /\ l[e + 4] # LF /\ l[e + 5] # LF
      <4>1. /\ l[m] = SP /\ l[q] = "?" /\ l[e] = SP /\ l[e + 1] = "H" /\ l[e + 2] = "T" /\ l[e + 3] = "T"
            /\ l[e + 4] = "P" /\ l[e + 5] = "/"
        BY <1>4
      <4>2. SP # LF /\ "?" # LF /\ "/" # LF
        BY Signs
      <4>3. QED
        BY <2>7, <4>1, <4>2, Zenon
    <3>2. QED
      BY <2>8, <3>1, Zenon
  <2>9. QED
    BY <2>1, <2>2, <2>3, <2>4, <2>5, <2>6, <2>8
<1>8. QED
  BY <1>4, <1>5, <1>6, <1>7 DEF IsLine

(* That of a response, too.                                                *)
LEMMA ResponseLeadIsLine ==
    ASSUME NEW r, StatusWords(r), NEW l, NEW e, StatusAt(l, r.version, StatusOf(r), e)
    PROVE  IsLine(l)
<1>1. PICK v, x : v = r.version /\ x = StatusOf(r)
  OBVIOUS
<1>2. PICK nv, nx : nv = Len(v) /\ nx = Len(x)
  OBVIOUS
<1>3. /\ l \in Seq(Sign) /\ v \in Seq(Sign) /\ x \in Seq(Sign)
      /\ e = nv + 6 /\ Len(l) = e + nx + 2
      /\ l[1] = "H" /\ l[2] = "T" /\ l[3] = "T" /\ l[4] = "P" /\ l[5] = "/"
      /\ \A i \in 1 .. nv : l[5 + i] = v[i]
      /\ l[e] = SP
      /\ \A i \in 1 .. nx : l[e + i] = x[i]
      /\ l[e + nx + 1] = CR /\ l[e + nx + 2] = LF
  BY <1>1, <1>2, Zenon DEF StatusAt
<1>4. (\A i \in 1 .. nv : v[i] # LF) /\ (\A i \in 1 .. nx : x[i] # LF)
  BY <1>1, <1>2 DEF StatusWords
<1>5. PICK n : n = e + nx + 2
  OBVIOUS
<1>6. /\ nv \in Nat /\ nx \in Nat /\ e = nv + 6 /\ n = e + nx + 2 /\ n - 1 = e + nx + 1
      /\ e \in Nat /\ n \in Nat \ {0}
  <2>1. nv \in Nat /\ nx \in Nat /\ e = nv + 6
    BY <1>2, <1>3
  <2>2. QED
    BY <1>5, <2>1
<1>7. ASSUME NEW i \in 1 .. n - 1 PROVE l[i] # LF
  <2>1. \/ i = 1 \/ i = 2 \/ i = 3 \/ i = 4 \/ i = 5 \/ i \in 6 .. 5 + nv \/ i = e
        \/ i \in e + 1 .. e + nx \/ i = n - 1
    BY <1>6
  <2>2. CASE i \in 6 .. 5 + nv
    <3>1. PICK j : j = i - 5
      OBVIOUS
    <3>2. j \in 1 .. nv /\ i = 5 + j
      BY <1>6, <2>2, <3>1
    <3>3. l[5 + j] = v[j] /\ v[j] # LF
      BY <1>3, <1>4, <3>2, Zenon
    <3>4. QED
      BY <3>2, <3>3
  <2>3. CASE i \in e + 1 .. e + nx
    <3>1. PICK j : j = i - e
      OBVIOUS
    <3>2. j \in 1 .. nx /\ i = e + j
      BY <1>6, <2>3, <3>1
    <3>3. l[e + j] = x[j] /\ x[j] # LF
      BY <1>3, <1>4, <3>2, Zenon
    <3>4. QED
      BY <3>2, <3>3
  <2>4. CASE i = n - 1
    <3>1. l[i] = CR
      BY <1>3, <1>6, <2>4
    <3>2. QED
      BY <3>1, Signs
  <2>5. "H" # LF /\ "T" # LF /\ "P" # LF
    BY Zenon DEF LF
  <2>6. CASE i = 1 \/ i = 2 \/ i = 3 \/ i = 4 \/ i = 5 \/ i = e
    BY <1>3, <2>5, <2>6, Signs, Zenon
  <2>7. QED
    BY <2>1, <2>2, <2>3, <2>4, <2>6
<1>8. QED
  BY <1>3, <1>5, <1>6, <1>7 DEF IsLine

(* What is parsed of the first line u.                                     *)
FirstLine(kind, u) == IF kind = "request" THEN RequestLine(u) ELSE StatusLine(u)

(* The parts p have the method, the path and the query of r.               *)
PartsRight(r, p) == p.method = r.method /\ p.path = r.path /\ p.query_string = r.query_string

(* l is a first line that is read as r, and of which no beginning is read  *)
(* as anything else.                                                       *)
FirstIs(kind, r, l) ==
    /\ IsLine(l)
    /\ FirstLine(kind, Stripped(l)) = [ok |-> TRUE, parts |-> PartsOf(r, kind)]
    /\ kind = "request" =>
         \A u \in Seq(Sign) : Starts(u, l) /\ RequestLine(u).ok => PartsRight(r, RequestLine(u).parts)

(* The first line of a request is.                                         *)
LEMMA RequestFirst ==
    ASSUME NEW r, SoundRequest(r)
    PROVE  RequestLead(r) \in Seq(Sign) /\ FirstIs("request", r, RequestLead(r))
<1>1. LeadWords(r)
  BY RequestWords, Zenon
<1>2. /\ r.method \in Seq(Sign) /\ r.path \in Seq(Sign) /\ r.query_string \in Seq(Sign)
      /\ r.version \in Seq(Sign)
  BY <1>1 DEF LeadWords
<1>3. PICK l : l = RequestLead(r)
  OBVIOUS
<1>4. LeadParts(l, r.method, r.path, r.query_string, r.version)
  BY <1>2, <1>3, LeadPartsAre, Zenon DEF RequestLead
<1>5. PICK m, q, e : LeadOf(r, l, m, q, e)
  BY <1>1, <1>2, <1>4, LeadPositions, Zenon DEF LeadOf
<1>6. IsLine(l)
  BY <1>5, RequestLeadIsLine, Zenon
<1>7. RequestLine(Stripped(l)) = [ok |-> TRUE, parts |-> PartsOf(r, "request")]
  BY <1>5, WhollyRead, Zenon
<1>8. ASSUME NEW u \in Seq(Sign), Starts(u, l), RequestLine(u).ok
      PROVE  PartsRight(r, RequestLine(u).parts)
  BY <1>5, <1>8, PartlyRead, Zenon DEF PartsRight
<1>9. l \in Seq(Sign)
  BY <1>6, Zenon DEF IsLine
<1>10. QED
  BY <1>3, <1>6, <1>7, <1>8, <1>9, Zenon DEF FirstIs, FirstLine

(* The first line of a response is.                                        *)
LEMMA ResponseFirst ==
    ASSUME NEW r, SoundResponse(r)
    PROVE  ResponseLead(r) \in Seq(Sign) /\ FirstIs("response", r, ResponseLead(r))
<1>1. PICK l : l = ResponseLead(r)
  OBVIOUS
<1>2. StatusWords(r)
  BY ResponseWords, Zenon
<1>3. PICK e : StatusAt(l, r.version, StatusOf(r), e)
  BY <1>1, ResponseWords, Zenon
<1>4. IsLine(l)
  BY <1>2, <1>3, ResponseLeadIsLine, Zenon
<1>5. StatusLine(Stripped(l)) = [ok |-> TRUE, parts |-> PartsOf(r, "response")]
  BY <1>2, <1>3, StatusRead, Zenon
<1>6. "response" # "request"
  OBVIOUS
<1>7. l \in Seq(Sign)
  BY <1>4, Zenon DEF IsLine
<1>8. QED
  BY <1>1, <1>4, <1>5, <1>6, <1>7, Zenon DEF FirstIs, FirstLine

-----------------------------------------------------------------------------
(* A message as a sequence of lines.                                       *)

(* The fields, as a set.                                                   *)
Held(fields) == {fields[j] : j \in 1 .. Len(fields)}

(* With the functions of the library.                                      *)
LEMMA HeldIs ==
    ASSUME NEW S, NEW fields \in Seq(S)
    PROVE  /\ Held(fields) = ToSet(fields)
           /\ \A f : Held(Append(fields, f)) = ToSet(fields) \cup {f}
<1>1. Len(fields) \in Nat /\ DOMAIN fields = 1 .. Len(fields)
  OBVIOUS
<1>2. Held(fields) = ToSet(fields)
  BY <1>1 DEF Held, ToSet
<1>3. ASSUME NEW f PROVE Held(Append(fields, f)) = Held(fields) \cup {f}
  <2>1. PICK n, more : n = Len(fields) /\ more = Append(fields, f)
    OBVIOUS
  <2>2. n \in Nat /\ Len(more) = n + 1 /\ more[n + 1] = f /\ \A j \in 1 .. n : more[j] = fields[j]
    BY <1>1, <2>1
  <2>3. \A j : j \in 1 .. n + 1 <=> j \in 1 .. n \/ j = n + 1
    BY <2>2
  <2>4. Held(more) = {more[j] : j \in 1 .. n + 1}
    BY <2>2 DEF Held
  <2>5. Held(fields) = {fields[j] : j \in 1 .. n}
    BY <2>1 DEF Held
  <2>6. \A z : z \in Held(more) <=> z \in Held(fields) \/ z = f
    BY <2>2, <2>3, <2>4, <2>5
  <2>7. QED
    BY <2>1, <2>6
<1>4. QED
  BY <1>2, <1>3

(* The text of a header with one field.                                    *)
LEMMA OneField ==
    ASSUME NEW f, SoundField(f)
    PROVE  Fields(<<f>>) = FieldOfHeader(f)
<1>1. PICK listed, x : listed = <<f>> /\ x = FieldOfHeader(f)
  OBVIOUS
<1>2. x \in Seq(Sign)
  BY <1>1, FieldOfHeaderHolds
<1>3. f \in Seq(STRING) \X Seq(STRING)
  BY DEF SoundField
<1>4. Len(listed) = 1 /\ listed[1] = f /\ DOMAIN listed = {1} /\ listed \in Seq(Seq(STRING) \X Seq(STRING))
  BY <1>1, <1>3
<1>5. SoundHeader(listed)
  BY <1>4 DEF SoundHeader
<1>6. PICK t, seqs : t = Fields(listed) /\ seqs = FieldTextsOf(listed)
  OBVIOUS
<1>7. t = FlattenSeq(seqs) /\ seqs \in Seq(Seq(Sign)) /\ Len(seqs) = Len(listed)
  BY <1>5, <1>6, FieldsAre, Zenon
<1>8. Len(seqs) = 1 /\ seqs[1] = x
  <2>1. seqs[1] = FieldOfHeader(listed[1])
    BY <1>4, <1>6 DEF FieldTextsOf
  <2>2. QED
    BY <1>1, <1>4, <1>7, <2>1
<1>9. PICK n : n = 1
  OBVIOUS
<1>10. PICK at : IsJoined(t, at, Sign, seqs, n)
  <2>1. Len(seqs) = n
    BY <1>8, <1>9
  <2>2. QED
    BY <1>7, <2>1, Joined
<1>11. /\ t \in Seq(Sign) /\ Len(t) = at[n] /\ at[0] = 0
       /\ \A k \in 1 .. n : at[k] = at[k - 1] + Len(seqs[k])
       /\ \A k \in 1 .. n : \A i \in 1 .. Len(seqs[k]) : t[at[k - 1] + i] = seqs[k][i]
  BY <1>10 DEF IsJoined
<1>12. Len(t) = Len(x) /\ \A i \in 1 .. Len(x) : t[i] = x[i]
  <2>1. 1 \in 1 .. n /\ 1 - 1 = 0 /\ Len(x) \in Nat /\ \A i \in Nat : 0 + i = i
    BY <1>2, <1>9
  <2>2. at[1] = 0 + Len(x)
    BY <1>8, <1>11, <2>1
  <2>3. \A i \in 1 .. Len(x) : t[0 + i] = x[i]
    BY <1>8, <1>11, <2>1
  <2>4. QED
    BY <1>9, <1>11, <2>1, <2>2, <2>3
<1>13. t = x
  BY <1>2, <1>11, <1>12, SeqEqual
<1>14. QED
  BY <1>1, <1>6, <1>13

(* The text of a request is its lines.                                     *)
LEMMA RequestIs ==
    ASSUME NEW r, SoundRequest(r)
    PROVE  \E at, lines : IsMessage(RequestText(r), at, lines, RequestLead(r), r.header)
<1>1. SoundHeader(r.header) /\ RequestLead(r) \in Seq(Sign)
  BY RequestFirst DEF SoundRequest
<1>2. PICK x : x = RequestLead(r) \o Fields(r.header)
  OBVIOUS
<1>3. PICK at, seqs : HasFields(x, at, seqs, RequestLead(r), r.header)
  BY <1>1, <1>2, LeadAndFields, Zenon
<1>4. PICK to, lines : IsMessage(x \o <<CR, LF>>, to, lines, RequestLead(r), r.header)
  BY <1>3, MessageEnds, Zenon
<1>5. RequestText(r) = x \o <<CR, LF>>
  BY <1>2, Zenon DEF RequestText, RequestLead
<1>6. QED
  BY <1>4, <1>5, Zenon

(* The text of a response is its lines and its body; a body has a field    *)
(* for its length.                                                         *)
LEMMA ResponseIs ==
    ASSUME NEW r, SoundResponse(r)
    PROVE  \E x, at, lines, fields :
             /\ IsMessage(x, at, lines, ResponseLead(r), fields)
             /\ ResponseText(r, r.length) = x \o r.body
             /\ Held(fields) = ToSet(r.header) \cup LengthField(r)
<1>1. PICK lead, f, listed, length : lead = ResponseLead(r) /\ length = r.length /\ f = << <<"L">>, length>> /\ listed = r.header
  OBVIOUS
<1>2. lead \in Seq(Sign)
  BY <1>1, ResponseFirst
<1>3. SoundHeader(listed) /\ SoundField(f) /\ "length" \in DOMAIN r
  BY <1>1 DEF SoundResponse
<1>4. listed \in Seq(Seq(STRING) \X Seq(STRING))
  BY <1>3 DEF SoundHeader
<1>5. PICK x : x = lead \o Fields(listed)
  OBVIOUS
<1>6. PICK at, seqs : HasFields(x, at, seqs, lead, listed)
  BY <1>2, <1>3, <1>5, LeadAndFields, Zenon
<1>7. Held(listed) = ToSet(listed) /\ Held(Append(listed, f)) = ToSet(listed) \cup {f}
  BY <1>4, HeldIs
<1>8. ResponseText(r, length) =
        lead \o Fields(listed) \o (IF r.body = <<>> THEN <<>> ELSE Fields(<<f>>)) \o <<CR, LF>> \o r.body
  BY <1>1, Zenon DEF ResponseText, ResponseLead
<1>9. CASE r.body = <<>>
  <2>1. PICK to, lines : IsMessage(x \o <<CR, LF>>, to, lines, lead, listed)
    BY <1>6, MessageEnds, Zenon
  <2>2. x \in Seq(Sign)
    BY <1>6 DEF HasFields, IsJoined
  <2>3. x \o <<>> = x
    BY <2>2, ConcatEmptySeq
  <2>4. ResponseText(r, length) = x \o <<CR, LF>> \o r.body
    BY <1>5, <1>8, <1>9, <2>3, Zenon
  <2>5. LengthField(r) = {}
    BY <1>9 DEF LengthField
  <2>6. QED
    BY <1>1, <1>7, <2>1, <2>4, <2>5
<1>10. CASE r.body # <<>>
  <2>1. PICK more, s : more = Append(listed, f) /\ s = FieldOfHeader(f)
    OBVIOUS
  <2>2. PICK up, all : HasFields(x \o s, up, all, lead, more)
    BY <1>3, <1>4, <1>6, <2>1, OneMoreField, Zenon
  <2>3. PICK to, lines : IsMessage(x \o s \o <<CR, LF>>, to, lines, lead, more)
    BY <2>2, MessageEnds, Zenon
  <2>4. Fields(<<f>>) = s
    BY <1>3, <2>1, OneField, Zenon
  <2>5. ResponseText(r, length) = x \o s \o <<CR, LF>> \o r.body
    BY <1>5, <1>8, <1>10, <2>4, Zenon
  <2>6. LengthField(r) = {f}
    BY <1>1, <1>3, <1>10 DEF LengthField
  <2>7. Held(more) = ToSet(listed) \cup {f}
    BY <1>7, <2>1
  <2>8. QED
    BY <1>1, <2>3, <2>5, <2>6, <2>7
<1>11. QED
  BY <1>9, <1>10

(* t has the characters of x, as far as both go; if t is not cut, all.     *)
Agrees(t, x, cut) ==
    /\ \A i \in 1 .. Len(t) : i <= Len(x) => t[i] = x[i]
    /\ ~cut => Len(x) <= Len(t)

(* IsPrefix, character by character.                                       *)
LEMMA PrefixIs ==
    ASSUME NEW C, NEW s \in Seq(C), NEW t \in Seq(C), IsPrefix(s, t)
    PROVE  Len(s) <= Len(t) /\ \A i \in 1 .. Len(s) : s[i] = t[i]
<1>1. PICK n : n = Len(s)
  OBVIOUS
<1>2. n \in Nat /\ n <= Len(t) /\ SubSeq(s, 1, n) = SubSeq(t, 1, n)
  BY <1>1 DEF IsPrefix
<1>3. ASSUME NEW i \in 1 .. n PROVE s[i] = t[i]
  <2>1. SubSeq(s, 1, n)[i] = s[i] /\ SubSeq(t, 1, n)[i] = t[i]
    BY <1>1, <1>2
  <2>2. QED
    BY <1>2, <2>1
<1>4. QED
  BY <1>1, <1>2, <1>3

(* A whole text or the beginning of one agrees with the head of the        *)
(* message.                                                                *)
LEMMA TextAgrees ==
    ASSUME NEW x \in Seq(Sign), NEW whole \in Seq(Sign), Starts(x, whole), NEW t \in Seq(Sign), NEW cut,
           IF cut THEN IsPrefix(t, whole) ELSE IsPrefix(whole, t)
    PROVE  Agrees(t, x, cut)
<1>1. PICK n, w, l : n = Len(x) /\ w = Len(whole) /\ l = Len(t)
  OBVIOUS
<1>2. n \in Nat /\ w \in Nat /\ l \in Nat
  BY <1>1
<1>3. n <= w /\ \A i \in 1 .. n : whole[i] = x[i]
  BY <1>1 DEF Starts
<1>4. CASE cut
  <2>1. l <= w /\ \A i \in 1 .. l : t[i] = whole[i]
    BY <1>1, <1>4, PrefixIs
  <2>2. ASSUME NEW i \in 1 .. l, i <= n PROVE t[i] = x[i]
    <3>1. i \in 1 .. n
      BY <1>2, <2>2
    <3>2. QED
      BY <1>3, <2>1, <3>1
  <2>3. QED
    BY <1>1, <1>4, <2>2 DEF Agrees
<1>5. CASE ~cut
  <2>1. w <= l /\ \A i \in 1 .. w : whole[i] = t[i]
    BY <1>1, <1>5, PrefixIs
  <2>2. ASSUME NEW i \in 1 .. l, i <= n PROVE t[i] = x[i]
    <3>1. i \in 1 .. n /\ i \in 1 .. w
      BY <1>2, <1>3, <2>2
    <3>2. QED
      BY <1>3, <2>1, <3>1
  <2>3. n <= l
    BY <1>2, <1>3, <2>1
  <2>4. QED
    BY <1>1, <2>2, <2>3 DEF Agrees
<1>6. QED
  BY <1>4, <1>5

(* The n lines of message m, the places where they end and the fields they *)
(* hold; the text of m may end within a line, if it is cut.                *)
Laid(m, at, lines, fields, n) ==
    /\ n \in Nat /\ Len(fields) \in Nat /\ n = Len(fields) + 2
    /\ \A k \in 1 .. n : IsLine(lines[k])
    /\ at \in [0 .. n -> Nat] /\ at[0] = 0
    /\ \A k \in 1 .. n : at[k] = at[k - 1] + Len(lines[k])
    /\ m.text \in Seq(Sign)
    /\ \A k \in 1 .. n : \A i \in 1 .. Len(lines[k]) :
         at[k - 1] + i <= Len(m.text) => m.text[at[k - 1] + i] = lines[k][i]
    /\ ~m.cut => at[n] <= Len(m.text)
    /\ \A k \in 1 .. n : at[k] <= at[n]
    /\ FirstIs(m.kind, m.of, lines[1])
    /\ \A k \in 1 .. Len(fields) : HoldsField(lines[k + 1], fields[k])
    /\ ~Has(Stripped(lines[n]), ":")
    /\ Held(fields) = ToSet(m.of.header) \cup LengthField(m.of)
    /\ m.kind = "request" => LengthField(m.of) = {}

(* The line that ends a header has no colon.                               *)
LEMMA EmptyLine == IsLine(<<CR, LF>>) /\ ~Has(Stripped(<<CR, LF>>), ":")
<1>1. PICK l, u : l = <<CR, LF>> /\ u = Stripped(l)
  OBVIOUS
<1>2. l \in Seq(Sign) /\ Len(l) = 2 /\ l[1] = CR /\ l[2] = LF
  BY <1>1, SignsAre
<1>3. IsLine(l)
  BY <1>2, Signs DEF IsLine
<1>4. Len(l) \in Nat \ {0} /\ Len(l) - 1 = 1
  BY <1>2
<1>5. Len(u) = 1 /\ u[1] = CR
  <2>1. Len(u) = Len(l) - 1 /\ \A i \in 1 .. Len(l) - 1 : u[i] = l[i]
    BY <1>1, <1>2, <1>4, StrippedIs
  <2>2. QED
    BY <1>2, <1>4, <2>1
<1>6. Find(u, ":") = 0
  <2>1. 1 \in Nat /\ Len(u) \in Nat
    BY <1>5
  <2>2. \A i \in 1 .. Len(u) : u[i] # ":"
    BY <1>5, Signs
  <2>3. FindFrom(u, ":", 1) = 0
    BY <2>1, <2>2, FindsFirst
  <2>4. QED
    BY <2>3 DEF Find
<1>7. QED
  BY <1>1, <1>3, <1>6 DEF Has

(* A message whose text agrees with its lines is laid out so.              *)
LEMMA LaidIs ==
    ASSUME NEW m, m.text \in Seq(Sign), NEW x, NEW at, NEW lines, NEW lead, NEW fields,
           IsMessage(x, at, lines, lead, fields), Agrees(m.text, x, m.cut),
           FirstIs(m.kind, m.of, lead), Held(fields) = ToSet(m.of.header) \cup LengthField(m.of),
           m.kind = "request" => LengthField(m.of) = {}
    PROVE  \E n : Laid(m, at, lines, fields, n)
<1>1. PICK n, k1, t : n = Len(fields) + 2 /\ k1 = Len(fields) /\ t = m.text
  OBVIOUS
<1>2. /\ lines \in Seq(Seq(Sign)) /\ k1 \in Nat /\ Len(lines) = n /\ IsJoined(x, at, Sign, lines, n)
      /\ lines[1] = lead /\ lines[n] = <<CR, LF>>
      /\ \A k \in 1 .. k1 : HoldsField(lines[k + 1], fields[k])
  BY <1>1 DEF IsMessage
<1>3. n \in Nat /\ n = k1 + 2
  BY <1>1, <1>2
<1>4. /\ x \in Seq(Sign) /\ Len(x) = at[n] /\ at \in [0 .. n -> Nat] /\ at[0] = 0
      /\ \A k \in 1 .. n : at[k] = at[k - 1] + Len(lines[k]) /\ at[k] <= at[n]
      /\ \A k \in 1 .. n : \A i \in 1 .. Len(lines[k]) : x[at[k - 1] + i] = lines[k][i]
  BY <1>2 DEF IsJoined
<1>5. \A k \in 1 .. n : IsLine(lines[k])
  <2>1. IsLine(lines[1])
    BY <1>2 DEF FirstIs
  <2>2. IsLine(lines[n])
    BY <1>2, EmptyLine, Zenon
  <2>3. \A k \in 1 .. k1 : IsLine(lines[k + 1])
    BY <1>2 DEF HoldsField
  <2>4. ASSUME NEW k \in 1 .. n PROVE IsLine(lines[k])
    <3>1. CASE k = 1
      BY <2>1, <3>1
    <3>2. CASE k = n
      BY <2>2, <3>2
    <3>3. CASE k # 1 /\ k # n
      <4>1. PICK j : j = k - 1
        OBVIOUS
      <4>2. j \in 1 .. k1 /\ k = j + 1
        BY <1>2, <1>3, <3>3, <4>1
      <4>3. QED
        BY <2>3, <4>2
    <3>4. QED
      BY <3>1, <3>2, <3>3
  <2>5. QED
    BY <2>4
<1>6. (\A i \in 1 .. Len(t) : i <= Len(x) => t[i] = x[i]) /\ (~m.cut => Len(x) <= Len(t))
  BY <1>1 DEF Agrees
<1>7. ASSUME NEW k \in 1 .. n, NEW i \in 1 .. Len(lines[k]), at[k - 1] + i <= Len(t)
      PROVE  t[at[k - 1] + i] = lines[k][i]
  <2>1. PICK b, l, y, z : b = at[k - 1] /\ l = Len(lines[k]) /\ y = Len(t) /\ z = Len(x)
    OBVIOUS
  <2>2. b \in Nat /\ l \in Nat /\ i \in 1 .. l /\ b + l <= z /\ b + i <= y
    <3>1. k - 1 \in 0 .. n
      BY <1>3
    <3>2. Len(lines[k]) \in Nat
      BY <1>5 DEF IsLine
    <3>3. at[k - 1] \in Nat
      BY <1>4, <3>1
    <3>4. at[k] = b + l /\ at[k] <= z
      BY <1>4, <2>1
    <3>5. QED
      BY <1>7, <2>1, <3>2, <3>3, <3>4
  <2>3. y \in Nat /\ z \in Nat
    BY <1>1, <1>4, <2>1
  <2>4. b + i \in 1 .. y /\ b + i <= z
    BY <2>2, <2>3
  <2>5. t[b + i] = x[b + i]
    BY <1>6, <2>1, <2>4
  <2>6. QED
    BY <1>4, <2>1, <2>5
<1>8. Laid(m, at, lines, fields, n)
  <2>1. ~Has(Stripped(lines[n]), ":")
    BY <1>2, EmptyLine, Zenon
  <2>2. FirstIs(m.kind, m.of, lines[1])
    BY <1>2
  <2>3. (\A k \in 1 .. n : at[k] = at[k - 1] + Len(lines[k])) /\ (\A k \in 1 .. n : at[k] <= at[n])
    BY <1>4
  <2>4. ~m.cut => at[n] <= Len(t)
    BY <1>4, <1>6
  <2>5. QED
    BY <1>1, <1>2, <1>3, <1>4, <1>5, <1>7, <2>1, <2>2, <2>3, <2>4, Zenon DEF Laid
<1>9. QED
  BY <1>8

(* Texts are texts of these characters.                                    *)
LEMMA StringsAreSigns == ASSUME NEW t \in Seq(STRING) PROVE t \in Seq(Sign)
BY DEF Sign

(* The lines of a message, joined, are such a text.                        *)
LEMMA MessageText ==
    ASSUME NEW x, NEW at, NEW lines, NEW lead, NEW fields, IsMessage(x, at, lines, lead, fields)
    PROVE  x \in Seq(Sign)
BY DEF IsMessage, IsJoined

(* Every message of MessagesAssumption is laid out in lines.               *)
LEMMA MessagesAreLaid ==
    ASSUME NEW m \in Messages
    PROVE  \E at, lines, fields, n : Laid(m, at, lines, fields, n)
<1>1. PICK r, t : r = m.of /\ t = m.text
  OBVIOUS
<1>2. m.cut \in BOOLEAN /\ t \in Seq(Sign)
  <2>1. m.cut \in BOOLEAN /\ m.text \in Seq(STRING)
    BY MessagesAssumption
  <2>2. QED
    BY <1>1, <2>1, StringsAreSigns
<1>3. \/ m.kind = "request" /\ SoundRequest(r)
      \/ m.kind = "response" /\ SoundResponse(r)
  <2>1. \/ m.kind = "request" /\ SoundRequest(m.of)
        \/ m.kind = "response" /\ SoundResponse(m.of)
    BY MessagesAssumption, Zenon
  <2>2. QED
    BY <1>1, <2>1, Zenon
<1>4. LET whole == IF m.kind = "request" THEN RequestText(r) ELSE ResponseText(r, r.length)
      IN  IF m.cut THEN IsPrefix(t, whole) ELSE IsPrefix(whole, t)
  BY <1>1, MessagesAssumption, Zenon
<1>5. CASE m.kind = "request"
  <2>1. "request" # "response"
    OBVIOUS
  <2>2. SoundRequest(r)
    BY <1>3, <1>5, <2>1
  <2>3. PICK x : x = RequestText(r)
    OBVIOUS
  <2>4. PICK at, lines : IsMessage(x, at, lines, RequestLead(r), r.header)
    BY <2>2, <2>3, RequestIs, Zenon
  <2>5. x \in Seq(Sign)
    BY <2>4, MessageText, Zenon
  <2>6. Starts(x, x)
    <3>1. Len(x) \in Nat
      BY <2>5
    <3>2. QED
      BY <3>1 DEF Starts
  <2>7. IF m.cut THEN IsPrefix(t, x) ELSE IsPrefix(x, t)
    BY <1>4, <1>5, <2>3, Zenon
  <2>8. Agrees(t, x, m.cut)
    BY <1>2, <2>5, <2>6, <2>7, TextAgrees, Zenon
  <2>9. FirstIs("request", r, RequestLead(r))
    BY <2>2, RequestFirst, Zenon
  <2>10. LengthField(r) = {}
    <3>1. "length" \notin DOMAIN r
      BY <2>2 DEF SoundRequest
    <3>2. QED
      BY <3>1 DEF LengthField
  <2>11. Held(r.header) = ToSet(r.header) \cup LengthField(r)
    <3>1. r.header \in Seq(Seq(STRING) \X Seq(STRING))
      BY <2>2 DEF SoundRequest
    <3>2. Held(r.header) = ToSet(r.header)
      BY <3>1, HeldIs
    <3>3. QED
      BY <2>10, <3>2
  <2>12. PICK n : Laid(m, at, lines, r.header, n)
    BY <1>1, <1>2, <1>5, <2>4, <2>8, <2>9, <2>10, <2>11, LaidIs, Zenon
  <2>13. QED
    BY <2>12, Zenon
<1>6. CASE m.kind # "request"
  <2>1. m.kind = "response" /\ SoundResponse(r)
    BY <1>3, <1>6
  <2>2. PICK x, at, lines, fields :
             /\ IsMessage(x, at, lines, ResponseLead(r), fields)
             /\ ResponseText(r, r.length) = x \o r.body
             /\ Held(fields) = ToSet(r.header) \cup LengthField(r)
    BY <2>1, ResponseIs, Zenon
  <2>3. x \in Seq(Sign)
    BY <2>2, MessageText, Zenon
  <2>4. r.body \in Seq(Sign)
    <3>1. r.body \in Seq(STRING)
      BY <2>1 DEF SoundResponse
    <3>2. QED
      BY <3>1, StringsAreSigns
  <2>5. PICK whole : whole = x \o r.body
    OBVIOUS
  <2>6. Grown(whole, x, r.body)
    BY <2>3, <2>4, <2>5, Grows, Zenon
  <2>7. whole \in Seq(Sign) /\ Starts(x, whole)
    BY <2>6, Zenon DEF Grown
  <2>8. IF m.cut THEN IsPrefix(t, whole) ELSE IsPrefix(whole, t)
    BY <1>4, <1>6, <2>2, <2>5, Zenon
  <2>9. Agrees(t, x, m.cut)
    BY <1>2, <2>3, <2>7, <2>8, TextAgrees, Zenon
  <2>10. FirstIs("response", r, ResponseLead(r))
    BY <2>1, ResponseFirst, Zenon
  <2>11. PICK n : Laid(m, at, lines, fields, n)
    BY <1>1, <1>2, <1>6, <2>1, <2>2, <2>9, <2>10, LaidIs, Zenon
  <2>12. QED
    BY <2>11, Zenon
<1>7. QED
  BY <1>5, <1>6

-----------------------------------------------------------------------------
(* The parser reads one of these lines with each getline.                  *)

(* What is found in the rest s of the text after line k: line k + 1 and    *)
(* the rest after it.                                                      *)
LineRead(m, at, lines, k, s) ==
    /\ Find(s, LF) # 0 /\ at[k + 1] <= Len(m.text)
    /\ Before(s, Find(s, LF)) = Stripped(lines[k + 1])
    /\ After(s, Find(s, LF)) = After(m.text, at[k + 1])

(* The text ends within line k + 1.                                        *)
LineCut(m, lines, k, s) ==
    /\ m.cut /\ Find(s, LF) = 0 /\ s \in Seq(Sign) /\ Starts(s, lines[k + 1])

(* u is what is in t after position b, c characters.                       *)
IsRest(u, t, C, b, c) ==
    u \in Seq(C) /\ Len(u) = c /\ c \in Nat /\ \A i \in 1 .. c : u[i] = t[b + i]

(* After returns it.                                                       *)
LEMMA RestIs ==
    ASSUME NEW C, NEW t \in Seq(C), NEW b \in Nat, b <= Len(t), NEW c, c = Len(t) - b,
           NEW u, u = After(t, b)
    PROVE  IsRest(u, t, C, b, c)
<1>1. PICK h : h = Len(t)
  OBVIOUS
<1>2. h \in Nat /\ c \in Nat /\ b <= h /\ c = h - b
  BY <1>1
<1>3. PICK from : from = b + 1
  OBVIOUS
<1>4. from \in 1 .. Len(t) + 1 /\ h \in from - 1 .. Len(t) /\ h - from + 1 = c
  BY <1>1, <1>2, <1>3
<1>5. u = SubSeq(t, from, h)
  BY <1>1, <1>3 DEF After
<1>6. u \in Seq(C) /\ Len(u) = h - from + 1 /\ \A i \in 1 .. h - from + 1 : u[i] = t[from + i - 1]
  BY <1>4, <1>5, PartOf
<1>7. \A i \in 1 .. c : from + i - 1 = b + i
  BY <1>2, <1>3
<1>8. QED
  BY <1>2, <1>4, <1>6, <1>7 DEF IsRest

(* The next line is found, or the text is cut within it.                   *)
LEMMA NextLineIs ==
    ASSUME NEW m, NEW at, NEW lines, NEW fields, NEW n, Laid(m, at, lines, fields, n),
           NEW k \in 0 .. n - 1, at[k] <= Len(m.text), NEW s, s = After(m.text, at[k])
    PROVE  LineRead(m, at, lines, k, s) \/ LineCut(m, lines, k, s)
<1>1. PICK t, h, l, b, d, g :
         t = m.text /\ h = Len(t) /\ l = lines[k + 1] /\ b = at[k] /\ d = Len(l) /\ g = at[k + 1]
  OBVIOUS
<1>2. /\ n \in Nat /\ at \in [0 .. n -> Nat] /\ t \in Seq(Sign)
      /\ \A j \in 1 .. n : IsLine(lines[j]) /\ at[j] = at[j - 1] + Len(lines[j]) /\ at[j] <= at[n]
      /\ \A j \in 1 .. n : \A i \in 1 .. Len(lines[j]) : at[j - 1] + i <= h => t[at[j - 1] + i] = lines[j][i]
      /\ ~m.cut => at[n] <= h
  BY <1>1 DEF Laid
<1>3. k \in Nat /\ k \in 0 .. n /\ k + 1 \in 1 .. n /\ (k + 1) - 1 = k
  BY <1>2
<1>4. /\ IsLine(l) /\ g = b + d /\ g <= at[n]
      /\ \A i \in 1 .. d : b + i <= h => t[b + i] = l[i]
  BY <1>1, <1>2, <1>3
<1>5. /\ l \in Seq(Sign) /\ d \in Nat \ {0} /\ l[d] = LF /\ \A i \in 1 .. d - 1 : l[i] # LF
  BY <1>1, <1>4 DEF IsLine
<1>6. h \in Nat /\ b \in Nat /\ g \in Nat /\ g = b + d /\ b <= h /\ at[n] \in Nat
  BY <1>1, <1>2, <1>3
<1>7. PICK c : c = h - b
  OBVIOUS
<1>8. c \in Nat /\ b + c = h
  BY <1>6, <1>7
<1>9. s \in Seq(Sign) /\ Len(s) = c /\ \A i \in 1 .. c : s[i] = t[b + i]
  <2>1. s = After(t, b) /\ b <= Len(t) /\ c = Len(t) - b
    BY <1>1, <1>6, <1>7
  <2>2. IsRest(s, t, Sign, b, c)
    BY <1>2, <1>6, <2>1, RestIs, Zenon
  <2>3. QED
    BY <2>2 DEF IsRest
<1>10. \A i \in 1 .. d : i <= c => s[i] = l[i]
  <2>1. SUFFICES ASSUME NEW i \in 1 .. d, i <= c PROVE s[i] = l[i]
    OBVIOUS
  <2>2. i \in 1 .. c /\ b + i <= h
    BY <1>5, <1>6, <1>8, <2>1
  <2>3. QED
    BY <1>4, <1>9, <2>2
<1>11. CASE g <= h
  <2>1. d <= c /\ d \in 1 .. d /\ d \in 1 .. Len(s) /\ Len(s) \in Nat /\ 1 \in Nat \ {0}
    BY <1>5, <1>6, <1>8, <1>9, <1>11
  <2>2. s[d] = LF
    BY <1>5, <1>10, <2>1
  <2>3. ASSUME NEW i \in 1 .. d - 1 PROVE s[i] # LF
    <3>1. i \in 1 .. d /\ i <= c
      <4>1. d \in Nat /\ c \in Nat /\ d <= c
        BY <1>5, <1>8, <2>1
      <4>2. QED
        BY <4>1
    <3>2. QED
      BY <1>5, <1>10, <3>1
  <2>4. FindFrom(s, LF, 1) = d
    BY <2>1, <2>2, <2>3, FindsAt
  <2>5. Find(s, LF) = d
    BY <2>4 DEF Find
  <2>6. Before(s, d) = Stripped(l)
    <3>1. PICK z, y : z = SubSeq(s, 1, d - 1) /\ y = Stripped(l)
      OBVIOUS
    <3>2. d # 0 /\ d - 1 \in Nat /\ d - 1 <= Len(s)
      BY <1>5, <2>1
    <3>3. Before(s, d) = z
      BY <3>1, <3>2 DEF Before
    <3>4. PICK p : p = d - 1
      OBVIOUS
    <3>5. z \in Seq(Sign) /\ Len(z) = p /\ \A i \in 1 .. p : z[i] = s[i]
      <4>1. p \in Nat /\ p <= Len(s) /\ z = SubSeq(s, 1, p)
        BY <3>1, <3>2, <3>4
      <4>2. QED
        BY <1>9, <4>1
    <3>6. y \in Seq(Sign) /\ Len(y) = p /\ \A i \in 1 .. p : y[i] = l[i]
      BY <1>1, <1>5, <3>1, <3>4, StrippedIs
    <3>7. \A i \in 1 .. p : i \in 1 .. d /\ i <= c
      <4>1. d \in Nat /\ c \in Nat /\ d <= c
        BY <1>5, <1>8, <2>1
      <4>2. QED
        BY <3>4, <4>1
    <3>8. Len(z) = Len(y) /\ \A i \in 1 .. Len(z) : z[i] = y[i]
      BY <1>10, <3>5, <3>6, <3>7
    <3>9. z = y
      BY <3>5, <3>6, <3>8, SeqEqual
    <3>10. QED
      BY <3>1, <3>3, <3>9
  <2>7. After(s, d) = After(t, g)
    <3>1. PICK z, y : z = After(s, d) /\ y = After(t, g)
      OBVIOUS
    <3>2. PICK p : p = c - d
      OBVIOUS
    <3>3. p \in Nat /\ d + p = c /\ g + p = h /\ d \in Nat
      BY <1>5, <1>6, <1>8, <2>1, <3>2
    <3>4. z \in Seq(Sign) /\ Len(z) = p /\ \A i \in 1 .. p : z[i] = s[d + i]
      <4>1. d <= Len(s) /\ p = Len(s) - d
        BY <1>9, <2>1, <3>2
      <4>2. IsRest(z, s, Sign, d, p)
        BY <1>9, <3>1, <3>3, <4>1, RestIs, Zenon
      <4>3. QED
        BY <4>2 DEF IsRest
    <3>5. y \in Seq(Sign) /\ Len(y) = p /\ \A i \in 1 .. p : y[i] = t[g + i]
      <4>1. g <= Len(t) /\ p = Len(t) - g
        BY <1>1, <1>6, <1>11, <3>3
      <4>2. IsRest(y, t, Sign, g, p)
        BY <1>2, <1>6, <3>1, <4>1, RestIs, Zenon
      <4>3. QED
        BY <4>2 DEF IsRest
    <3>6. \A i \in 1 .. p : d + i \in 1 .. c /\ b + (d + i) = g + i
      BY <1>6, <3>3
    <3>7. \A i \in 1 .. p : z[i] = y[i]
      BY <1>9, <3>4, <3>5, <3>6
    <3>8. z = y
      <4>1. Len(z) = Len(y) /\ \A i \in 1 .. Len(z) : z[i] = y[i]
        BY <3>4, <3>5, <3>7
      <4>2. QED
        BY <3>4, <3>5, <4>1, SeqEqual
    <3>9. QED
      BY <3>1, <3>8
  <2>8. d # 0
    BY <1>5
  <2>9. LineRead(m, at, lines, k, s)
    BY <1>1, <1>11, <2>5, <2>6, <2>7, <2>8, Zenon DEF LineRead
  <2>10. QED
    BY <2>9
<1>12. CASE h < g
  <2>1. m.cut
    BY <1>2, <1>4, <1>6, <1>12
  <2>2. c < d /\ c <= d - 1
    BY <1>5, <1>6, <1>8, <1>12
  <2>3. \A i \in 1 .. c : i \in 1 .. d /\ i <= c /\ i \in 1 .. d - 1
    BY <1>5, <1>8, <2>2
  <2>4. \A i \in 1 .. c : s[i] = l[i] /\ s[i] # LF
    BY <1>5, <1>10, <2>3
  <2>5. Find(s, LF) = 0
    <3>1. 1 \in Nat /\ Len(s) \in Nat
      BY <1>8, <1>9
    <3>2. FindFrom(s, LF, 1) = 0
      BY <1>9, <2>4, <3>1, FindsFirst
    <3>3. QED
      BY <3>2 DEF Find
  <2>6. Starts(s, l)
    <3>1. Len(s) <= Len(l)
      BY <1>1, <1>5, <1>8, <1>9, <2>2
    <3>2. QED
      BY <1>9, <2>4, <3>1 DEF Starts
  <2>7. LineCut(m, lines, k, s)
    BY <1>1, <1>9, <2>1, <2>5, <2>6, Zenon DEF LineCut
  <2>8. QED
    BY <2>7
<1>13. QED
  BY <1>6, <1>11, <1>12

(* The first k fields.                                                     *)
Got(fields, k) == {fields[j] : j \in 1 .. k}

(* Nothing is read.                                                        *)
Begun == pstep = "start" /\ good = TRUE /\ stream = message.text /\ line = <<>> /\ header_fields = {}

(* Line k is read, and nothing after it.                                   *)
LineDone(at, lines, k) ==
    /\ good = TRUE /\ at[k] <= Len(message.text) /\ stream = After(message.text, at[k])
    /\ line = Stripped(lines[k])

(* Line k is read, and the k - 2 fields before it are in the header.       *)
AtLine(at, lines, fields, n, k) ==
    /\ k \in 1 .. n /\ LineDone(at, lines, k) /\ parts = PartsOf(message.of, message.kind)
    /\ \/ k = 1 /\ pstep = "header" /\ header_fields = {}
       \/ k # 1 /\ pstep = "fields" /\ header_fields = Got(fields, k - 2)
       \/ k # 1 /\ pstep = "done" /\ k = n /\ header_fields = Got(fields, n - 2)

(* The text has ended within a line: what is in parts and, when parse      *)
(* accepts it, in the header was sent.                                     *)
CutOff(fields) ==
    /\ good = FALSE /\ message.cut
    /\ message.kind = "request" => PartsRight(message.of, parts)
    /\ \/ pstep = "header" /\ header_fields = {}
       \/ pstep = "fields" /\ (Has(line, ":") \/ header_fields \subseteq Held(fields))
       \/ pstep = "done" /\ header_fields \subseteq Held(fields)

(* A text that is cut was refused.                                         *)
Refused == message.cut /\ pstep = "failed"

(* Where parse stands in a message with these lines.                       *)
Standing(at, lines, fields, n) ==
    /\ Laid(message, at, lines, fields, n)
    /\ Begun \/ (\E k : AtLine(at, lines, fields, n, k)) \/ CutOff(fields) \/ Refused

(* The inductive invariant: it stands at some place of the lines the       *)
(* message has.                                                            *)
ParsedSoFar == \E at, lines, fields, n : Standing(at, lines, fields, n)

(* The text has ended within line k.                                       *)
LineLost(lines, k) ==
    good = FALSE /\ message.cut /\ line \in Seq(Sign) /\ Starts(line, lines[k])

(* getline reads the next line, or the text ends within it.                *)
LEMMA GetsLine ==
    ASSUME NEW at, NEW lines, NEW fields, NEW n, Laid(message, at, lines, fields, n),
           NEW k \in 0 .. n - 1, at[k] <= Len(message.text), good = TRUE,
           stream = After(message.text, at[k]), getline, message' = message
    PROVE  LineDone(at, lines, k + 1)' \/ LineLost(lines, k + 1)'
<1>1. LineRead(message, at, lines, k, stream) \/ LineCut(message, lines, k, stream)
  BY NextLineIs, Zenon
<1>2. PICK p : p = Find(stream, LF)
  OBVIOUS
<1>3. Has(stream, LF) <=> p # 0
  BY <1>2 DEF Has
<1>4. /\ line' = Before(stream, p)
      /\ good' = (good /\ Has(stream, LF))
      /\ stream' = IF Has(stream, LF) THEN After(stream, p) ELSE <<>>
  BY <1>2 DEF getline, NextLine
<1>5. CASE LineRead(message, at, lines, k, stream)
  <2>1. /\ p # 0 /\ at[k + 1] <= Len(message.text) /\ Before(stream, p) = Stripped(lines[k + 1])
        /\ After(stream, p) = After(message.text, at[k + 1])
    BY <1>2, <1>5, Zenon DEF LineRead
  <2>2. good' = TRUE /\ line' = Stripped(lines[k + 1]) /\ stream' = After(message.text, at[k + 1])
    BY <1>3, <1>4, <2>1
  <2>3. QED
    BY <2>1, <2>2, Zenon DEF LineDone
<1>6. CASE LineCut(message, lines, k, stream)
  <2>1. message.cut /\ p = 0 /\ stream \in Seq(Sign) /\ Starts(stream, lines[k + 1])
    BY <1>2, <1>6, Zenon DEF LineCut
  <2>2. good' = FALSE /\ line' = stream
    BY <1>3, <1>4, <2>1 DEF Before
  <2>3. QED
    BY <2>1, <2>2, Zenon DEF LineLost
<1>7. QED
  BY <1>1, <1>5, <1>6

(* At the start nothing is read.                                           *)
LEMMA BeginsParsed ==
    ASSUME ParserInit PROVE ParsedSoFar
<1>1. message \in Messages /\ Begun
  BY DEF ParserInit, Begun
<1>2. PICK at, lines, fields, n : Laid(message, at, lines, fields, n)
  BY <1>1, MessagesAreLaid, Zenon
<1>3. QED
  BY <1>1, <1>2, Zenon DEF ParsedSoFar, Standing

(* The first line keeps ParsedSoFar.                                       *)
LEMMA FirstStep ==
    ASSUME NEW at, NEW lines, NEW fields, NEW n, Standing(at, lines, fields, n), ParseFirstLine
    PROVE  Standing(at, lines, fields, n)'
<1>1. /\ Laid(message, at, lines, fields, n)
      /\ Begun \/ (\E k : AtLine(at, lines, fields, n, k)) \/ CutOff(fields) \/ Refused
  BY Zenon DEF Standing
<1>2. /\ pstep = "start" /\ getline /\ message' = message /\ header_fields' = header_fields
      /\ LET first == IF message.kind = "request" THEN RequestLine(line') ELSE StatusLine(line')
         IN  parts' = first.parts /\ pstep' = IF first.ok THEN "header" ELSE "failed"
  BY DEF ParseFirstLine
<1>3. Begun
  <2>1. ~\E k : AtLine(at, lines, fields, n, k)
    BY <1>2 DEF AtLine
  <2>2. ~CutOff(fields) /\ ~Refused
    BY <1>2 DEF CutOff, Refused
  <2>3. QED
    BY <1>1, <2>1, <2>2, Zenon
<1>4. PICK f : f = FirstLine(message.kind, line')
  OBVIOUS
<1>5. parts' = f.parts /\ pstep' = IF f.ok THEN "header" ELSE "failed"
  BY <1>2, <1>4, Zenon DEF FirstLine
<1>6. Laid(message, at, lines, fields, n)'
  BY <1>1, <1>2, Zenon
<1>7. n \in Nat /\ n >= 2 /\ at[0] = 0 /\ message.text \in Seq(Sign)
  BY <1>1 DEF Laid
<1>8. stream = After(message.text, at[0]) /\ at[0] <= Len(message.text) /\ good = TRUE
  <2>1. PICK t : t = message.text
    OBVIOUS
  <2>2. After(t, 0) = t
    <3>1. 0 + 1 = 1
      OBVIOUS
    <3>2. t \in Seq(Sign) /\ SubSeq(t, 1, Len(t)) = t
      BY <1>7, <2>1
    <3>3. QED
      BY <3>1, <3>2 DEF After
  <2>3. Len(t) \in Nat
    BY <1>7, <2>1
  <2>4. 0 <= Len(t)
    BY <2>3
  <2>5. QED
    BY <1>3, <1>7, <2>1, <2>2, <2>4 DEF Begun
<1>9. PICK z : z = 0
  OBVIOUS
<1>10. z \in 0 .. n - 1 /\ z + 1 = 1
  BY <1>7, <1>9
<1>11. LineDone(at, lines, z + 1)' \/ LineLost(lines, z + 1)'
  BY <1>1, <1>2, <1>8, <1>9, <1>10, GetsLine, Zenon
<1>12. FirstIs(message.kind, message.of, lines[1])
  BY <1>1, Zenon DEF Laid
<1>13. header_fields' = {}
  BY <1>2, <1>3 DEF Begun
<1>14. CASE LineDone(at, lines, 1)'
  <2>1. line' = Stripped(lines[1])
    BY <1>14, Zenon DEF LineDone
  <2>2. f = [ok |-> TRUE, parts |-> PartsOf(message.of, message.kind)]
    BY <1>4, <1>12, <2>1, Zenon DEF FirstIs
  <2>3. parts' = PartsOf(message.of, message.kind) /\ pstep' = "header"
    BY <1>5, <2>2
  <2>4. 1 \in 1 .. n
    BY <1>7
  <2>5. AtLine(at, lines, fields, n, 1)'
    BY <1>2, <1>13, <1>14, <2>3, <2>4, Zenon DEF AtLine
  <2>6. QED
    BY <1>6, <2>5, Zenon DEF Standing
<1>15. CASE LineLost(lines, 1)'
  <2>1. good' = FALSE /\ message'.cut /\ line' \in Seq(Sign) /\ Starts(line', lines[1])
    BY <1>15, Zenon DEF LineLost
  <2>2. CASE f.ok
    <3>1. pstep' = "header"
      BY <1>5, <2>2
    <3>2. message'.kind = "request" => PartsRight(message'.of, parts')
      <4>1. SUFFICES ASSUME message.kind = "request" PROVE PartsRight(message.of, parts')
        BY <1>2, Zenon
      <4>2. f = RequestLine(line')
        BY <1>4, <4>1, Zenon DEF FirstLine
      <4>3. PartsRight(message.of, RequestLine(line').parts)
        BY <1>12, <2>1, <2>2, <4>1, <4>2, Zenon DEF FirstIs
      <4>4. QED
        BY <1>5, <4>2, <4>3, Zenon
    <3>3. CutOff(fields)'
      BY <1>13, <2>1, <3>1, <3>2, Zenon DEF CutOff
    <3>4. QED
      BY <1>6, <3>3, Zenon DEF Standing
  <2>3. CASE ~f.ok
    <3>1. Refused'
      BY <1>5, <2>1, <2>3, Zenon DEF Refused
    <3>2. QED
      BY <1>6, <3>1, Zenon DEF Standing
  <2>4. QED
    BY <2>2, <2>3
<1>16. QED
  BY <1>10, <1>11, <1>14, <1>15, Zenon

(* The fields of one more line.                                            *)
LEMMA GotIs ==
    ASSUME NEW fields, Len(fields) \in Nat, NEW k \in Nat
    PROVE  /\ Got(fields, 0) = {} /\ Got(fields, Len(fields)) = Held(fields)
           /\ Got(fields, k + 1) = Got(fields, k) \cup {fields[k + 1]}
           /\ k <= Len(fields) => Got(fields, k) \subseteq Held(fields)
<1>1. PICK n : n = Len(fields)
  OBVIOUS
<1>2. Got(fields, 0) = {}
  BY DEF Got
<1>3. Got(fields, Len(fields)) = Held(fields)
  BY DEF Got, Held
<1>4. Got(fields, k + 1) = Got(fields, k) \cup {fields[k + 1]}
  <2>1. \A j : j \in 1 .. k + 1 <=> j \in 1 .. k \/ j = k + 1
    OBVIOUS
  <2>2. QED
    BY <2>1 DEF Got
<1>5. ASSUME k <= Len(fields) PROVE Got(fields, k) \subseteq Held(fields)
  <2>1. \A j : j \in 1 .. k => j \in 1 .. Len(fields)
    BY <1>5
  <2>2. QED
    BY <2>1 DEF Got, Held
<1>6. QED
  BY <1>2, <1>3, <1>4, <1>5

(* The first line of the header keeps it.                                  *)
LEMMA HeaderStep ==
    ASSUME NEW at, NEW lines, NEW fields, NEW n, Standing(at, lines, fields, n), HeaderBegins
    PROVE  Standing(at, lines, fields, n)'
<1>1. /\ Laid(message, at, lines, fields, n)
      /\ Begun \/ (\E k : AtLine(at, lines, fields, n, k)) \/ CutOff(fields) \/ Refused
  BY Zenon DEF Standing
<1>2. /\ pstep = "header" /\ pstep' = "fields" /\ message' = message /\ parts' = parts
      /\ header_fields' = header_fields
      /\ IF good THEN getline ELSE line' = <<>> /\ UNCHANGED <<stream, good>>
  BY DEF HeaderBegins
<1>3. Laid(message, at, lines, fields, n)'
  BY <1>1, <1>2, Zenon
<1>4. ~Begun /\ ~Refused
  BY <1>2 DEF Begun, Refused
<1>5. n \in Nat /\ n >= 2 /\ Len(fields) \in Nat
  BY <1>1 DEF Laid
<1>6. ASSUME NEW k, AtLine(at, lines, fields, n, k) PROVE Standing(at, lines, fields, n)'
  <2>1. /\ LineDone(at, lines, k) /\ parts = PartsOf(message.of, message.kind)
        /\ k = 1 /\ header_fields = {}
    BY <1>2, <1>6 DEF AtLine
  <2>2. /\ good = TRUE /\ at[k] <= Len(message.text) /\ stream = After(message.text, at[k])
    BY <2>1, Zenon DEF LineDone
  <2>3. getline
    BY <1>2, <2>2
  <2>4. k \in 0 .. n - 1 /\ k + 1 = 2
    BY <1>5, <2>1
  <2>5. LineDone(at, lines, k + 1)' \/ LineLost(lines, k + 1)'
    BY <1>1, <1>2, <2>2, <2>3, <2>4, GetsLine, Zenon
  <2>6. CASE LineDone(at, lines, k + 1)'
    <3>1. PICK j : j = k + 1
      OBVIOUS
    <3>2. j \in 1 .. n /\ j # 1 /\ j - 2 = 0
      BY <1>5, <2>1, <3>1
    <3>3. LineDone(at, lines, j)'
      BY <2>6, <3>1
    <3>4. Got(fields, j - 2) = {}
      BY <1>5, <3>2, GotIs
    <3>5. parts' = PartsOf(message'.of, message'.kind) /\ pstep' = "fields" /\ header_fields' = Got(fields, j - 2)
      BY <1>2, <2>1, <3>4
    <3>6. AtLine(at, lines, fields, n, j)'
      BY <3>2, <3>3, <3>5, Zenon DEF AtLine
    <3>7. QED
      BY <1>3, <3>6, Zenon DEF Standing
  <2>7. CASE LineLost(lines, k + 1)'
    <3>1. good' = FALSE /\ message'.cut
      BY <2>7, Zenon DEF LineLost
    <3>2. message'.kind = "request" => PartsRight(message'.of, parts')
      <4>1. SUFFICES ASSUME message.kind = "request" PROVE PartsRight(message.of, parts')
        BY <1>2, Zenon
      <4>2. parts' = RequestParts(message.of.method, message.of.path, message.of.query_string, message.of.version)
        BY <1>2, <2>1, <4>1, Zenon DEF PartsOf, RequestParts
      <4>3. QED
        BY <4>2, RequestPartsAre DEF PartsRight
    <3>3. header_fields' \subseteq Held(fields) /\ pstep' = "fields"
      BY <1>2, <2>1
    <3>4. CutOff(fields)'
      BY <3>1, <3>2, <3>3, Zenon DEF CutOff
    <3>5. QED
      BY <1>3, <3>4, Zenon DEF Standing
  <2>8. QED
    BY <2>5, <2>6, <2>7
<1>7. CASE CutOff(fields)
  <2>1. /\ good = FALSE /\ message.cut /\ header_fields = {}
        /\ message.kind = "request" => PartsRight(message.of, parts)
    BY <1>2, <1>7 DEF CutOff
  <2>2. good' = FALSE
    BY <1>2, <2>1
  <2>3. header_fields' \subseteq Held(fields)
    BY <1>2, <2>1
  <2>4. CutOff(fields)'
    BY <1>2, <2>1, <2>2, <2>3, Zenon DEF CutOff
  <2>5. QED
    BY <1>3, <2>4, Zenon DEF Standing
<1>8. QED
  BY <1>1, <1>4, <1>6, <1>7, Zenon

(* A field keeps it: a line that is not the last has the field that is     *)
(* read from it.                                                           *)
LEMMA FieldStep ==
    ASSUME NEW at, NEW lines, NEW fields, NEW n, Standing(at, lines, fields, n), ParseField
    PROVE  Standing(at, lines, fields, n)'
<1>1. /\ Laid(message, at, lines, fields, n)
      /\ Begun \/ (\E k : AtLine(at, lines, fields, n, k)) \/ CutOff(fields) \/ Refused
  BY Zenon DEF Standing
<1>2. /\ pstep = "fields" /\ Has(line, ":") /\ header_fields' = header_fields \cup FieldLine(line)
      /\ getline /\ pstep' = pstep /\ message' = message /\ parts' = parts
  BY DEF ParseField
<1>3. Laid(message, at, lines, fields, n)'
  BY <1>1, <1>2, Zenon
<1>4. ~Begun /\ ~Refused
  BY <1>2 DEF Begun, Refused
<1>5. /\ n \in Nat /\ Len(fields) \in Nat /\ n = Len(fields) + 2
      /\ \A k \in 1 .. Len(fields) : HoldsField(lines[k + 1], fields[k])
      /\ ~Has(Stripped(lines[n]), ":")
  BY <1>1, Zenon DEF Laid
<1>6. ASSUME NEW k, AtLine(at, lines, fields, n, k) PROVE Standing(at, lines, fields, n)'
  <2>1. /\ LineDone(at, lines, k) /\ parts = PartsOf(message.of, message.kind)
        /\ k \in 1 .. n /\ k # 1 /\ header_fields = Got(fields, k - 2)
    BY <1>2, <1>6 DEF AtLine
  <2>2. /\ good = TRUE /\ at[k] <= Len(message.text) /\ stream = After(message.text, at[k])
        /\ line = Stripped(lines[k])
    BY <2>1, Zenon DEF LineDone
  <2>3. k # n
    BY <1>2, <1>5, <2>2
  <2>4. PICK i, j : i = k - 2 /\ j = k - 1
    OBVIOUS
  <2>5. /\ i \in Nat /\ j = i + 1 /\ j \in 1 .. Len(fields) /\ k = j + 1 /\ k \in 0 .. n - 1
        /\ k + 1 \in 1 .. n /\ k + 1 # 1 /\ (k + 1) - 2 = j /\ j \in Nat /\ j <= Len(fields)
    BY <1>5, <2>1, <2>3, <2>4
  <2>6. FieldLine(line) = {fields[j]}
    BY <1>5, <2>2, <2>5 DEF HoldsField
  <2>7. header_fields' = Got(fields, j)
    <3>1. Got(fields, i + 1) = Got(fields, i) \cup {fields[i + 1]}
      BY <1>5, <2>5, GotIs
    <3>2. QED
      BY <1>2, <2>1, <2>4, <2>5, <2>6, <3>1
  <2>8. LineDone(at, lines, k + 1)' \/ LineLost(lines, k + 1)'
    BY <1>1, <1>2, <2>2, <2>5, GetsLine, Zenon
  <2>9. CASE LineDone(at, lines, k + 1)'
    <3>1. PICK g : g = k + 1
      OBVIOUS
    <3>2. g \in 1 .. n /\ g # 1 /\ g - 2 = j
      BY <2>5, <3>1
    <3>3. LineDone(at, lines, g)'
      BY <2>9, <3>1
    <3>4. parts' = PartsOf(message'.of, message'.kind) /\ pstep' = "fields" /\ header_fields' = Got(fields, g - 2)
      BY <1>2, <2>1, <2>7, <3>2
    <3>5. AtLine(at, lines, fields, n, g)'
      BY <3>2, <3>3, <3>4, Zenon DEF AtLine
    <3>6. QED
      BY <1>3, <3>5, Zenon DEF Standing
  <2>10. CASE LineLost(lines, k + 1)'
    <3>1. good' = FALSE /\ message'.cut
      BY <2>10, Zenon DEF LineLost
    <3>2. message'.kind = "request" => PartsRight(message'.of, parts')
      <4>1. SUFFICES ASSUME message.kind = "request" PROVE PartsRight(message.of, parts')
        BY <1>2, Zenon
      <4>2. parts' = RequestParts(message.of.method, message.of.path, message.of.query_string, message.of.version)
        BY <1>2, <2>1, <4>1, Zenon DEF PartsOf, RequestParts
      <4>3. QED
        BY <4>2, RequestPartsAre DEF PartsRight
    <3>3. header_fields' \subseteq Held(fields) /\ pstep' = "fields"
      BY <1>2, <1>5, <2>5, <2>7, GotIs
    <3>4. CutOff(fields)'
      BY <3>1, <3>2, <3>3, Zenon DEF CutOff
    <3>5. QED
      BY <1>3, <3>4, Zenon DEF Standing
  <2>11. QED
    BY <2>8, <2>9, <2>10
<1>7. CASE CutOff(fields)
  <2>1. /\ good = FALSE /\ message.cut
        /\ message.kind = "request" => PartsRight(message.of, parts)
    BY <1>7, Zenon DEF CutOff
  <2>2. good' = FALSE /\ line' = line
    BY <1>2, <2>1 DEF getline, NextLine
  <2>3. Has(line', ":")
    BY <1>2, <2>2
  <2>4. CutOff(fields)'
    BY <1>2, <2>1, <2>2, <2>3, Zenon DEF CutOff
  <2>5. QED
    BY <1>3, <2>4, Zenon DEF Standing
<1>8. QED
  BY <1>1, <1>4, <1>6, <1>7, Zenon

(* The end of the header keeps it: a line without a colon is the last one, *)
(* or cut.                                                                 *)
LEMMA EndStep ==
    ASSUME NEW at, NEW lines, NEW fields, NEW n, Standing(at, lines, fields, n), HeaderEnds
    PROVE  Standing(at, lines, fields, n)'
<1>1. /\ Laid(message, at, lines, fields, n)
      /\ Begun \/ (\E k : AtLine(at, lines, fields, n, k)) \/ CutOff(fields) \/ Refused
  BY Zenon DEF Standing
<1>2. /\ pstep = "fields" /\ ~Has(line, ":") /\ pstep' = "done" /\ header_fields' = header_fields
      /\ message' = message /\ parts' = parts /\ stream' = stream /\ good' = good /\ line' = line
  BY DEF HeaderEnds
<1>3. Laid(message, at, lines, fields, n)'
  BY <1>1, <1>2, Zenon
<1>4. ~Begun /\ ~Refused
  BY <1>2 DEF Begun, Refused
<1>5. /\ n \in Nat /\ Len(fields) \in Nat /\ n = Len(fields) + 2
      /\ \A k \in 1 .. Len(fields) : HoldsField(lines[k + 1], fields[k])
  BY <1>1, Zenon DEF Laid
<1>6. ASSUME NEW k, AtLine(at, lines, fields, n, k) PROVE Standing(at, lines, fields, n)'
  <2>1. /\ LineDone(at, lines, k) /\ parts = PartsOf(message.of, message.kind)
        /\ k \in 1 .. n /\ k # 1 /\ header_fields = Got(fields, k - 2)
    BY <1>2, <1>6 DEF AtLine
  <2>2. line = Stripped(lines[k])
    BY <2>1, Zenon DEF LineDone
  <2>3. k = n
    <3>1. SUFFICES ASSUME k # n PROVE FALSE
      OBVIOUS
    <3>2. PICK j : j = k - 1
      OBVIOUS
    <3>3. j \in 1 .. Len(fields) /\ k = j + 1
      BY <1>5, <2>1, <3>1, <3>2
    <3>4. QED
      BY <1>2, <1>5, <2>2, <3>3 DEF HoldsField
  <2>4. LineDone(at, lines, k)'
    BY <1>2, <2>1 DEF LineDone
  <2>5. AtLine(at, lines, fields, n, k)'
    BY <1>2, <2>1, <2>3, <2>4, Zenon DEF AtLine
  <2>6. QED
    BY <1>3, <2>5, Zenon DEF Standing
<1>7. CASE CutOff(fields)
  <2>1. /\ good = FALSE /\ message.cut /\ header_fields \subseteq Held(fields)
        /\ message.kind = "request" => PartsRight(message.of, parts)
    BY <1>2, <1>7 DEF CutOff
  <2>2. CutOff(fields)'
    BY <1>2, <2>1, Zenon DEF CutOff
  <2>3. QED
    BY <1>3, <2>2, Zenon DEF Standing
<1>8. QED
  BY <1>1, <1>4, <1>6, <1>7, Zenon

(* Wherever parse stands, what it returns is what was written.             *)
LEMMA StoppedMessage ==
    ASSUME ParsedSoFar
    PROVE  MessageSurvives /\ NothingInvented
<1>1. PICK at, lines, fields, n :
        /\ Laid(message, at, lines, fields, n)
        /\ Begun \/ (\E k : AtLine(at, lines, fields, n, k)) \/ CutOff(fields) \/ Refused
  BY Zenon DEF ParsedSoFar, Standing
<1>2. /\ n \in Nat /\ Len(fields) \in Nat /\ n = Len(fields) + 2
      /\ Held(fields) = ToSet(message.of.header) \cup LengthField(message.of)
      /\ message.kind = "request" => LengthField(message.of) = {}
  BY <1>1, Zenon DEF Laid
<1>3. "done" # "start" /\ "done" # "failed" /\ "failed" # "start" /\ "done" # "header" /\ "done" # "fields"
  OBVIOUS
<1>4. CASE Begun
  BY <1>4 DEF Begun, MessageSurvives, NothingInvented
<1>5. ASSUME NEW k, AtLine(at, lines, fields, n, k) PROVE MessageSurvives /\ NothingInvented
  <2>1. CASE pstep # "done"
    <3>1. pstep # "failed"
      BY <1>5 DEF AtLine
    <3>2. QED
      BY <2>1, <3>1 DEF MessageSurvives, NothingInvented
  <2>2. CASE pstep = "done"
    <3>1. parts = PartsOf(message.of, message.kind) /\ header_fields = Got(fields, n - 2)
      BY <1>5, <2>2 DEF AtLine
    <3>2. header_fields = Held(fields)
      <4>1. n - 2 = Len(fields)
        BY <1>2
      <4>2. Got(fields, Len(fields)) = Held(fields)
        BY DEF Got, Held
      <4>3. QED
        BY <3>1, <4>1, <4>2
    <3>3. MessageSurvives
      BY <1>2, <2>2, <3>1, <3>2, Zenon DEF MessageSurvives
    <3>4. NothingInvented
      <4>1. SUFFICES ASSUME message.kind = "request" PROVE NothingInvented
        BY Zenon DEF NothingInvented
      <4>2. parts = RequestParts(message.of.method, message.of.path, message.of.query_string, message.of.version)
        BY <3>1, <4>1, Zenon DEF PartsOf, RequestParts
      <4>3. PartsRight(message.of, parts)
        BY <4>2, RequestPartsAre DEF PartsRight
      <4>4. header_fields \subseteq ToSet(message.of.header)
        BY <1>2, <3>2, <4>1
      <4>5. QED
        BY <4>3, <4>4, Zenon DEF NothingInvented, PartsRight
    <3>5. QED
      BY <3>3, <3>4
  <2>3. QED
    BY <2>1, <2>2
<1>6. CASE CutOff(fields)
  <2>1. /\ message.cut
        /\ message.kind = "request" => PartsRight(message.of, parts)
        /\ pstep = "done" => header_fields \subseteq Held(fields)
    BY <1>6 DEF CutOff
  <2>2. MessageSurvives
    BY <2>1, Zenon DEF MessageSurvives
  <2>3. NothingInvented
    <3>1. SUFFICES ASSUME pstep = "done", message.kind = "request" PROVE NothingInvented
      BY Zenon DEF NothingInvented
    <3>2. header_fields \subseteq ToSet(message.of.header)
      BY <1>2, <2>1, <3>1
    <3>3. QED
      BY <2>1, <3>1, <3>2, Zenon DEF NothingInvented, PartsRight
  <2>4. QED
    BY <2>2, <2>3
<1>7. CASE Refused
  BY <1>7 DEF Refused, MessageSurvives, NothingInvented
<1>8. QED
  BY <1>1, <1>4, <1>5, <1>6, <1>7, Zenon

(* Every step keeps ParsedSoFar.                                           *)
LEMMA ParsesOn == ParsedSoFar /\ [ParserNext]_parserVars => ParsedSoFar'
<1>1. SUFFICES ASSUME ParsedSoFar, [ParserNext]_parserVars PROVE ParsedSoFar'
  OBVIOUS
<1>2. PICK at, lines, fields, n : Standing(at, lines, fields, n)
  BY <1>1, Zenon DEF ParsedSoFar
<1>3. SUFFICES Standing(at, lines, fields, n)'
  BY Zenon DEF ParsedSoFar
<1>4. CASE ParseFirstLine
  BY <1>2, <1>4, FirstStep, Zenon
<1>5. CASE HeaderBegins
  BY <1>2, <1>5, HeaderStep, Zenon
<1>6. CASE ParseField
  BY <1>2, <1>6, FieldStep, Zenon
<1>7. CASE HeaderEnds
  BY <1>2, <1>7, EndStep, Zenon
<1>8. CASE UNCHANGED parserVars
  <2>1. /\ message' = message /\ stream' = stream /\ good' = good /\ line' = line /\ pstep' = pstep
        /\ parts' = parts /\ header_fields' = header_fields
    BY <1>8 DEF parserVars
  <2>2. QED
    BY <1>2, <2>1 DEF Standing, Begun, AtLine, LineDone, CutOff, Refused
<1>9. QED
  BY <1>1, <1>4, <1>5, <1>6, <1>7, <1>8, Zenon DEF ParserNext

-----------------------------------------------------------------------------
(* The theorems about messages.                                            *)

(* parse goes through the lines of a message one by one (utility.hpp:143   *)
(* and the getline before it), and has of each what to_string wrote there; *)
(* ParsedSoFar is the inductive invariant.                                 *)
THEOREM ParsedAsWritten == ParserSpec => []ParsedSoFar
<1>1. ParserInit => ParsedSoFar
  BY BeginsParsed
<1>2. QED
  BY <1>1, ParsesOn, PTL DEF ParserSpec

(* What Request::to_string and Response::to_string write is read back by   *)
(* parse as it was, however many fields there are and however long they    *)
(* are, also when other text follows (http.cpp against utility.hpp).       *)
THEOREM MessageReturns == ParserSpec => []MessageSurvives
<1>1. ParsedSoFar => MessageSurvives
  BY StoppedMessage
<1>2. QED
  BY <1>1, ParsedAsWritten, PTL

(* When parse accepts the beginning of a request, it has the method, the   *)
(* path and the query that were sent and no field that was not, wherever   *)
(* the text is cut (utility.hpp, the character dropped at the end of each  *)
(* line).                                                                  *)
THEOREM NothingIsInvented == ParserSpec => []NothingInvented
<1>1. ParsedSoFar => NothingInvented
  BY StoppedMessage
<1>2. QED
  BY <1>1, ParsedAsWritten, PTL
=============================================================================
