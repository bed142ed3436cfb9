---------------------------- MODULE MocksProofs -----------------------------
(***************************************************************************)
(* Theorems about the proxy against the device mock and a device against   *)
(* the proxy mock, for scripts of any length.                              *)
(***************************************************************************)
EXTENDS Mocks, SequenceTheorems, TLAPS

-----------------------------------------------------------------------------
(* Rising positions in a script of m commands so far.                      *)
Rising(at, n, m) ==
    /\ at \in [1 .. n -> 1 .. m]
    /\ \A k \in 2 .. n : at[k - 1] < at[k]

(* They still rise without the one at c,                                   *)
LEMMA RisingWithout ==
    ASSUME NEW n \in Nat, NEW m \in Nat, NEW at, NEW c \in 1 .. n, Rising(at, n, m)
    PROVE  Rising([k \in 1 .. n - 1 |-> IF k < c THEN at[k] ELSE at[k + 1]],
                  n - 1, m)
<1>1. \A k \in 1 .. n : at[k] \in Int
  BY DEF Rising
<1>2. \A k \in 1 .. n : k + 1 <= n => at[k] < at[k + 1]
  <2> SUFFICES ASSUME NEW k \in 1 .. n, k + 1 <= n
               PROVE  at[k] < at[k + 1]
    OBVIOUS
  <2>1. k + 1 \in 2 .. n /\ (k + 1) - 1 = k
    OBVIOUS
  <2> QED
    BY <2>1 DEF Rising
<1> DEFINE new == [k \in 1 .. n - 1 |-> IF k < c THEN at[k] ELSE at[k + 1]]
<1>3. new \in [1 .. n - 1 -> 1 .. m]
  BY DEF Rising
<1>4. ASSUME NEW k \in 2 .. n - 1
      PROVE  new[k - 1] < new[k]
  <2>1. CASE k < c
    BY <1>2, <2>1
  <2>2. CASE k = c
    <3>1. at[k - 1] < at[k] /\ at[k] < at[k + 1]
      BY <1>2
    <3>2. at[k - 1] \in Int /\ at[k] \in Int /\ at[k + 1] \in Int
      BY <1>1
    <3>3. new[k - 1] = at[k - 1] /\ new[k] = at[k + 1]
      BY <2>2
    <3> QED
      BY <3>1, <3>2, <3>3
  <2>3. CASE k > c
    BY <1>2, <2>3
  <2> QED
    BY <2>1, <2>2, <2>3
<1> QED
  BY <1>3, <1>4 DEF Rising

(* without the first c,                                                    *)
LEMMA RisingAfter ==
    ASSUME NEW n \in Nat, NEW m \in Nat, NEW at, NEW c \in 0 .. n, Rising(at, n, m)
    PROVE  Rising([k \in 1 .. n - c |-> at[k + c]], n - c, m)
<1> DEFINE new == [k \in 1 .. n - c |-> at[k + c]]
<1>1. new \in [1 .. n - c -> 1 .. m]
  BY DEF Rising
<1>2. ASSUME NEW k \in 2 .. n - c
      PROVE  new[k - 1] < new[k]
  <2>1. k + c \in 2 .. n /\ (k - 1) + c = (k + c) - 1
    OBVIOUS
  <2>2. at[(k + c) - 1] < at[k + c]
    BY <2>1 DEF Rising
  <2> QED
    BY <2>1, <2>2
<1> QED
  BY <1>1, <1>2 DEF Rising

(* when the script goes on,                                                *)
LEMMA RisingOn ==
    ASSUME NEW n \in Nat, NEW m \in Nat, NEW at, Rising(at, n, m)
    PROVE  Rising(at, n, m + 1)
BY DEF Rising

(* and with the command that was carried out last.                         *)
LEMMA RisingWith ==
    ASSUME NEW n \in Nat, NEW m \in Nat, NEW at, Rising(at, n, m)
    PROVE  Rising([k \in 1 .. n + 1 |-> IF k <= n THEN at[k] ELSE m + 1],
                  n + 1, m + 1)
<1> DEFINE new == [k \in 1 .. n + 1 |-> IF k <= n THEN at[k] ELSE m + 1]
<1>1. new \in [1 .. n + 1 -> 1 .. m + 1]
  BY DEF Rising
<1>2. ASSUME NEW k \in 2 .. n + 1
      PROVE  new[k - 1] < new[k]
  <2>1. CASE k <= n
    BY <2>1 DEF Rising
  <2>2. CASE k = n + 1
    <3>1. n \in 1 .. n /\ at[n] \in 1 .. m
      BY <2>2 DEF Rising
    <3>2. new[k - 1] = at[n] /\ new[k] = m + 1
      BY <2>2, <3>1
    <3> QED
      BY <3>1, <3>2
  <2> QED
    BY <2>1, <2>2
<1> QED
  BY <1>1, <1>2 DEF Rising

-----------------------------------------------------------------------------
LEMMA MockPacketFields ==
    ASSUME NEW c
    PROVE  /\ FromDeviceMock(c).type = c.type
           /\ FromDeviceMock(c).count = WireCount(c.count, c.session)
           /\ FromDeviceMock(c).session = WireSession(c.session)
BY DEF FromDeviceMock

(* The packets of the device mock's script.                                *)
Scripted == {FromDeviceMock(commands[p]) : p \in Nat}

(* The commands whose packets the proxy has counted, and behind them those *)
(* whose packets it has yet to read, in the order of the script.           *)
ReadInv ==
    \E at :
        /\ Rising(at, i + Len(toProxy), position)
        /\ \A k \in 1 .. i : Said(at[k], k)
        /\ \A k \in 1 .. Len(toProxy) :
              toProxy[k] = FromDeviceMock(commands[at[i + k]])

ScriptInv ==
    /\ i \in Nat /\ position \in Nat /\ request.size \in Nat
    /\ pstate \in {"accept", "client"} => i = 0
    /\ IF mock = "device-mock" THEN /\ toProxy \in Seq(Scripted)
                                    /\ ReadInv /\ ~awaiting
                               ELSE pstate = "accept"

Script == <<mock, commands, position>>

LEMMA ScriptInvInit == Init => ScriptInv
<1> SUFFICES ASSUME Init PROVE ScriptInv
  OBVIOUS
<1>1. /\ toProxy = <<>> /\ i = 0 /\ position = 0 /\ pstate = "accept"
      /\ request.size \in Nat
  BY DEF Init, NetworkInit, ProxyInit, MockInit, Garbage, Mixed
<1>2. toProxy \in Seq(Scripted) /\ Len(toProxy) = 0
  BY <1>1
<1> DEFINE none == [k \in 1 .. 0 |-> k]
<1>3. Rising(none, 0, 0)
  BY DEF Rising
<1>4. i + Len(toProxy) = 0
  BY <1>1, <1>2
<1> HIDE DEF none
<1>5. ReadInv
  BY <1>1, <1>2, <1>3, <1>4 DEF ReadInv
<1> QED
  BY <1>1, <1>2, <1>5 DEF ScriptInv, Init, MockInit

LEMMA ReadInvAfter ==
    ASSUME UNCHANGED Script, NEW at, NEW m, NEW n,
           m = i', n = Len(toProxy'), Rising(at, m + n, position),
           \A k \in 1 .. m : Said(at[k], k)',
           \A k \in 1 .. n : toProxy'[k] = FromDeviceMock(commands[at[m + k]])
    PROVE  ReadInv'
<1>1. commands' = commands /\ position' = position
  BY DEF Script
<1> QED
  BY <1>1 DEF ReadInv, FromDeviceMock

(* A step of the proxy that reads nothing.                                 *)
LEMMA NothingRead ==
    ASSUME ScriptInv, mock = "device-mock", UNCHANGED <<Script, toProxy>>,
           \/ i' = i /\ UNCHANGED <<request, current_session_id>>
           \/ i' = 0
    PROVE  (toProxy \in Seq(Scripted) /\ ReadInv)'
<1>1. PICK at :
         /\ Rising(at, i + Len(toProxy), position)
         /\ \A k \in 1 .. i : Said(at[k], k)
         /\ \A k \in 1 .. Len(toProxy) :
               toProxy[k] = FromDeviceMock(commands[at[i + k]])
  BY DEF ScriptInv, ReadInv
<1>2. /\ Len(toProxy) \in Nat /\ i \in Nat /\ position \in Nat
      /\ toProxy \in Seq(Scripted)
  BY LenProperties DEF ScriptInv
<1>3. (toProxy \in Seq(Scripted))'
  BY <1>2 DEF Script, Scripted, FromDeviceMock
<1>4. CASE i' = i /\ UNCHANGED <<request, current_session_id>>
  BY <1>1, <1>3, <1>4 DEF ReadInv, Script, Said, FromDeviceMock
<1>5. CASE i' = 0
  <2>1. PICK n \in Nat : n = Len(toProxy)
    BY <1>2
  <2>2. Rising([k \in 1 .. (i + n) - i |-> at[k + i]], (i + n) - i, position)
    <3>1. i + n \in Nat /\ i \in 0 .. i + n
      BY <1>2
    <3> QED
      BY <1>1, <1>2, <2>1, <3>1, RisingAfter
  <2>3. (i + n) - i = n
    BY <1>2
  <2>4. PICK new : new = [k \in 1 .. n |-> at[k + i]]
    OBVIOUS
  <2>5. Rising(new, i' + n, position)
    BY <1>5, <2>2, <2>3, <2>4
  <2>6. \A k \in 1 .. n : new[0 + k] = at[i + k]
    BY <1>2, <2>4
  <2> QED
    <3>1. \A k \in 1 .. n : toProxy'[k] = FromDeviceMock(commands[new[0 + k]])
      <4>1. \A k \in 1 .. n : toProxy[k] = FromDeviceMock(commands[at[i + k]])
        BY <1>1, <2>1
      <4>2. toProxy' = toProxy
        OBVIOUS
      <4> QED
        BY <2>6, <4>1, <4>2
    <3>2. n = Len(toProxy')
      BY <2>1
    <3> QED
      BY <1>3, <1>5, <2>5, <3>1, <3>2, ReadInvAfter
<1> QED
  BY <1>4, <1>5

(* A step of the device mock.                                              *)
LEMMA CommandDone ==
    ASSUME ScriptInv, mock = "device-mock", MockStep
    PROVE  ScriptInv'
<1>1. UNCHANGED <<proxyVars, mock, commands>>
  BY DEF MockStep, DeviceMockReplies, ProxyMockSends, ProxyMockReceives,
         MockSleeps, MockCloses, DropAfterClose, mockVars
<1>2. /\ i \in Nat /\ position \in Nat /\ request.size \in Nat
      /\ toProxy \in Seq(Scripted) /\ Len(toProxy) \in Nat
      /\ i + Len(toProxy) \in Nat
  BY LenProperties DEF ScriptInv
<1>3. PICK at :
         /\ Rising(at, i + Len(toProxy), position)
         /\ \A k \in 1 .. i : Said(at[k], k)
         /\ \A k \in 1 .. Len(toProxy) :
               toProxy[k] = FromDeviceMock(commands[at[i + k]])
  BY DEF ScriptInv, ReadInv
<1>4. ~awaiting'
  BY DEF ScriptInv, MockStep, DeviceMockReplies, ProxyMockSends,
         ProxyMockReceives, MockSleeps, MockCloses, DropAfterClose, mockVars
<1>5. CASE UNCHANGED toProxy /\ position' \in {position, position + 1}
  <2>1. Rising(at, i + Len(toProxy), position')
    BY <1>2, <1>3, <1>5, RisingOn
  <2>2. ReadInv'
    BY <1>1, <1>3, <1>5, <2>1 DEF ReadInv, Said, FromDeviceMock, proxyVars
  <2> QED
    BY <1>1, <1>2, <1>5, <1>4, <2>2 DEF ScriptInv, Scripted, FromDeviceMock, proxyVars
<1>6. CASE /\ toProxy' = Append(toProxy, FromDeviceMock(Command))
           /\ position' = position + 1
  <2>1. FromDeviceMock(Command) \in Scripted
    BY <1>2 DEF Scripted, Command
  <2>2. /\ toProxy' \in Seq(Scripted) /\ Len(toProxy') = Len(toProxy) + 1
        /\ toProxy'[Len(toProxy) + 1] = FromDeviceMock(Command)
        /\ \A k \in 1 .. Len(toProxy) : toProxy'[k] = toProxy[k]
    BY <1>2, <1>6, <2>1, AppendProperties
  <2>3. PICK n \in Nat : n = i + Len(toProxy)
    BY <1>2
  <2>4. PICK new : new = [k \in 1 .. n + 1 |-> IF k <= n THEN at[k] ELSE position + 1]
    OBVIOUS
  <2>5. Rising(new, n + 1, position + 1)
    BY <1>2, <1>3, <2>3, <2>4, RisingWith
  <2>6. i' + Len(toProxy') = n + 1
    BY <1>1, <1>2, <2>2, <2>3 DEF proxyVars
  <2>7. \A k \in 1 .. i : new[k] = at[k]
    BY <1>2, <2>3, <2>4
  <2>8. ASSUME NEW k \in 1 .. Len(toProxy')
        PROVE  toProxy'[k] = FromDeviceMock(commands[new[i + k]])
    <3>1. CASE k \in 1 .. Len(toProxy)
      <4>1. new[i + k] = at[i + k]
        BY <1>2, <2>3, <2>4, <3>1
      <4> QED
        BY <1>3, <2>2, <3>1, <4>1
    <3>2. CASE k = Len(toProxy) + 1
      <4>1. new[i + k] = position + 1
        BY <1>2, <2>3, <2>4, <3>2
      <4> QED
        BY <2>2, <3>2, <4>1 DEF Command
    <3> QED
      BY <1>2, <2>2, <2>8, <3>1, <3>2
  <2>9. \A k \in 1 .. i : Said(new[k], k)'
    BY <1>1, <1>3, <2>7 DEF Said, proxyVars
  <2>10. i' = i /\ commands' = commands /\ position' = position + 1
    BY <1>1, <1>6 DEF proxyVars
  <2>11. ReadInv'
    BY <2>5, <2>6, <2>8, <2>9, <2>10 DEF ReadInv, FromDeviceMock
  <2>12. (toProxy \in Seq(Scripted))'
    BY <1>1, <2>2 DEF Scripted, FromDeviceMock
  <2> QED
    BY <1>1, <1>2, <1>4, <2>10, <2>11, <2>12 DEF ScriptInv, proxyVars
<1>7. \/ UNCHANGED toProxy /\ position' \in {position, position + 1}
      \/ /\ toProxy' = Append(toProxy, FromDeviceMock(Command))
         /\ position' = position + 1
  <2>1. ~awaiting
    BY DEF ScriptInv
  <2> QED
    <3>1. CASE DeviceMockReplies
      BY <3>1 DEF DeviceMockReplies, Put
    <3>2. CASE MockSleeps
      BY <3>2 DEF MockSleeps, network
    <3>3. CASE MockCloses
      BY <3>3 DEF MockCloses
    <3>4. CASE DropAfterClose
      BY <3>4 DEF DropAfterClose, mockVars
    <3> QED
      BY <2>1, <3>1, <3>2, <3>3, <3>4 DEF MockStep, ProxyMockSends, ProxyMockReceives
<1> QED
  BY <1>5, <1>6, <1>7

(* A step of the proxy that reads a packet and counts it, or not, or ends  *)
(* the session.                                                            *)
LEMMA PacketRead ==
    ASSUME ScriptInv, mock = "device-mock", UNCHANGED Script,
           HasReply, toProxy' = Tail(toProxy),
           \/ /\ i' = i + 1 /\ AckAccepted
              /\ UNCHANGED <<request, current_session_id>>
           \/ i' = i /\ UNCHANGED <<request, current_session_id>>
           \/ i' = 0
    PROVE  (toProxy \in Seq(Scripted) /\ ReadInv)'
<1>1. PICK at :
         /\ Rising(at, i + Len(toProxy), position)
         /\ \A k \in 1 .. i : Said(at[k], k)
         /\ \A k \in 1 .. Len(toProxy) :
               toProxy[k] = FromDeviceMock(commands[at[i + k]])
  BY DEF ScriptInv, ReadInv
<1>2. toProxy \in Seq(Scripted) /\ i \in Nat /\ position \in Nat /\ request.size \in Nat
  BY DEF ScriptInv
<1>3. /\ Tail(toProxy) \in Seq(Scripted) /\ Head(toProxy) = toProxy[1]
      /\ Len(Tail(toProxy)) = Len(toProxy) - 1
      /\ \A k \in 1 .. Len(Tail(toProxy)) : Tail(toProxy)[k] = toProxy[k + 1]
  BY <1>2, HeadTailProperties DEF HasReply
<1>4. PICK n \in Nat : n + 1 = Len(toProxy)
  <2>1. Len(toProxy) \in Nat \ {0}
    BY <1>2, EmptySeq DEF HasReply
  <2>2. PICK l : l = Len(toProxy)
    OBVIOUS
  <2>3. l - 1 \in Nat /\ (l - 1) + 1 = l
    BY <2>1, <2>2
  <2> QED
    BY <2>2, <2>3
<1>5. (toProxy \in Seq(Scripted))' /\ Len(toProxy') = n
  <2>1. Scripted' = Scripted
    BY DEF Script, Scripted, FromDeviceMock
  <2>2. Len(toProxy') = Len(toProxy) - 1 /\ toProxy' \in Seq(Scripted)
    BY <1>3
  <2>3. PICK m : m = Len(toProxy)
    OBVIOUS
  <2>4. m - 1 = n
    BY <1>4, <2>3
  <2> QED
    BY <2>1, <2>2, <2>3, <2>4
<1>6. Rising(at, i + (n + 1), position)
  BY <1>1, <1>4
<1>7. \A k \in 1 .. n : toProxy'[k] = FromDeviceMock(commands[at[i + (k + 1)]])
  BY <1>1, <1>3, <1>4
<1>8. CASE i' = i + 1 /\ AckAccepted /\ UNCHANGED <<request, current_session_id>>
  <2>1. Reply = FromDeviceMock(commands[at[i + 1]])
    BY <1>1, <1>3, <1>4 DEF Reply
  <2>2. Said(at[i + 1], i + 1)
    <3>1. PICK p : p = at[i + 1]
      OBVIOUS
    <3>2. /\ commands[p].type = "ACK"
          /\ WireSession(commands[p].session) = current_session_id
          /\ WireCount(commands[p].count, commands[p].session) = request.size - i
      BY <1>8, <2>1, <3>1, MockPacketFields DEF AckAccepted, SessionMatches, CountMatches
    <3>3. request.size + 1 - (i + 1) = request.size - i
      BY <1>2
    <3> QED
      BY <3>1, <3>2, <3>3 DEF Said
  <2>3. Rising(at, i' + n, position)
    <3>1. i + (n + 1) = (i + 1) + n
      BY <1>2
    <3> QED
      BY <1>6, <1>8, <3>1
  <2>4. \A k \in 1 .. i + 1 : Said(at[k], k)
    BY <1>1, <1>2, <2>2
  <2>5. \A k \in 1 .. n : i + (k + 1) = (i + 1) + k
    BY <1>2
  <2>6. \A k \in 1 .. i + 1 : Said(at[k], k)'
    BY <1>8, <2>4 DEF Said, Script
  <2>7. PICK m : m = i + 1
    OBVIOUS
  <2>8. \A k \in 1 .. n : toProxy'[k] = FromDeviceMock(commands[at[m + k]])
    BY <1>7, <2>5, <2>7
  <2> QED
    BY <1>5, <1>8, <2>3, <2>6, <2>7, <2>8, ReadInvAfter
<1>9. CASE i' = i /\ UNCHANGED <<request, current_session_id>>
  <2>1. PICK new : new = [k \in 1 .. (i + (n + 1)) - 1 |->
                             IF k < i + 1 THEN at[k] ELSE at[k + 1]]
    OBVIOUS
  <2>2. i + 1 \in 1 .. i + (n + 1) /\ (i + (n + 1)) - 1 = i + n
        /\ i + (n + 1) \in Nat
    BY <1>2
  <2>3. Rising(new, i + n, position)
    BY <1>2, <1>6, <2>1, <2>2, RisingWithout
  <2>4. \A k \in 1 .. i : new[k] = at[k]
    BY <1>2, <2>1, <2>2
  <2>5. \A k \in 1 .. n : new[i + k] = at[i + (k + 1)]
    BY <1>2, <2>1, <2>2
  <2>6. \A k \in 1 .. i : Said(new[k], k)'
    BY <1>1, <1>9, <2>4 DEF Said, Script
  <2>7. PICK m : m = i
    OBVIOUS
  <2>8. \A k \in 1 .. n : toProxy'[k] = FromDeviceMock(commands[new[m + k]])
    BY <1>7, <2>5, <2>7
  <2> QED
    BY <1>5, <1>9, <2>3, <2>6, <2>7, <2>8, ReadInvAfter
<1>10. CASE i' = 0
  <2>1. PICK new : new = [k \in 1 .. n |-> at[k + (i + 1)]]
    OBVIOUS
  <2>2. i + 1 \in 0 .. i + (n + 1) /\ (i + (n + 1)) - (i + 1) = n
        /\ i + (n + 1) \in Nat
    BY <1>2
  <2>3. Rising(new, n, position)
    BY <1>2, <1>6, <2>1, <2>2, RisingAfter
  <2>4. \A k \in 1 .. n : new[0 + k] = at[i + (k + 1)]
    BY <1>2, <2>1
  <2>5. \A k \in 1 .. n : toProxy'[k] = FromDeviceMock(commands[new[0 + k]])
    BY <1>7, <2>4
  <2> QED
    BY <1>5, <1>10, <2>3, <2>5, ReadInvAfter
<1> QED
  BY <1>8, <1>9, <1>10

(* A step of the proxy that does not count what it reads, if it reads.     *)
LEMMA ProxyTurns ==
    ASSUME ScriptInv, mock = "device-mock", UNCHANGED mockVars, i' \in Nat,
           request'.size \in Nat, pstate' \in {"accept", "client"} => i' = 0,
           \/ UNCHANGED toProxy
           \/ HasReply /\ toProxy' = Tail(toProxy),
           \/ i' = i /\ UNCHANGED <<request, current_session_id>>
           \/ i' = 0
    PROVE  ScriptInv'
<1>1. UNCHANGED Script /\ awaiting' = awaiting /\ mock' = mock /\ position' = position
  BY DEF mockVars, Script
<1>2. (toProxy \in Seq(Scripted) /\ ReadInv)'
  BY <1>1, NothingRead, PacketRead
<1> QED
  BY <1>1, <1>2 DEF ScriptInv

LEMMA ScriptInvProxy ==
    ASSUME ScriptInv, ProxyStep
    PROVE  ScriptInv'
<1>1. mock = "device-mock" /\ UNCHANGED mockVars /\ i \in Nat /\ request.size \in Nat
  BY DEF ProxyStep, ScriptInv
<1> USE <1>1
<1>2. CASE Accept \/ ClientGone
  BY <1>2, ProxyTurns DEF Accept, ClientGone, ScriptInv, network
<1>3. ASSUME NEW kind \in RequestKinds,
             RequestUnknown(kind) \/ RequestForward(kind) \/ RequestTooLong(kind)
      PROVE  ScriptInv'
  <2>1. NextRequest(kind).size \in Nat
    BY ProxyAssumption DEF NextRequest
  <2>2. /\ i' = 0 /\ UNCHANGED toProxy
        /\ request' = request \/ request' = NextRequest(kind)
    BY <1>3 DEF ScriptInv, RequestUnknown, RequestForward, RequestTooLong,
                StartSession, AnswerClient, network
  <2> QED
    BY <2>1, <2>2, ProxyTurns
<1>4. CASE AckNext \/ AckLast
  <2>1. /\ HasReply /\ toProxy' = Tail(toProxy) /\ AckAccepted /\ i' = i + 1
        /\ UNCHANGED <<request, current_session_id>>
        /\ pstate' \in {"sendData", "receiveData"}
    BY <1>4 DEF AckNext, AckLast, SendDataReceives
  <2>2. UNCHANGED Script /\ awaiting' = awaiting /\ mock' = mock /\ position' = position
    BY DEF mockVars, Script
  <2>3. (toProxy \in Seq(Scripted) /\ ReadInv)'
    BY <2>1, <2>2, PacketRead
  <2> QED
    BY <2>1, <2>2, <2>3 DEF ScriptInv
<1>5. CASE AckWrongCount \/ AckWrongSession
  BY <1>5, ProxyTurns DEF AckWrongCount, AckWrongSession, SendDataReceives
<1>6. CASE SendDataWrongType
  BY <1>6, ProxyTurns DEF SendDataWrongType, SendDataReceives, Throw, AnswerClient
<1>7. CASE ResponseWrongSession \/ ResponseLast
  BY <1>7, ProxyTurns DEF ResponseWrongSession, ResponseLast, ReceiveDataReceives,
                          Throw, AnswerClient
<1>8. CASE ResponseMore
  BY <1>8, ProxyTurns DEF ResponseMore, ReceiveDataReceives
<1>9. CASE Resend \/ MaxRetransmissionsReached
  BY <1>9, ProxyTurns DEF Resend, MaxRetransmissionsReached, SendDataTimesOut,
                          Throw, AnswerClient
<1>10. CASE ResponseTimesOut
  BY <1>10, ProxyTurns DEF ResponseTimesOut, Throw, AnswerClient, network
<1> QED
  BY <1>2, <1>3, <1>4, <1>5, <1>6, <1>7, <1>8, <1>9, <1>10
     DEF ProxyStep, ClientStep, ProxyReceives, ProxyTimesOut

LEMMA ScriptInvStep == ScriptInv /\ [Next]_vars => ScriptInv'
<1> SUFFICES ASSUME ScriptInv, [Next]_vars PROVE ScriptInv'
  OBVIOUS
<1>1. CASE ProxyStep
  BY <1>1, ScriptInvProxy
<1>2. CASE DeviceStep
  BY <1>2 DEF DeviceStep, ScriptInv, proxyVars, mockVars
<1>3. CASE MockStep
  <2>1. CASE mock = "device-mock"
    BY <1>3, <2>1, CommandDone
  <2>2. CASE mock # "device-mock"
    <3>1. UNCHANGED <<proxyVars, mock>> /\ position' \in {position, position + 1}
      BY <1>3 DEF MockStep, DeviceMockReplies, ProxyMockSends, ProxyMockReceives,
                  MockSleeps, MockCloses, DropAfterClose, mockVars
    <3> QED
      BY <2>2, <3>1 DEF ScriptInv, proxyVars
  <2> QED
    BY <2>1, <2>2
<1>4. CASE UNCHANGED vars
  <2>1. UNCHANGED <<proxyVars, mockVars, toProxy>>
    BY <1>4 DEF vars, network
  <2>2. ReadInv => ReadInv'
    BY <2>1 DEF ReadInv, Said, FromDeviceMock, proxyVars, mockVars
  <2> QED
    BY <2>1, <2>2 DEF ScriptInv, Scripted, FromDeviceMock, proxyVars, mockVars
<1> QED
  BY <1>1, <1>2, <1>3, <1>4 DEF Next

(* However long the script: what SendDataDevice has counted, the device    *)
(* mock has acknowledged, one after the other and for this session         *)
(* (proxy.cpp:154-161).                                                    *)
THEOREM AckedInOrderHolds == Spec => []AckedInOrder
<1>1. ScriptInv => AckedInOrder
  <2> SUFFICES ASSUME ScriptInv, pstate \in {"sendData", "receiveData"}
               PROVE  \E at \in [1 .. i -> 1 .. position] :
                         \A k \in 1 .. i :
                            Said(at[k], k) /\ (k > 1 => at[k - 1] < at[k])
    BY DEF AckedInOrder
  <2>1. mock = "device-mock" /\ i \in Nat
    BY DEF ScriptInv
  <2>2. PICK at : /\ Rising(at, i + Len(toProxy), position)
                  /\ \A k \in 1 .. i : Said(at[k], k)
    BY <2>1 DEF ScriptInv, ReadInv
  <2>3. Len(toProxy) \in Nat
    BY <2>1, LenProperties DEF ScriptInv
  <2>4. PICK first : first = [k \in 1 .. i |-> at[k]]
    OBVIOUS
  <2>5. first \in [1 .. i -> 1 .. position]
    BY <2>1, <2>2, <2>3, <2>4 DEF Rising
  <2>6. ASSUME NEW k \in 1 .. i
        PROVE  Said(first[k], k) /\ (k > 1 => first[k - 1] < first[k])
    <3>1. first[k] = at[k] /\ (k > 1 => first[k - 1] = at[k - 1])
      BY <2>1, <2>4
    <3>2. k > 1 => k \in 2 .. i + Len(toProxy)
      BY <2>1, <2>3
    <3> QED
      BY <2>2, <3>1, <3>2 DEF Rising
  <2> QED
    BY <2>5, <2>6
<1> QED
  BY <1>1, ScriptInvInit, ScriptInvStep, PTL DEF Spec

-----------------------------------------------------------------------------
(* Scripts for the proxy mock whose packets have headers a proxy sends.    *)
LikeAProxy ==
    /\ mocked \in Devices /\ StackJunk = FALSE
    /\ \A c \in ProxyCommands :
          /\ c.session \in WireSessions /\ c.count \in Nat
          /\ c.type = "DATA" => c.count > 0

Latest == Max(Exchanged)

Ended(k) == Refused(k) \/ commands[k].count = 1

(* The device is outside a session, or in one after packet k.              *)
Fresh == session_id[mocked] = Unset /\ packet_counter[mocked] = Unset

After(k) ==
    /\ session_id[mocked] = WireSession(commands[k].session)
    /\ packet_counter[mocked] = commands[k].count - 1

DeviceTurn == IF Exchanged = {} \/ Ended(Latest) THEN Fresh ELSE After(Latest)

InTurn(k) ==
    commands[k].type = "DATA" /\ (Exchanged # {} => Continues(Latest, k))

(* p is the answer to packet k that the packets before it call for, and    *)
(* the device has taken packet k or not accordingly.                       *)
RightAnswer(p, k) ==
    /\ p.type = "ACK" <=> InTurn(k)
    /\ InTurn(k) => /\ p.count = commands[k].count
                    /\ p.session = WireSession(commands[k].session)
    /\ IF InTurn(k) /\ commands[k].count # 1 THEN After(k) ELSE Fresh

(* One packet at most is on its way: the mock's, or the answer to it.      *)
ExchangeInv ==
    IF awaiting
      THEN /\ position = Len(replies) + 1
           /\ \/ /\ toDevice[mocked] = <<FromProxyMock(commands[position])>>
                 /\ toProxy = <<>> /\ DeviceTurn
              \/ /\ toDevice[mocked] = <<>>
                 /\ \E p : toProxy = <<p>> /\ RightAnswer(p, position)
      ELSE /\ position = Len(replies) /\ DeviceTurn
           /\ toDevice[mocked] = <<>> /\ toProxy = <<>>

IsSeq(q) == \E S : q \in Seq(S)

Before(k) == {j \in Exchanged : j < k}

HistoryInv ==
    /\ IsSeq(replies) /\ AckedInTurn
    /\ Exchanged # {} => Latest \in Exchanged
    /\ \A k \in Exchanged : Before(k) # {} => Max(Before(k)) \in Before(k)

TurnInv ==
    /\ HistoryInv
    /\ IF mock = "proxy-mock"
         THEN /\ commands \in Seq(ProxyCommands) /\ position \in 0 .. Len(commands)
              /\ DOMAIN toDevice = Devices
              /\ DOMAIN session_id = Devices /\ DOMAIN packet_counter = Devices
              /\ ExchangeInv
         ELSE ~awaiting /\ Exchanged = {}

(* The latest of some exchanges when one more is added.                    *)
LEMMA LatestOfMore ==
    ASSUME NEW S \in SUBSET Nat, NEW k \in Nat, \A j \in S : j < k
    PROVE  Max(S \cup {k}) = k
<1>1. \A j \in S \cup {k} : k >= j
  OBVIOUS
<1>2. \A x \in S \cup {k} : (\A j \in S \cup {k} : x >= j) => x = k
  OBVIOUS
<1> QED
  BY <1>1, <1>2 DEF Max

LEMMA TurnInvInit ==
    ASSUME LikeAProxy, Init
    PROVE  TurnInv
<1>1. /\ replies = <<>> /\ position = 0 /\ awaiting = FALSE
      /\ toProxy = <<>> /\ toDevice = [d \in Devices |-> <<>>]
      /\ session_id = [d \in Devices |-> Unset]
      /\ packet_counter = [d \in Devices |-> Unset]
  BY DEF Init, NetworkInit, DeviceInit, MockInit
<1>2. Exchanged = {}
  <2>1. DOMAIN replies = 1 .. Len(replies) /\ Len(replies) = 0
    BY <1>1
  <2> QED
    BY <2>1 DEF Exchanged
<1>3. HistoryInv /\ Len(replies) = 0
  <2>1. replies \in Seq({}) /\ Len(replies) = 0
    BY <1>1
  <2> QED
    BY <1>2, <2>1 DEF HistoryInv, IsSeq, AckedInTurn
<1>4. mock = "proxy-mock" => commands \in Seq(ProxyCommands)
  <2>1. mock = "proxy-mock" => commands \in SeqOf(ProxyCommands, MaxScript)
    BY DEF Init, MockInit
  <2>2. ASSUME NEW m \in 0 .. MaxScript, commands \in [1 .. m -> ProxyCommands]
        PROVE  commands \in Seq(ProxyCommands)
    BY <2>2
  <2> QED
    BY <2>1, <2>2 DEF SeqOf
<1>5. mock = "proxy-mock" => ExchangeInv
  BY <1>1, <1>2, <1>3 DEF ExchangeInv, DeviceTurn, Fresh, LikeAProxy
<1>6. mock = "proxy-mock" => position \in 0 .. Len(commands)
  BY <1>1, <1>4, LenProperties
<1> QED
  BY <1>1, <1>2, <1>3, <1>4, <1>5, <1>6 DEF TurnInv


(* A device in Run sends one packet.                                       *)
LEMMA SendsOne ==
    ASSUME LikeAProxy, NEW type \in {"ACK", "ERROR"}, NEW count, NEW session,
           toProxy = <<>>, Send(mocked, type, count, session, <<>>)
    PROVE  \E p :
              /\ toProxy' = <<p>> /\ p.type = type
              /\ type = "ACK" => /\ p.count = WireCount(count, session)
                                 /\ p.session = WireSession(session)
<1>1. PICK sent \in DevicePackets(mocked, type, count, session, <<>>) :
         toProxy' = PutSent(toProxy, sent)
  BY DEF Send
<1>2. \E p : /\ sent = <<p>> /\ p.type = type
             /\ type = "ACK" => /\ p.count = WireCount(count, session)
                                /\ p.session = WireSession(session)
  BY DEF DevicePackets, LikeAProxy, Overlong
<1>3. PICK p : /\ sent = <<p>> /\ p.type = type
               /\ type = "ACK" => /\ p.count = WireCount(count, session)
                                  /\ p.session = WireSession(session)
  BY <1>2
<1>4. <<p>> # <<>> /\ <<p>>[1] = p /\ Append(<<>>, p) = <<p>> /\ Len(<<>>) = 0
  <2>1. <<>> \in Seq({p}) /\ p \in {p}
    OBVIOUS
  <2>2. Append(<<>>, p) = <<p>>
    BY <2>1
  <2> QED
    BY <2>2
<1>5. toProxy' = <<p>>
  <2>1. Len(toProxy) < QueueCap
    BY <1>4, NetworkAssumption
  <2> QED
    BY <1>1, <1>3, <1>4, <2>1 DEF PutSent, Put
<1> QED
  BY <1>3, <1>5

(* What Run does with packet k: it takes the packet exactly when its turn  *)
(* is now.                                                                 *)
LEMMA TakesInTurn ==
    ASSUME LikeAProxy, TurnInv, mock = "proxy-mock", DeviceTurn,
           NEW k \in 1 .. Len(commands), NEW p, p = FromProxyMock(commands[k])
    PROVE  /\ p.type = commands[k].type /\ p.count = commands[k].count
           /\ p.session = WireSession(commands[k].session)
           /\ WireSession(p.session) = p.session
           /\ \A count : WireCount(count, p.session) = count
           /\ p.count \in Nat
           /\ (/\ p.type = "DATA" /\ CountExpected(mocked, p)
               /\ SessionExpected(mocked, p)) <=> InTurn(k)
           /\ CountExpected(mocked, p) => Counter(mocked, p) = p.count
<1>1. commands[k] \in ProxyCommands
  BY ElementOfSeq DEF TurnInv
<1>2. PICK c \in ProxyCommands : c = commands[k]
  BY <1>1
<1>3. c.session \in WireSessions /\ c.count \in Nat /\ (c.type = "DATA" => c.count > 0)
  BY DEF LikeAProxy
<1>4. WireSession(c.session) = c.session /\ \A count : WireCount(count, c.session) = count
  BY <1>3, AAAAssumption DEF WireSession, WireCount, WireSessions
<1>5. p.type = c.type /\ p.count = c.count /\ p.session = c.session
  BY <1>2, <1>4 DEF FromProxyMock
<1>6. CountExpected(mocked, p) => Counter(mocked, p) = p.count
  BY DEF CountExpected, Counter
<1>7. CASE Exchanged = {} \/ Ended(Latest)
  <2>1. Fresh
    BY <1>7 DEF DeviceTurn
  <2>2. CountExpected(mocked, p) /\ SessionExpected(mocked, p)
    BY <2>1 DEF Fresh, CountExpected, SessionExpected
  <2>3. InTurn(k) <=> c.type = "DATA"
    BY <1>2, <1>7 DEF InTurn, Continues, Ended
  <2> QED
    BY <1>2, <1>3, <1>4, <1>5, <1>6, <2>2, <2>3
<1>8. CASE Exchanged # {} /\ ~Ended(Latest)
  <2>1. PICK j : j = Latest
    OBVIOUS
  <2>2. j \in Exchanged /\ After(j) /\ ~Refused(j) /\ commands[j].count # 1
    BY <1>8, <2>1 DEF DeviceTurn, TurnInv, HistoryInv, Ended
  <2>3. j \in 1 .. Len(commands)
    <3>1. /\ position \in 0 .. Len(commands) /\ Len(replies) <= position
          /\ Len(commands) \in Nat
      BY LenProperties DEF TurnInv, ExchangeInv
    <3>2. DOMAIN replies = 1 .. Len(replies) /\ Len(replies) \in Nat
      BY LenProperties DEF TurnInv, HistoryInv, IsSeq
    <3> QED
      BY <2>2, <3>1, <3>2 DEF Exchanged
  <2>4. commands[j] \in ProxyCommands /\ commands[j].type = "DATA"
    BY <2>2, <2>3, ElementOfSeq DEF TurnInv, HistoryInv, AckedInTurn
  <2>5. PICK b \in ProxyCommands : b = commands[j]
    BY <2>4
  <2>6. b.session \in WireSessions /\ b.count \in Nat /\ b.count > 0 /\ b.count # 1
    BY <2>2, <2>4, <2>5 DEF LikeAProxy
  <2>7. WireSession(b.session) = b.session
    BY <2>6, AAAAssumption DEF WireSession, WireSessions
  <2>8. packet_counter[mocked] = b.count - 1 /\ session_id[mocked] = b.session
    BY <2>2, <2>5, <2>7 DEF After
  <2>9. packet_counter[mocked] # Unset /\ session_id[mocked] # Unset
    BY <2>6, <2>8 DEF Unset, WireSessions
  <2>10. InTurn(k) <=> /\ c.type = "DATA" /\ b.session = c.session
                       /\ c.count = b.count - 1
    BY <1>2, <1>4, <1>8, <2>1, <2>2, <2>5, <2>7 DEF InTurn, Continues
  <2>11. (CountExpected(mocked, p) <=> c.count = b.count - 1)
         /\ (SessionExpected(mocked, p) <=> b.session = c.session)
    BY <1>5, <2>8, <2>9 DEF CountExpected, SessionExpected
  <2> QED
    BY <1>2, <1>3, <1>4, <1>5, <1>6, <2>10, <2>11
<1> QED
  BY <1>7, <1>8


LEMMA HistoryKept ==
    ASSUME UNCHANGED <<commands, replies>>, HistoryInv
    PROVE  HistoryInv'
<1>1. Exchanged' = Exchanged
  BY DEF Exchanged
<1>2. Latest' = Latest /\ \A k : Before(k)' = Before(k)
  BY <1>1 DEF Latest, Before
<1>3. IsSeq(replies)'
  BY DEF HistoryInv, IsSeq
<1>4. AckedInTurn'
  BY DEF HistoryInv, AckedInTurn, Exchanged, Continues, Refused
<1> QED
  BY <1>1, <1>2, <1>3, <1>4 DEF HistoryInv

LEMMA DeviceAnswers ==
    ASSUME LikeAProxy, TurnInv, DeviceStep
    PROVE  TurnInv'
<1>1. mock = "proxy-mock" /\ UNCHANGED mockVars /\ HasPacket(mocked)
  BY DEF DeviceStep, RunWrongCount, RunWrongSession, RunWrongType, RunFragment,
         RunUnparsed, TakeFragment
<1>2. /\ awaiting /\ position = Len(replies) + 1
      /\ toDevice[mocked] = <<FromProxyMock(commands[position])>>
      /\ toProxy = <<>> /\ DeviceTurn
  BY <1>1 DEF TurnInv, ExchangeInv, HasPacket
<1>3. PICK k \in 1 .. Len(commands) : k = position
  <2>1. position \in 0 .. Len(commands) /\ Len(replies) \in Nat
    BY <1>1, LenProperties DEF TurnInv, HistoryInv, IsSeq
  <2> QED
    BY <1>2, <2>1
<1>4. PICK p : p = FromProxyMock(commands[k])
  OBVIOUS
<1>5. Incoming(mocked) = p /\ Tail(toDevice[mocked]) = <<>>
  <2>1. Head(<<p>>) = p /\ Tail(<<p>>) = <<>>
    <3>1. <<p>> \in Seq({p}) /\ Len(<<p>>) = 1
      OBVIOUS
    <3> QED
      BY <3>1
  <2> QED
    BY <1>2, <1>3, <1>4, <2>1 DEF Incoming
<1>6. /\ p.type = commands[k].type /\ p.count = commands[k].count
      /\ p.session = WireSession(commands[k].session)
      /\ WireSession(p.session) = p.session
      /\ \A count : WireCount(count, p.session) = count
      /\ p.count \in Nat
      /\ (/\ p.type = "DATA" /\ CountExpected(mocked, p)
          /\ SessionExpected(mocked, p)) <=> InTurn(k)
      /\ CountExpected(mocked, p) => Counter(mocked, p) = p.count
  BY <1>1, <1>2, <1>4, TakesInTurn
<1>7. Consume(mocked) /\ UNCHANGED mockVars
  BY <1>5 DEF DeviceStep, RunWrongCount, RunWrongSession, RunWrongType,
         RunFragment, RunUnparsed, TakeFragment
<1>8. /\ mocked \in DOMAIN session_id /\ mocked \in DOMAIN packet_counter
      /\ mocked \in DOMAIN toDevice
  BY <1>1 DEF TurnInv, LikeAProxy
<1>9. \E q : toProxy' = <<q>> /\ RightAnswer(q, k)'
  <2>1. ASSUME ~InTurn(k), NEW count, NEW session,
               Send(mocked, "ERROR", count, session, <<>>), Reset(mocked)
        PROVE  \E q : toProxy' = <<q>> /\ RightAnswer(q, k)'
    <3>1. PICK q : toProxy' = <<q>> /\ q.type = "ERROR"
      BY <1>2, <2>1, SendsOne
    <3>2. Fresh'
      BY <1>8, <2>1 DEF Reset, Fresh
    <3>3. ~InTurn(k)'
      BY <1>7, <2>1 DEF mockVars, InTurn, Latest, Exchanged, Continues, Refused
    <3>4. RightAnswer(q, k)'
      BY <3>1, <3>2, <3>3 DEF RightAnswer
    <3> QED
      BY <3>1, <3>4
  <2>2. ASSUME InTurn(k), Send(mocked, "ACK", p.count, p.session, <<>>),
               IF p.count = 1
                 THEN Reset(mocked)
                 ELSE /\ session_id' = [session_id EXCEPT ![mocked] = p.session]
                      /\ packet_counter' =
                            [packet_counter EXCEPT ![mocked] = p.count - 1]
        PROVE  \E q : toProxy' = <<q>> /\ RightAnswer(q, k)'
    <3>1. PICK q : /\ toProxy' = <<q>> /\ q.type = "ACK"
                   /\ q.count = WireCount(p.count, p.session)
                   /\ q.session = WireSession(p.session)
      BY <1>2, <2>2, SendsOne
    <3>2. q.count = commands[k].count /\ q.session = WireSession(commands[k].session)
      BY <1>6, <3>1
    <3>3. IF commands[k].count # 1 THEN After(k)' ELSE Fresh'
      BY <1>6, <1>7, <1>8, <2>2 DEF Reset, Fresh, After, mockVars
    <3>4. InTurn(k)'
      BY <1>7, <2>2 DEF mockVars, InTurn, Latest, Exchanged, Continues, Refused
    <3>5. commands' = commands
      BY <1>7 DEF mockVars
    <3>6. RightAnswer(q, k)'
      BY <3>1, <3>2, <3>3, <3>4, <3>5 DEF RightAnswer
    <3> QED
      BY <3>1, <3>6
  <2>3. CASE RunWrongCount(mocked)
    BY <1>5, <1>6, <2>1, <2>3 DEF RunWrongCount
  <2>4. CASE RunWrongSession(mocked)
    BY <1>5, <1>6, <2>1, <2>4 DEF RunWrongSession
  <2>5. CASE RunWrongType(mocked)
    BY <1>5, <1>6, <2>1, <2>5 DEF RunWrongType
  <2>6. CASE RunFragment(mocked)
    <3>1. InTurn(k) /\ Counter(mocked, p) = p.count
      BY <1>5, <1>6, <2>6 DEF RunFragment, TakeFragment
    <3>2. /\ Send(mocked, "ACK", p.count, p.session, <<>>) /\ p.count # 1
          /\ session_id' = [session_id EXCEPT ![mocked] = p.session]
          /\ packet_counter' = [packet_counter EXCEPT ![mocked] = p.count - 1]
      BY <1>5, <2>6, <3>1 DEF RunFragment
    <3> QED
      BY <2>2, <3>1, <3>2
  <2>7. CASE RunUnparsed(mocked)
    <3>1. InTurn(k) /\ Counter(mocked, p) = p.count
      BY <1>5, <1>6, <2>7 DEF RunUnparsed, TakeFragment
    <3>2. /\ Send(mocked, "ACK", p.count, p.session, <<>>) /\ p.count = 1
          /\ Reset(mocked)
      BY <1>5, <2>7, <3>1 DEF RunUnparsed
    <3> QED
      BY <2>2, <3>1, <3>2
  <2> QED
    BY <2>3, <2>4, <2>5, <2>6, <2>7 DEF DeviceStep
<1>10. toDevice'[mocked] = <<>> /\ DOMAIN toDevice' = DOMAIN toDevice
  BY <1>5, <1>7, <1>8 DEF Consume
<1>11. DOMAIN session_id' = DOMAIN session_id
       /\ DOMAIN packet_counter' = DOMAIN packet_counter
  BY DEF DeviceStep, RunWrongCount, RunWrongSession, RunWrongType, RunFragment,
         RunUnparsed, Reset
<1>12. ExchangeInv'
  BY <1>2, <1>3, <1>7, <1>9, <1>10 DEF ExchangeInv, mockVars
<1>13. HistoryInv'
  BY <1>7, HistoryKept DEF TurnInv, mockVars
<1> QED
  BY <1>1, <1>7, <1>10, <1>11, <1>12, <1>13 DEF TurnInv, mockVars


(* The answer to packet n joins the history.                               *)
LEMMA HistoryGrows ==
    ASSUME HistoryInv, NEW n, n = Len(replies) + 1, NEW p, RightAnswer(p, n),
           replies' = Append(replies, <<p>>), UNCHANGED commands
    PROVE  /\ HistoryInv' /\ Len(replies') = n
           /\ Exchanged' # {} /\ Latest' = n /\ (Refused(n)' <=> ~InTurn(n))
<1>1. PICK S : replies \in Seq(S)
  BY DEF HistoryInv, IsSeq
<1>2. /\ Len(replies) \in Nat /\ DOMAIN replies = 1 .. Len(replies)
      /\ n \in Nat \ {0}
  BY <1>1, LenProperties
<1>3. /\ replies \in Seq(S \cup {<<p>>}) /\ <<p>> \in S \cup {<<p>>}
  BY <1>1, SeqMonotonic
<1>4. /\ replies' \in Seq(S \cup {<<p>>}) /\ Len(replies') = n /\ replies'[n] = <<p>>
      /\ \A j \in 1 .. Len(replies) : replies'[j] = replies[j]
  BY <1>3, AppendProperties
<1>5. DOMAIN replies' = 1 .. n
  BY <1>4, LenProperties
<1>6. <<p>> # <<>> /\ <<p>>[1] = p
  OBVIOUS
<1>7. Exchanged' = Exchanged \cup {n}
  BY <1>2, <1>4, <1>5, <1>6 DEF Exchanged
<1>8. \A j \in Exchanged : j \in Nat /\ j < n /\ (Refused(j)' <=> Refused(j))
  BY <1>2, <1>4 DEF Exchanged, Refused
<1>9. Refused(n)' <=> ~InTurn(n)
  BY <1>4, <1>6 DEF Refused, RightAnswer
<1>10. Latest' = n
  <2>1. Max(Exchanged \cup {n}) = n
    BY <1>2, <1>8, LatestOfMore
  <2> QED
    BY <1>7, <2>1 DEF Latest
<1>11. \A k \in Exchanged : Before(k)' = Before(k)
  BY <1>2, <1>7, <1>8 DEF Before
<1>12. Before(n)' = Exchanged
  BY <1>2, <1>7, <1>8 DEF Before
<1>13. \A j \in Exchanged : \A k : Continues(j, k)' <=> Continues(j, k)
  BY <1>8 DEF Continues
<1>14. \A k \in Exchanged' : Before(k)' # {} => Max(Before(k)') \in Before(k)'
  BY <1>7, <1>11, <1>12 DEF HistoryInv, Latest
<1>15. ASSUME NEW k \in Exchanged
       PROVE  (/\ ~Refused(k) <=>
                     /\ commands[k].type = "DATA"
                     /\ Before(k) # {} => Continues(Max(Before(k)), k)
               /\ ~Refused(k) =>
                     /\ replies[k][1].count = commands[k].count
                     /\ replies[k][1].session = WireSession(commands[k].session))'
  <2>1. /\ ~Refused(k) <=>
              /\ commands[k].type = "DATA"
              /\ Before(k) # {} => Continues(Max(Before(k)), k)
        /\ ~Refused(k) =>
              /\ replies[k][1].count = commands[k].count
              /\ replies[k][1].session = WireSession(commands[k].session)
    BY DEF HistoryInv, AckedInTurn, Before
  <2>2. Before(k) # {} => Max(Before(k)) \in Exchanged
    BY DEF HistoryInv, Before
  <2>3. PICK last : last = Max(Before(k))
    OBVIOUS
  <2>4. Before(k) # {} => (Continues(last, k)' <=> Continues(last, k))
    BY <1>13, <2>2, <2>3
  <2>5. replies'[k] = replies[k] /\ Before(k)' = Before(k) /\ commands' = commands
        /\ (Refused(k)' <=> Refused(k))
    BY <1>2, <1>4, <1>8, <1>11 DEF Exchanged
  <2>6. Max(Before(k))' = last
    BY <2>3, <2>5
  <2> QED
    BY <2>1, <2>3, <2>4, <2>5, <2>6
<1>16. (/\ ~Refused(n) <=>
              /\ commands[n].type = "DATA"
              /\ Before(n) # {} => Continues(Max(Before(n)), n)
        /\ ~Refused(n) =>
              /\ replies[n][1].count = commands[n].count
              /\ replies[n][1].session = WireSession(commands[n].session))'
  <2>1. PICK last : last = Latest
    OBVIOUS
  <2>2. Before(n)' # {} => (Continues(last, n)' <=> Continues(last, n))
    BY <1>12, <1>13, <2>1 DEF HistoryInv
  <2>3. Max(Before(n))' = last
    BY <1>12, <2>1 DEF Latest
  <2>4. replies'[n][1] = p /\ commands' = commands
    BY <1>4, <1>6
  <2> QED
    BY <1>9, <1>12, <2>1, <2>2, <2>3, <2>4 DEF InTurn, RightAnswer
<1>17. AckedInTurn'
  BY <1>7, <1>15, <1>16 DEF AckedInTurn, Before
<1>18. IsSeq(replies)'
  BY <1>4 DEF IsSeq
<1> QED
  BY <1>4, <1>7, <1>9, <1>10, <1>14, <1>17, <1>18 DEF HistoryInv


(* So does a delay, which changes nothing of it.                           *)
LEMMA HistorySleeps ==
    ASSUME HistoryInv, replies' = Append(replies, <<>>), UNCHANGED commands
    PROVE  /\ HistoryInv' /\ Len(replies') = Len(replies) + 1
           /\ Exchanged' = Exchanged
           /\ Exchanged # {} => (Ended(Latest)' <=> Ended(Latest))
<1>1. PICK S : replies \in Seq(S)
  BY DEF HistoryInv, IsSeq
<1>2. Len(replies) \in Nat /\ DOMAIN replies = 1 .. Len(replies)
  BY <1>1, LenProperties
<1>3. replies \in Seq(S \cup {<<>>}) /\ <<>> \in S \cup {<<>>}
  BY <1>1, SeqMonotonic
<1>4. /\ replies' \in Seq(S \cup {<<>>}) /\ Len(replies') = Len(replies) + 1
      /\ replies'[Len(replies) + 1] = <<>>
      /\ \A j \in 1 .. Len(replies) : replies'[j] = replies[j]
  BY <1>3, AppendProperties
<1>5. DOMAIN replies' = 1 .. Len(replies) + 1
  BY <1>4, LenProperties
<1>6. Exchanged' = Exchanged
  BY <1>2, <1>4, <1>5 DEF Exchanged
<1>7. \A j \in Exchanged : replies'[j] = replies[j] /\ (Refused(j)' <=> Refused(j))
  BY <1>2, <1>4 DEF Exchanged, Refused
<1>8. Latest' = Latest /\ \A k : Before(k)' = Before(k)
  BY <1>6 DEF Latest, Before
<1>9. \A j \in Exchanged : \A k : Continues(j, k)' <=> Continues(j, k)
  BY <1>7 DEF Continues
<1>10. ASSUME NEW k \in Exchanged
       PROVE  (/\ ~Refused(k) <=>
                     /\ commands[k].type = "DATA"
                     /\ Before(k) # {} => Continues(Max(Before(k)), k)
               /\ ~Refused(k) =>
                     /\ replies[k][1].count = commands[k].count
                     /\ replies[k][1].session = WireSession(commands[k].session))'
  <2>1. /\ ~Refused(k) <=>
              /\ commands[k].type = "DATA"
              /\ Before(k) # {} => Continues(Max(Before(k)), k)
        /\ ~Refused(k) =>
              /\ replies[k][1].count = commands[k].count
              /\ replies[k][1].session = WireSession(commands[k].session)
    BY DEF HistoryInv, AckedInTurn, Before
  <2>2. PICK last : last = Max(Before(k))
    OBVIOUS
  <2>3. Before(k) # {} => (Continues(last, k)' <=> Continues(last, k))
    BY <1>9, <2>2 DEF HistoryInv, Before
  <2>4. Max(Before(k))' = last
    BY <1>8, <2>2
  <2> QED
    BY <1>7, <1>8, <2>1, <2>2, <2>3, <2>4
<1>11. AckedInTurn'
  BY <1>6, <1>10 DEF AckedInTurn, Before
<1>12. HistoryInv'
  <2>1. IsSeq(replies)'
    BY <1>4 DEF IsSeq
  <2> QED
    BY <1>6, <1>8, <1>11, <2>1 DEF HistoryInv
<1>13. Exchanged # {} => (Ended(Latest)' <=> Ended(Latest))
  <2>1. PICK last : last = Latest
    OBVIOUS
  <2>2. Exchanged # {} => (Refused(last)' <=> Refused(last))
    BY <1>7, <2>1 DEF HistoryInv
  <2> QED
    BY <1>8, <2>1, <2>2 DEF Ended
<1> QED
  BY <1>4, <1>6, <1>12, <1>13

LEMMA ProxyMockTurns ==
    ASSUME LikeAProxy, TurnInv, MockStep, mock = "proxy-mock"
    PROVE  TurnInv'
<1>1. /\ commands \in Seq(ProxyCommands) /\ position \in 0 .. Len(commands)
      /\ DOMAIN toDevice = Devices
      /\ DOMAIN session_id = Devices /\ DOMAIN packet_counter = Devices
      /\ ExchangeInv /\ HistoryInv /\ mocked \in Devices
  BY DEF TurnInv, LikeAProxy
<1>2. UNCHANGED <<session_id, packet_counter, mock, commands>>
  BY DEF MockStep, DeviceMockReplies, ProxyMockSends, ProxyMockReceives,
         MockSleeps, MockCloses, DropAfterClose, deviceVars, mockVars
<1>3. Len(replies) \in Nat /\ Len(commands) \in Nat
  BY <1>1, LenProperties DEF HistoryInv, IsSeq
<1>4. CASE ProxyMockSends
  <2>1. /\ ~awaiting /\ position < Len(commands) /\ position' = position + 1
        /\ awaiting' /\ UNCHANGED <<toProxy, replies>>
    BY <1>4 DEF ProxyMockSends, IsPacket, HasCommand
  <2>2. /\ position = Len(replies) /\ DeviceTurn
        /\ toDevice[mocked] = <<>> /\ toProxy = <<>>
    BY <1>1, <2>1 DEF ExchangeInv
  <2>3. PICK p : p = FromProxyMock(commands[position + 1])
    OBVIOUS
  <2>4. Put(<<>>, p) = <<p>>
    <3>1. <<>> \in Seq({p}) /\ Len(<<>>) = 0
      OBVIOUS
    <3>2. Append(<<>>, p) = <<p>>
      BY <3>1
    <3> QED
      BY <3>1, <3>2, NetworkAssumption DEF Put
  <2>5. /\ toDevice'[mocked] = <<FromProxyMock(commands[position + 1])>>
        /\ DOMAIN toDevice' = Devices
    BY <1>1, <1>4, <2>2, <2>3, <2>4 DEF ProxyMockSends, Command
  <2>6. HistoryInv'
    BY <1>1, <1>2, <2>1, HistoryKept
  <2>7. DeviceTurn'
    BY <1>2, <2>1, <2>2 DEF DeviceTurn, Fresh, After, Exchanged, Latest, Ended, Refused
  <2>8. ExchangeInv'
    BY <1>2, <2>1, <2>2, <2>5, <2>7 DEF ExchangeInv, FromProxyMock
  <2> QED
    BY <1>1, <1>2, <1>3, <2>1, <2>5, <2>6, <2>8 DEF TurnInv
<1>5. CASE ProxyMockReceives
  <2>1. /\ awaiting /\ toProxy # <<>> /\ toProxy' = Tail(toProxy) /\ ~awaiting'
        /\ replies' = Append(replies, <<Head(toProxy)>>)
        /\ UNCHANGED <<toDevice, position>>
    BY <1>5 DEF ProxyMockReceives
  <2>2. PICK p : /\ toProxy = <<p>> /\ RightAnswer(p, position)
                 /\ toDevice[mocked] = <<>> /\ position = Len(replies) + 1
    BY <1>1, <2>1 DEF ExchangeInv
  <2>3. Head(<<p>>) = p /\ Tail(<<p>>) = <<>>
    <3>1. <<p>> \in Seq({p}) /\ Len(<<p>>) = 1
      OBVIOUS
    <3> QED
      BY <3>1
  <2>4. toProxy' = <<>> /\ replies' = Append(replies, <<p>>)
    BY <2>1, <2>2, <2>3
  <2>5. PICK n : n = position
    OBVIOUS
  <2>6. /\ HistoryInv' /\ Len(replies') = n
        /\ Exchanged' # {} /\ Latest' = n /\ (Refused(n)' <=> ~InTurn(n))
    BY <1>1, <1>2, <2>2, <2>4, <2>5, HistoryGrows
  <2>7. Ended(Latest)' <=> ~InTurn(n) \/ commands[n].count = 1
    BY <1>2, <2>6 DEF Ended
  <2>8. IF InTurn(n) /\ commands[n].count # 1 THEN After(n) ELSE Fresh
    BY <2>2, <2>5 DEF RightAnswer
  <2>9. (After(n) => After(Latest)') /\ (Fresh => Fresh')
    BY <1>2, <2>6 DEF After, Fresh
  <2>10. DeviceTurn'
    BY <2>6, <2>7, <2>8, <2>9 DEF DeviceTurn
  <2>11. ExchangeInv'
    BY <2>1, <2>2, <2>4, <2>5, <2>6, <2>10 DEF ExchangeInv
  <2> QED
    BY <1>1, <1>2, <2>1, <2>6, <2>11 DEF TurnInv
<1>6. CASE MockSleeps
  <2>1. /\ ~awaiting /\ position < Len(commands) /\ position' = position + 1
        /\ ~awaiting' /\ UNCHANGED <<toProxy, toDevice>>
        /\ replies' = Append(replies, <<>>)
    BY <1>6 DEF MockSleeps, IsDelay, HasCommand, network
  <2>2. /\ position = Len(replies) /\ DeviceTurn
        /\ toDevice[mocked] = <<>> /\ toProxy = <<>>
    BY <1>1, <2>1 DEF ExchangeInv
  <2>3. /\ HistoryInv' /\ Len(replies') = Len(replies) + 1
        /\ Exchanged' = Exchanged
        /\ Exchanged # {} => (Ended(Latest)' <=> Ended(Latest))
    BY <1>1, <1>2, <2>1, HistorySleeps
  <2>4. Latest' = Latest
    BY <2>3 DEF Latest
  <2>5. DeviceTurn'
    BY <1>2, <2>2, <2>3, <2>4 DEF DeviceTurn, Fresh, After
  <2>6. ExchangeInv'
    BY <2>1, <2>2, <2>3, <2>5 DEF ExchangeInv
  <2> QED
    BY <1>1, <1>2, <1>3, <2>1, <2>3, <2>6 DEF TurnInv
<1>7. CASE MockCloses
  <2>1. /\ ~awaiting /\ toProxy' = <<>>
        /\ UNCHANGED <<awaiting, position, replies, toDevice>>
    BY <1>7 DEF MockCloses
  <2>2. /\ position = Len(replies) /\ DeviceTurn /\ toDevice[mocked] = <<>>
    BY <1>1, <2>1 DEF ExchangeInv
  <2>3. HistoryInv'
    BY <1>1, <1>2, <2>1, HistoryKept
  <2>4. DeviceTurn'
    BY <1>2, <2>1, <2>2 DEF DeviceTurn, Fresh, After, Exchanged, Latest, Ended, Refused
  <2>5. ExchangeInv'
    BY <2>1, <2>2, <2>4 DEF ExchangeInv
  <2> QED
    BY <1>1, <1>2, <2>1, <2>3, <2>5 DEF TurnInv
<1> QED
  BY <1>4, <1>5, <1>6, <1>7 DEF MockStep, DeviceMockReplies, DropAfterClose

LEMMA DeviceMockTurns ==
    ASSUME TurnInv, mock # "proxy-mock", MockStep
    PROVE  TurnInv'
<1>1. ~awaiting /\ Exchanged = {} /\ HistoryInv
  BY DEF TurnInv
<1>2. /\ UNCHANGED <<mock, commands>> /\ ~awaiting'
      /\ UNCHANGED replies \/ replies' = Append(replies, <<>>)
  BY <1>1 DEF MockStep, DeviceMockReplies, ProxyMockSends, ProxyMockReceives,
              MockSleeps, MockCloses, DropAfterClose, mockVars
<1>3. HistoryInv' /\ Exchanged' = Exchanged
  <2>1. CASE UNCHANGED replies
    BY <1>1, <1>2, <2>1, HistoryKept DEF Exchanged
  <2>2. CASE replies' = Append(replies, <<>>)
    BY <1>1, <1>2, <2>2, HistorySleeps
  <2> QED
    BY <1>2, <2>1, <2>2
<1> QED
  BY <1>1, <1>2, <1>3 DEF TurnInv

LEMMA TurnInvStep ==
    ASSUME LikeAProxy, TurnInv, [Next]_vars
    PROVE  TurnInv'
<1>1. CASE ProxyStep
  <2>1. mock # "proxy-mock" /\ UNCHANGED mockVars
    BY <1>1 DEF ProxyStep
  <2>2. HistoryInv'
    BY <2>1, HistoryKept DEF TurnInv, mockVars
  <2> QED
    BY <2>1, <2>2 DEF TurnInv, mockVars, Exchanged
<1>2. CASE DeviceStep
  BY <1>2, DeviceAnswers
<1>3. CASE MockStep
  BY <1>3, ProxyMockTurns, DeviceMockTurns
<1>4. CASE UNCHANGED vars
  <2>1. UNCHANGED <<mockVars, toDevice, toProxy, session_id, packet_counter>>
    BY <1>4 DEF vars, network, deviceVars
  <2>2. HistoryInv'
    BY <2>1, HistoryKept DEF TurnInv, mockVars
  <2>3. Exchanged' = Exchanged /\ (ExchangeInv => ExchangeInv')
    BY <2>1 DEF mockVars, ExchangeInv, DeviceTurn, Fresh, After, Ended, Latest,
                Exchanged, Refused, RightAnswer, InTurn, Continues, FromProxyMock
  <2> QED
    BY <2>1, <2>2, <2>3 DEF TurnInv, mockVars
<1> QED
  BY <1>1, <1>2, <1>3, <1>4 DEF Next

(* For scripts of any length whose packets have headers a proxy sends: a   *)
(* device acknowledges exactly the packets that begin a session or are the *)
(* next of one, with their own count and session (device.cpp, the checks   *)
(* on packet_counter, type and session_id).                                *)
THEOREM AckedInTurnHolds ==
    ASSUME LikeAProxy
    PROVE  Spec => []AckedInTurn
<1>1. TurnInv => AckedInTurn
  BY DEF TurnInv, HistoryInv
<1> QED
  BY <1>1, TurnInvInit, TurnInvStep, PTL DEF Spec
=============================================================================
