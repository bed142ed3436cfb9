------------------------- MODULE ConnectionsProofs --------------------------
(***************************************************************************)
(* Theorems about the proxy's TCP side, for any clients: one whose         *)
(* requests come in one segment each is answered in turn, and if it waits  *)
(* for its answers it does not end the proxy.                              *)
(*                                                                         *)
(* The invariant follows such a client's requests from its side of the     *)
(* connection through buff to its answers; no request is in two of these.  *)
(***************************************************************************)
EXTENDS Connections, SequenceTheorems, TLAPS

Serving(c) == connfd = c /\ pstate \in {"serve", "stuck", "dead"}

(* Requests of c, a client in Whole, that the proxy has read.              *)
Read(c) == asked[c] - Len(segments[c])

Increasing(s) == \A j, k \in 1 .. Len(s) : j < k => s[j] < s[k]

ConnectedInv ==
    /\ ConnectionsTypeOK
    /\ pstate # "accept" => connfd \in Clients

(* What is under way from c is its last requests, in order and whole; buff *)
(* begins with one that has not been answered.                             *)
WholeInv(c) ==
    /\ Len(segments[c]) <= asked[c]
    /\ \A k \in 1 .. Len(segments[c]) :
          segments[c][k] = [id |-> Read(c) + k, part |-> 1, of |-> 1]
    /\ Serving(c) =>
          /\ buff # <<>>
          /\ buff[1].part = 1 /\ buff[1].of = 1 /\ buff[1].id <= Read(c)
          /\ \A k \in 1 .. Len(answers[c]) : answers[c][k] < buff[1].id
    /\ \A k \in 1 .. Len(answers[c]) : answers[c][k] <= Read(c)
    /\ Increasing(answers[c])

(* A client that waits has one request under way at most; and none when    *)
(* the proxy has sent to the connection it has closed, so that the proxy   *)
(* does not send again.                                                    *)
OrderlyInv(c) ==
    /\ \A k \in 1 .. Len(answers[c]) : answers[c][k] = k
    /\ Serving(c) =>
          /\ segments[c] = <<>> /\ asked[c] = Len(answers[c]) + 1
          /\ buff[1].id = asked[c] /\ pstate # "dead"
    /\ ~Serving(c) =>
          /\ Len(segments[c]) = asked[c] - Len(answers[c])
          /\ Len(segments[c]) <= 1
    /\ conn[c] \in {"sent", "reset"} => Len(answers[c]) = asked[c]

ConnectionsInv ==
    /\ ConnectedInv
    /\ \A c \in Whole : WholeInv(c)
    /\ \A c \in Whole \cap Polite : OrderlyInv(c)

-----------------------------------------------------------------------------
(* Types *)

LEMMA InitConnected == ConnectionsInit => ConnectedInv
BY ConnectionsAssumption
   DEF ConnectionsInit, ConnectedInv, ConnectionsTypeOK, ConnState

LEMMA SegmentsAsked ==
    ASSUME NEW id \in 1 .. MaxAsked, NEW n \in {1, 2}
    PROVE  LET sent == [part \in 1 .. n |-> [id |-> id, part |-> part, of |-> n]]
           IN  /\ sent \in Seq(Segment) /\ Len(sent) = n
               /\ \A part \in 1 .. n : sent[part] = [id |-> id, part |-> part, of |-> n]
<1> DEFINE sent == [part \in 1 .. n |-> [id |-> id, part |-> part, of |-> n]]
<1>1. \A part \in 1 .. n : [id |-> id, part |-> part, of |-> n] \in Segment
  BY DEF Segment
<1>2. sent \in [1 .. n -> Segment] /\ n \in Nat
  BY <1>1
<1>3. sent \in Seq(Segment)
  BY <1>2, SeqDef
<1>4. Len(sent) = n
  BY <1>2, <1>3, LenProperties
<1>5. QED
  BY <1>2, <1>3, <1>4

LEMMA ClientConnected ==
    ASSUME ConnectedInv, NEW c \in Clients, ClientNext(c)
    PROVE  ConnectedInv'
<1> USE DEF ConnectedInv, ConnectionsTypeOK
<1>1. CASE Connect(c)
  BY <1>1 DEF Connect, ConnState
<1>2. CASE Ask(c)
  <2> DEFINE id == asked[c] + 1
             n == IF c \in Whole THEN 1 ELSE 2
             sent == [part \in 1 .. n |-> [id |-> id, part |-> part, of |-> n]]
  <2>1. id \in 1 .. MaxAsked /\ n \in {1, 2}
    <3>1. asked[c] \in 0 .. MaxAsked /\ asked[c] < MaxAsked /\ MaxAsked \in Nat
      BY <1>2, ConnectionsAssumption DEF Ask
    <3>2. QED
      BY <3>1
  <2>2. sent \in Seq(Segment)
    BY <2>1, SegmentsAsked
  <2>3. segments' = [segments EXCEPT ![c] = segments[c] \o sent]
    BY <1>2 DEF Ask
  <2> HIDE DEF sent
  <2>4. segments' \in [Clients -> Seq(Segment)]
    BY <2>2, <2>3
  <2>5. asked' \in [Clients -> 0 .. MaxAsked]
    BY <1>2, <2>1 DEF Ask
  <2>6. QED
    BY <1>2, <2>4, <2>5 DEF Ask
<1>3. CASE ClientCloses(c)
  BY <1>3 DEF ClientCloses, ConnState
<1>4. CASE Reset(c)
  BY <1>4 DEF Reset, ConnState
<1>5. QED
  BY <1>1, <1>2, <1>3, <1>4 DEF ClientNext

(* What recv takes from a connection, and what it leaves there.            *)
LEMMA Received ==
    ASSUME NEW s \in Seq(Segment), NEW k \in 1 .. Len(s)
    PROVE  /\ SubSeq(s, 1, k) \in Seq(Segment) /\ Len(SubSeq(s, 1, k)) = k
           /\ SubSeq(s, 1, k)[1] = s[1] /\ SubSeq(s, 1, k) # <<>>
           /\ SubSeq(s, k + 1, Len(s)) \in Seq(Segment)
           /\ Len(SubSeq(s, k + 1, Len(s))) = Len(s) - k
           /\ \A j \in 1 .. Len(s) - k : SubSeq(s, k + 1, Len(s))[j] = s[k + j]
<1>1. Len(s) \in Nat /\ \A j \in 1 .. Len(s) : s[j] \in Segment
  BY ElementOfSeq, LenProperties
<1>2. /\ SubSeq(s, 1, k) \in Seq(Segment)
      /\ Len(SubSeq(s, 1, k)) = IF 1 <= k THEN k - 1 + 1 ELSE 0
      /\ \A j \in 1 .. k - 1 + 1 : SubSeq(s, 1, k)[j] = s[1 + j - 1]
  <2>1. k \in Int /\ 1 \in Int /\ \A j \in 1 .. k : s[j] \in Segment
    BY <1>1
  <2>2. QED
    BY <2>1, SubSeqProperties
<1>3. /\ SubSeq(s, k + 1, Len(s)) \in Seq(Segment)
      /\ Len(SubSeq(s, k + 1, Len(s))) =
             IF k + 1 <= Len(s) THEN Len(s) - (k + 1) + 1 ELSE 0
      /\ \A j \in 1 .. Len(s) - (k + 1) + 1 :
             SubSeq(s, k + 1, Len(s))[j] = s[(k + 1) + j - 1]
  <2>1. k + 1 \in Int /\ Len(s) \in Int /\ \A j \in k + 1 .. Len(s) : s[j] \in Segment
    BY <1>1
  <2> DEFINE m == k + 1
  <2> HIDE DEF m
  <2>2. m \in Int /\ \A j \in m .. Len(s) : s[j] \in Segment
    BY <2>1 DEF m
  <2>3. /\ SubSeq(s, m, Len(s)) \in Seq(Segment)
        /\ Len(SubSeq(s, m, Len(s))) = IF m <= Len(s) THEN Len(s) - m + 1 ELSE 0
        /\ \A j \in 1 .. Len(s) - m + 1 : SubSeq(s, m, Len(s))[j] = s[m + j - 1]
    BY <2>1, <2>2, SubSeqProperties
  <2>4. QED
    BY <2>3 DEF m
<1>4. Len(SubSeq(s, 1, k)) = k /\ SubSeq(s, 1, k)[1] = s[1] /\ SubSeq(s, 1, k) # <<>>
  BY <1>2
<1>5. /\ Len(SubSeq(s, k + 1, Len(s))) = Len(s) - k
      /\ \A j \in 1 .. Len(s) - k : SubSeq(s, k + 1, Len(s))[j] = s[k + j]
  BY <1>1, <1>3
<1>6. QED
  BY <1>2, <1>3, <1>4, <1>5

LEMMA RecvStep ==
    ASSUME ConnectedInv, RecvRequest
    PROVE  \E k \in 1 .. Len(segments[connfd]) :
              /\ k <= MaxRead
              /\ buff' = SubSeq(segments[connfd], 1, k)
              /\ segments' = [segments EXCEPT ![connfd] =
                                 SubSeq(segments[connfd], k + 1, Len(segments[connfd]))]
<1>1. PICK k \in 1 .. Len(segments[connfd]) :
          /\ k <= MaxRead
          /\ buff' = <<>> \o SubSeq(segments[connfd], 1, k)
          /\ segments' = [segments EXCEPT ![connfd] = SubSeq(@, k + 1, Len(@))]
  BY DEF RecvRequest, Cleared
<1>2. segments[connfd] \in Seq(Segment)
  BY DEF RecvRequest, ConnectedInv, ConnectionsTypeOK
<1>3. buff' = SubSeq(segments[connfd], 1, k)
  BY <1>1, <1>2, Received, ConcatEmptySeq
<1>4. QED
  BY <1>1, <1>3

LEMMA AnswerType ==
    ASSUME ConnectedInv
    PROVE  Answer \in 0 .. MaxAsked
<1>1. buff # <<>> => buff[1] \in Segment
  BY ElementOfSeq, LenProperties DEF ConnectedInv, ConnectionsTypeOK
<1>2. QED
  BY <1>1, ConnectionsAssumption DEF Answer, Segment

LEMMA ProxyConnected ==
    ASSUME ConnectedInv, ProxyNext
    PROVE  ConnectedInv'
<1> USE DEF ConnectedInv, ConnectionsTypeOK
<1>1. CASE AcceptClient
  <2>1. Head(queue) \in Clients /\ Tail(queue) \in Seq(Clients)
    BY <1>1, HeadTailProperties DEF AcceptClient
  <2>2. QED
    BY <1>1, <2>1 DEF AcceptClient
<1>2. CASE RecvRequest
  <2>1. PICK k \in 1 .. Len(segments[connfd]) :
              /\ k <= MaxRead
              /\ buff' = SubSeq(segments[connfd], 1, k)
              /\ segments' = [segments EXCEPT ![connfd] =
                                 SubSeq(segments[connfd], k + 1, Len(segments[connfd]))]
    BY <1>2, RecvStep
  <2>2. connfd \in Clients /\ segments[connfd] \in Seq(Segment)
    BY <1>2 DEF RecvRequest
  <2>3. buff' \in Seq(Segment) /\ Len(buff') <= MaxRead
        /\ segments' \in [Clients -> Seq(Segment)]
    BY <2>1, <2>2, Received
  <2>4. QED
    BY <1>2, <2>2, <2>3 DEF RecvRequest
<1>3. CASE RecvEnds \/ ClientInactive
  BY <1>3 DEF RecvEnds, ClientInactive, CloseConnection, ConnState
<1>4. CASE SendAnswer
  <2>1. connfd \in Clients /\ Answer \in 0 .. MaxAsked
    BY <1>4, AnswerType DEF SendAnswer
  <2>2. answers' \in [Clients -> Seq(0 .. MaxAsked)]
    BY <1>4, <2>1 DEF SendAnswer
  <2>3. conn' \in [Clients -> ConnState]
    BY <1>4, <2>1 DEF SendAnswer, ConnState
  <2>4. QED
    BY <1>4, <2>1, <2>2, <2>3 DEF SendAnswer
<1>5. CASE BrokenPipe \/ NoResponse
  BY <1>5 DEF BrokenPipe, NoResponse
<1>6. QED
  BY <1>1, <1>2, <1>3, <1>4, <1>5 DEF ProxyNext

-----------------------------------------------------------------------------
(* The requests of one client *)

LEMMA InitOrderly == ConnectionsInit => ConnectionsInv
BY InitConnected, ConnectionsAssumption
   DEF ConnectionsInit, ConnectionsInv, WholeInv, OrderlyInv, Serving, Increasing

(* A client of whose requests a step moves none.                           *)
LEMMA Unmoved ==
    ASSUME NEW c \in Clients,
           asked'[c] = asked[c], segments'[c] = segments[c], answers'[c] = answers[c],
           Serving(c)' <=> Serving(c), Serving(c) => buff' = buff /\ pstate' = pstate,
           conn'[c] \in {"sent", "reset"} => conn[c] \in {"sent", "reset"}
    PROVE  (WholeInv(c) => WholeInv(c)') /\ (OrderlyInv(c) => OrderlyInv(c)')
<1>1. Read(c)' = Read(c)
  BY DEF Read
<1>2. WholeInv(c) => WholeInv(c)'
  BY <1>1 DEF WholeInv
<1>3. OrderlyInv(c) => OrderlyInv(c)'
  BY DEF OrderlyInv
<1>4. QED
  BY <1>2, <1>3

LEMMA AskedOne ==
    ASSUME NEW s \in Seq(Segment), NEW id \in 1 .. MaxAsked
    PROVE  LET t == s \o [part \in 1 .. 1 |-> [id |-> id, part |-> part, of |-> 1]]
           IN  /\ Len(s) \in Nat /\ Len(t) = Len(s) + 1
               /\ \A k \in 1 .. Len(s) : t[k] = s[k]
               /\ t[Len(s) + 1] = [id |-> id, part |-> 1, of |-> 1]
<1> DEFINE sent == [part \in 1 .. 1 |-> [id |-> id, part |-> part, of |-> 1]]
<1>1. sent \in Seq(Segment) /\ Len(sent) = 1
  BY SegmentsAsked
<1>2. sent[1] = [id |-> id, part |-> 1, of |-> 1]
  OBVIOUS
<1> HIDE DEF sent
<1>3. /\ Len(s \o sent) = Len(s) + 1 /\ Len(s) \in Nat
      /\ \A k \in 1 .. Len(s) + 1 :
            (s \o sent)[k] = IF k <= Len(s) THEN s[k] ELSE sent[k - Len(s)]
  <2>1. Len(s) \in Nat
    BY LenProperties
  <2>2. /\ Len(s \o sent) = Len(s) + Len(sent)
        /\ \A k \in 1 .. Len(s) + Len(sent) :
              (s \o sent)[k] = IF k <= Len(s) THEN s[k] ELSE sent[k - Len(s)]
    BY <1>1, ConcatProperties
  <2>3. QED
    BY <1>1, <2>1, <2>2
<1>4. /\ \A k \in 1 .. Len(s) : (s \o sent)[k] = s[k]
      /\ (s \o sent)[Len(s) + 1] = sent[1]
  BY <1>3
<1>5. QED
  BY <1>2, <1>3, <1>4 DEF sent

LEMMA AskOrderly ==
    ASSUME ConnectedInv, NEW d \in Clients, Ask(d), NEW c \in Whole, WholeInv(c)
    PROVE  WholeInv(c)' /\ (c \in Polite /\ OrderlyInv(c) => OrderlyInv(c)')
<1>1. c \in Clients
  BY ConnectionsAssumption
<1>2. (Serving(c)' <=> Serving(c)) /\ UNCHANGED <<queue, connfd, pstate, buff, conn, answers>>
  BY DEF Ask, Serving
<1>3. CASE c # d
  BY <1>1, <1>2, <1>3, Unmoved DEF Ask, ConnectedInv, ConnectionsTypeOK
<1>4. CASE c = d
  <2>1. /\ asked[c] \in Nat /\ asked'[c] = asked[c] + 1 /\ asked[c] + 1 \in 1 .. MaxAsked
        /\ segments[c] \in Seq(Segment)
        /\ segments'[c] = segments[c] \o
               [part \in 1 .. 1 |-> [id |-> asked[c] + 1, part |-> part, of |-> 1]]
    BY <1>1, <1>4, ConnectionsAssumption DEF Ask, ConnectedInv, ConnectionsTypeOK
  <2>2. PICK old, new, m, n, r :
           /\ old = segments[c] /\ new = segments'[c]
           /\ m = Len(segments[c]) /\ n = asked[c] /\ r = Read(c)
    OBVIOUS
  <2>3. /\ m \in Nat /\ n \in Nat /\ r = n - m
        /\ Len(new) = m + 1 /\ Len(old) = m
        /\ \A k \in 1 .. m : new[k] = old[k]
        /\ new[m + 1] = [id |-> n + 1, part |-> 1, of |-> 1]
    BY <2>1, <2>2, AskedOne DEF Read
  <2>4. Read(c)' = r /\ asked'[c] = n + 1
    <3>1. asked'[c] = n + 1
      BY <2>1, <2>2
    <3>2. Read(c)' = asked'[c] - Len(new)
      BY <2>2 DEF Read
    <3>3. (n + 1) - (m + 1) = n - m
      BY <2>3
    <3>4. QED
      BY <2>3, <3>1, <3>2, <3>3
  <2>5. m <= n /\ \A k \in 1 .. m : old[k] = [id |-> r + k, part |-> 1, of |-> 1]
    BY <2>2 DEF WholeInv
  <2>6. \A k \in 1 .. Len(new) : new[k] = [id |-> r + k, part |-> 1, of |-> 1]
    <3>1. r + (m + 1) = n + 1
      BY <2>3
    <3>2. QED
      BY <2>3, <2>5, <3>1
  <2>7. Len(new) <= n + 1
    BY <2>3, <2>5
  <2>8. WholeInv(c)'
    BY <1>2, <2>2, <2>4, <2>6, <2>7 DEF WholeInv
  <2>9. ASSUME c \in Polite, OrderlyInv(c) PROVE OrderlyInv(c)'
    <3>1. Len(answers[c]) = n /\ conn[c] = "open"
      BY <1>4, <2>2, <2>9 DEF Ask
    <3>2. ~Serving(c) /\ m = 0
      <4>1. Serving(c) => n = n + 1
        BY <2>2, <2>9, <3>1 DEF OrderlyInv
      <4>2. ~Serving(c) => m = n - n
        BY <2>2, <2>9, <3>1 DEF OrderlyInv
      <4>3. QED
        BY <2>3, <4>1, <4>2
    <3>3. Len(new) = 1 /\ n + 1 - Len(answers[c]) = 1
      BY <2>3, <3>1, <3>2
    <3>4. QED
      BY <1>2, <2>2, <2>4, <2>9, <3>1, <3>2, <3>3 DEF OrderlyInv
  <2>10. QED
    BY <2>8, <2>9
<1>5. QED
  BY <1>3, <1>4

LEMMA RecvOrderly ==
    ASSUME ConnectedInv, RecvRequest, NEW c \in Whole, WholeInv(c)
    PROVE  WholeInv(c)' /\ (c \in Polite /\ OrderlyInv(c) => OrderlyInv(c)')
<1>1. c \in Clients
  BY ConnectionsAssumption
<1>2. /\ pstate = "recv" /\ pstate' = "serve" /\ ~Serving(c)
      /\ UNCHANGED <<queue, connfd, conn, asked, answers>>
  BY DEF RecvRequest, Serving
<1>3. PICK n \in 1 .. Len(segments[connfd]) :
              /\ n <= MaxRead
              /\ buff' = SubSeq(segments[connfd], 1, n)
              /\ segments' = [segments EXCEPT ![connfd] =
                                 SubSeq(segments[connfd], n + 1, Len(segments[connfd]))]
  BY RecvStep
<1>4. CASE c # connfd
  <2>1. ~Serving(c)' /\ segments'[c] = segments[c]
    BY <1>1, <1>2, <1>3, <1>4 DEF Serving, ConnectedInv, ConnectionsTypeOK
  <2>2. QED
    BY <1>1, <1>2, <2>1, Unmoved
<1>5. CASE c = connfd
  <2>1. asked[c] \in Nat /\ segments[c] \in Seq(Segment) /\ answers[c] \in Seq(0 .. MaxAsked)
    BY <1>1 DEF ConnectedInv, ConnectionsTypeOK
  <2>2. /\ segments'[c] = SubSeq(segments[c], n + 1, Len(segments[c]))
        /\ buff' = SubSeq(segments[c], 1, n) /\ n \in 1 .. Len(segments[c])
    BY <1>1, <1>3, <1>5 DEF ConnectedInv, ConnectionsTypeOK
  <2>3. PICK old, new, m, a, r :
           /\ old = segments[c] /\ new = segments'[c]
           /\ m = Len(segments[c]) /\ a = asked[c] /\ r = Read(c)
    OBVIOUS
  <2>4. m \in Nat /\ a \in Nat /\ n \in 1 .. m /\ r = a - m
    BY <2>1, <2>2, <2>3, LenProperties DEF Read
  <2>5. /\ Len(new) = m - n /\ buff'[1] = old[1] /\ buff' # <<>>
        /\ \A j \in 1 .. m - n : new[j] = old[n + j]
        /\ new \in Seq(Segment)
    <3>1. /\ old \in Seq(Segment) /\ m = Len(old) /\ n \in 1 .. Len(old)
          /\ buff' = SubSeq(old, 1, n) /\ new = SubSeq(old, n + 1, Len(old))
      BY <2>1, <2>2, <2>3
    <3>2. /\ SubSeq(old, 1, n)[1] = old[1] /\ SubSeq(old, 1, n) # <<>>
          /\ SubSeq(old, n + 1, Len(old)) \in Seq(Segment)
          /\ Len(SubSeq(old, n + 1, Len(old))) = Len(old) - n
          /\ \A j \in 1 .. Len(old) - n : SubSeq(old, n + 1, Len(old))[j] = old[n + j]
      BY <3>1, Received
    <3>3. QED
      BY <3>1, <3>2
  <2>6. Read(c)' = r + n
    <3>1. Read(c)' = a - Len(new)
      BY <1>2, <2>3 DEF Read
    <3>2. QED
      BY <2>4, <2>5, <3>1
  <2>7. m <= a /\ \A k \in 1 .. m : old[k] = [id |-> r + k, part |-> 1, of |-> 1]
    BY <2>3 DEF WholeInv
  <2>8. \A j \in 1 .. Len(new) : new[j] = [id |-> (r + n) + j, part |-> 1, of |-> 1]
    <3> SUFFICES ASSUME NEW j \in 1 .. Len(new)
                 PROVE  new[j] = [id |-> (r + n) + j, part |-> 1, of |-> 1]
      OBVIOUS
    <3>1. n + j \in 1 .. m /\ new[j] = old[n + j]
      BY <2>4, <2>5
    <3>2. r + (n + j) = (r + n) + j
      BY <2>4, <2>5
    <3>3. QED
      BY <2>7, <3>1, <3>2
  <2>9. Serving(c)' /\ pstate' # "dead"
    BY <1>2, <1>5 DEF Serving
  <2>10. Len(new) <= a
    BY <2>4, <2>5, <2>7
  <2>11. /\ buff'[1].part = 1 /\ buff'[1].of = 1 /\ buff'[1].id = r + 1 /\ r + 1 <= r + n
    <3>1. buff'[1] = [id |-> r + 1, part |-> 1, of |-> 1]
      BY <2>4, <2>5, <2>7
    <3>2. QED
      BY <2>4, <3>1
  <2>12. \A k \in 1 .. Len(answers[c]) : answers[c][k] <= r + n /\ answers[c][k] < r + 1
    <3>1. \A k \in 1 .. Len(answers[c]) : answers[c][k] \in 0 .. MaxAsked /\ answers[c][k] <= r
      BY <2>1, <2>3, ElementOfSeq DEF WholeInv
    <3>2. QED
      BY <2>4, <3>1, ConnectionsAssumption
  <2>13. WholeInv(c)'
    BY <1>2, <2>3, <2>5, <2>6, <2>8, <2>9, <2>10, <2>11, <2>12 DEF WholeInv
  <2>14. ASSUME OrderlyInv(c) PROVE OrderlyInv(c)'
    <3>1. Len(answers[c]) \in Nat
      BY <2>1, LenProperties
    <3>2. m = a - Len(answers[c]) /\ m <= 1
      BY <1>2, <2>3, <2>14 DEF OrderlyInv
    <3>3. n = 1 /\ Len(new) = 0 /\ a = Len(answers[c]) + 1 /\ r + 1 = a
      BY <2>4, <2>5, <3>1, <3>2
    <3>4. new = <<>>
      BY <2>5, <3>3
    <3>5. conn[c] \notin {"sent", "reset"}
      BY <2>3, <2>14, <3>1, <3>3 DEF OrderlyInv
    <3>6. QED
      BY <1>2, <2>3, <2>9, <2>11, <2>14, <3>3, <3>4, <3>5 DEF OrderlyInv
  <2>15. QED
    BY <2>13, <2>14
<1>6. QED
  BY <1>4, <1>5

LEMMA SendOrderly ==
    ASSUME ConnectedInv, SendAnswer, NEW c \in Whole, WholeInv(c)
    PROVE  WholeInv(c)' /\ (c \in Polite /\ OrderlyInv(c) => OrderlyInv(c)')
<1>1. c \in Clients
  BY ConnectionsAssumption
<1>2. /\ pstate = "serve" /\ pstate' = "recv" /\ ~Serving(c)'
      /\ UNCHANGED <<queue, connfd, buff, segments, asked>>
      /\ connfd \in Clients
  BY DEF SendAnswer, Serving, ConnectedInv
<1>3. /\ answers' = [answers EXCEPT ![connfd] = Append(@, Answer)]
      /\ conn' = [conn EXCEPT ![connfd] = IF @ = "fin" THEN "sent" ELSE @]
  BY DEF SendAnswer
<1>4. CASE c # connfd
  <2>1. ~Serving(c) /\ answers'[c] = answers[c] /\ conn'[c] = conn[c]
    BY <1>1, <1>2, <1>3, <1>4 DEF Serving, ConnectedInv, ConnectionsTypeOK
  <2>2. QED
    BY <1>1, <1>2, <2>1, Unmoved
<1>5. CASE c = connfd
  <2>1. Serving(c)
    BY <1>2, <1>5 DEF Serving
  <2>2. PICK old, new, a, m, r :
           /\ old = answers[c] /\ new = answers'[c]
           /\ a = buff[1].id /\ m = Len(answers[c]) /\ r = Read(c)
    OBVIOUS
  <2>3. Answer = a /\ a <= r /\ \A k \in 1 .. m : old[k] < a /\ old[k] <= r
    BY <2>1, <2>2 DEF WholeInv, Answer
  <2>4. old \in Seq(0 .. MaxAsked) /\ a \in 0 .. MaxAsked /\ new = Append(old, a)
    BY <1>1, <1>3, <1>5, <2>2, <2>3, AnswerType DEF ConnectedInv, ConnectionsTypeOK
  <2>5. /\ Len(new) = m + 1 /\ new[m + 1] = a /\ m \in Nat /\ Len(old) = m
        /\ \A k \in 1 .. m : new[k] = old[k]
    BY <2>2, <2>4, AppendProperties, LenProperties
  <2>6. Read(c)' = r
    BY <1>2, <2>2 DEF Read
  <2>7. \A k \in 1 .. Len(new) : new[k] <= r
    BY <2>3, <2>5
  <2>8. Increasing(new)
    <3> SUFFICES ASSUME NEW j \in 1 .. Len(new), NEW k \in 1 .. Len(new), j < k
                 PROVE  new[j] < new[k]
      BY DEF Increasing
    <3>1. j \in 1 .. m /\ new[j] = old[j]
      BY <2>5
    <3>2. CASE k \in 1 .. m
      BY <2>2, <2>5, <3>1, <3>2 DEF WholeInv, Increasing
    <3>3. CASE k = m + 1
      BY <2>3, <2>5, <3>1, <3>3
    <3>4. QED
      BY <2>5, <3>2, <3>3
  <2>9. WholeInv(c)'
    BY <1>2, <2>2, <2>6, <2>7, <2>8 DEF WholeInv
  <2>10. ASSUME OrderlyInv(c) PROVE OrderlyInv(c)'
    <3>1. /\ segments[c] = <<>> /\ asked[c] = m + 1 /\ a = m + 1
          /\ \A k \in 1 .. m : old[k] = k
      BY <2>1, <2>2, <2>10 DEF OrderlyInv
    <3>2. \A k \in 1 .. Len(new) : new[k] = k
      BY <2>5, <3>1
    <3>3. Len(segments[c]) = 0 /\ asked[c] - Len(new) = 0
      BY <2>5, <3>1
    <3>4. QED
      BY <1>2, <2>2, <2>5, <3>1, <3>2, <3>3 DEF OrderlyInv
  <2>11. QED
    BY <2>9, <2>10
<1>6. QED
  BY <1>4, <1>5

(* The steps that move no request of c.                                    *)
LEMMA QuietOrderly ==
    ASSUME ConnectedInv, NEW c \in Whole, WholeInv(c),
           \/ AcceptClient \/ RecvEnds \/ ClientInactive
           \/ \E d \in Clients : Connect(d) \/ ClientCloses(d) \/ Reset(d)
           \/ UNCHANGED vars
    PROVE  WholeInv(c)' /\ (c \in Polite /\ OrderlyInv(c) => OrderlyInv(c)')
<1>1. c \in Clients
  BY ConnectionsAssumption
<1>2. UNCHANGED <<buff, segments, asked, answers>>
  BY DEF AcceptClient, RecvEnds, ClientInactive, CloseConnection, Connect, ClientCloses, Reset, vars
<1>3. (Serving(c)' <=> Serving(c)) /\ (Serving(c) => pstate' = pstate)
  BY DEF AcceptClient, RecvEnds, ClientInactive, CloseConnection, Connect, ClientCloses, Reset,
         vars, Serving
<1>4. conn'[c] \in {"sent", "reset"} => conn[c] \in {"sent", "reset"}
  BY <1>1 DEF AcceptClient, RecvEnds, ClientInactive, CloseConnection, Connect, ClientCloses,
              Reset, vars, ConnectedInv, ConnectionsTypeOK
<1>5. QED
  BY <1>1, <1>2, <1>3, <1>4, Unmoved

LEMMA EndOrderly ==
    ASSUME ConnectedInv, BrokenPipe \/ NoResponse, NEW c \in Whole, WholeInv(c)
    PROVE  WholeInv(c)' /\ (c \in Polite /\ OrderlyInv(c) => OrderlyInv(c)')
<1>1. c \in Clients
  BY ConnectionsAssumption
<1>2. /\ pstate = "serve" /\ (Serving(c)' <=> Serving(c))
      /\ UNCHANGED <<queue, connfd, buff, conn, segments, asked, answers>>
  BY DEF BrokenPipe, NoResponse, Serving
<1>3. CASE ~Serving(c)
  BY <1>1, <1>2, <1>3, Unmoved
<1>4. CASE Serving(c)
  <2>1. WholeInv(c)'
    BY <1>2, <1>4 DEF WholeInv, Read, Increasing
  <2>2. CASE NoResponse
    <3>1. pstate' = "stuck"
      BY <2>2 DEF NoResponse
    <3>2. OrderlyInv(c) => OrderlyInv(c)'
      BY <1>2, <1>4, <3>1 DEF OrderlyInv
    <3>3. QED
      BY <2>1, <3>2
  <2>3. CASE BrokenPipe
    <3>1. conn[c] = "reset"
      BY <1>4, <2>3 DEF BrokenPipe, Serving
    <3>2. Len(answers[c]) \in Nat
      BY <1>1, LenProperties DEF ConnectedInv, ConnectionsTypeOK
    <3>3. ~OrderlyInv(c)
      BY <1>4, <3>1, <3>2 DEF OrderlyInv
    <3>4. QED
      BY <2>1, <3>3
  <2>4. QED
    BY <2>2, <2>3
<1>5. QED
  BY <1>3, <1>4

LEMMA NextOrderly == ConnectionsInv /\ [ConnectionsNext]_vars => ConnectionsInv'
<1> SUFFICES ASSUME ConnectionsInv, [ConnectionsNext]_vars PROVE ConnectionsInv'
  OBVIOUS
<1>1. ConnectedInv'
  BY ClientConnected, ProxyConnected
     DEF ConnectionsInv, ConnectionsNext, ConnectedInv, ConnectionsTypeOK, vars
<1>2. ASSUME NEW c \in Whole
      PROVE  WholeInv(c)' /\ (c \in Polite /\ OrderlyInv(c) => OrderlyInv(c)')
  <2> USE DEF ConnectionsInv
  <2>1. CASE AcceptClient \/ RecvEnds \/ ClientInactive \/ UNCHANGED vars
    BY <2>1, QuietOrderly
  <2>2. CASE RecvRequest
    BY <2>2, RecvOrderly
  <2>3. CASE SendAnswer
    BY <2>3, SendOrderly
  <2>4. CASE BrokenPipe \/ NoResponse
    BY <2>4, EndOrderly
  <2>5. ASSUME NEW d \in Clients, Ask(d)
        PROVE  WholeInv(c)' /\ (c \in Polite /\ OrderlyInv(c) => OrderlyInv(c)')
    BY <2>5, AskOrderly
  <2>6. ASSUME NEW d \in Clients, Connect(d) \/ ClientCloses(d) \/ Reset(d)
        PROVE  WholeInv(c)' /\ (c \in Polite /\ OrderlyInv(c) => OrderlyInv(c)')
    BY <2>6, QuietOrderly
  <2>7. QED
    BY <2>1, <2>2, <2>3, <2>4, <2>5, <2>6 DEF ConnectionsNext, ProxyNext, ClientNext
<1>3. QED
  BY <1>1, <1>2 DEF ConnectionsInv

LEMMA OrderlyAlways == ConnectionsSpec => []ConnectionsInv
BY InitOrderly, NextOrderly, PTL DEF ConnectionsSpec

(* For any number of clients, of which any may close at any time: one      *)
(* whose requests come whole gets no answer twice or out of turn, and one  *)
(* that also waits gets exactly those to its requests (proxy.cpp:72-110).  *)
THEOREM AnswersInTurnHolds == ConnectionsSpec => []AnswersInTurn
<1>1. ConnectionsInv => AnswersInTurn
  BY DEF ConnectionsInv, WholeInv, OrderlyInv, Increasing, AnswersInTurn
<1>2. QED
  BY <1>1, OrderlyAlways, PTL

(* Such a client does not end the proxy, at whatever moment it closes: what*)
(* the proxy sends it is refused by its host only when all its requests    *)
(* are answered, and then none is left to be served (proxy.cpp:110).       *)
THEOREM SurvivesOrderlyClientsHolds == ConnectionsSpec => []SurvivesOrderlyClients
<1>1. ConnectionsInv => SurvivesOrderlyClients
  BY DEF ConnectionsInv, OrderlyInv, Serving, SurvivesOrderlyClients
<1>2. QED
  BY <1>1, OrderlyAlways, PTL
=============================================================================
