----------------------------- MODULE Connections ----------------------------
(***************************************************************************)
(* The proxy's TCP side (src/src/proxy/proxy.cpp, Run and AcceptClient):   *)
(* clients wait in the queue of the listening socket, one connection is    *)
(* served at a time until its client closes it or is silent for            *)
(* AAA_CLIENT_MAX_INACTIVE_TIME, and what one recv returns is taken for    *)
(* one request.  What happens between proxy and devices is one step here;  *)
(* TINs has its parts.                                                     *)
(***************************************************************************)
EXTENDS Integers, SequencesExt

CONSTANTS
    Clients,
    Polite,         \* clients that wait for an answer before they ask again
    Whole,          \* clients whose requests come in one segment each
    Nobody,         \* the client of no connection
    QueueSize,      \* client_queue_size of the configuration
    MaxRead,        \* segments that fit into buff
    MaxAsked        \* bound: requests of a client

ASSUME ConnectionsAssumption ==
    /\ Polite \subseteq Clients /\ Whole \subseteq Clients
    /\ Nobody \notin Clients
    /\ QueueSize \in Nat /\ MaxRead \in Nat \ {0} /\ MaxAsked \in Nat

VARIABLES
    queue,      \* connections not yet accepted
    connfd,     \* the client of the connection that is served, or Nobody
    pstate,     \* "accept", "recv", "serve", "stuck" or "dead"
    buff,       \* the segments the last recv returned
    conn,       \* each client's connection, as its two hosts know it
    segments,   \* what each client has sent and the proxy not read
    asked,      \* requests each client has sent
    answers     \* the answers each client has been sent, in order

vars == <<queue, connfd, pstate, buff, conn, segments, asked, answers>>

(* A connection is "none", or "open"; "fin" when its client has closed it; *)
(* "sent" when the proxy has sent to it all the same, "reset" when the     *)
(* client's host has said so; "closed" by the proxy.                       *)
ConnState == {"none", "open", "fin", "sent", "reset", "closed"}

(* Part `part` of request number `id`, whose segments are `of`.            *)
Segment == [id: 1 .. MaxAsked, part: 1 .. 2, of: 1 .. 2]

(* An answer is the number of the request it is an answer to, or 0: 502.   *)
ConnectionsTypeOK ==
    /\ queue \in Seq(Clients)
    /\ connfd \in Clients \cup {Nobody}
    /\ pstate \in {"accept", "recv", "serve", "stuck", "dead"}
    /\ buff \in Seq(Segment) /\ Len(buff) <= MaxRead
    /\ conn \in [Clients -> ConnState]
    /\ segments \in [Clients -> Seq(Segment)]
    /\ asked \in [Clients -> 0 .. MaxAsked]
    /\ answers \in [Clients -> Seq(0 .. MaxAsked)]

ConnectionsInit ==
    /\ queue = <<>>
    /\ connfd = Nobody
    /\ pstate = "accept"
    /\ buff = <<>>
    /\ conn = [c \in Clients |-> "none"]
    /\ segments = [c \in Clients |-> <<>>]
    /\ asked = [c \in Clients |-> 0]
    /\ answers = [c \in Clients |-> <<>>]

-----------------------------------------------------------------------------
(* The clients and their hosts.  A listening socket completes one more     *)
(* connection than its queue size.                                         *)
Connect(c) ==
    /\ conn[c] = "none" /\ Len(queue) <= QueueSize
    /\ conn' = [conn EXCEPT ![c] = "open"]
    /\ queue' = Append(queue, c)
    /\ UNCHANGED <<connfd, pstate, buff, segments, asked, answers>>

Ask(c) ==
    /\ conn[c] = "open" /\ asked[c] < MaxAsked
    /\ c \in Polite => Len(answers[c]) = asked[c]
    /\ LET id == asked[c] + 1
           n == IF c \in Whole THEN 1 ELSE 2
       IN  segments' = [segments EXCEPT ![c] =
               @ \o [part \in 1 .. n |-> [id |-> id, part |-> part, of |-> n]]]
    /\ asked' = [asked EXCEPT ![c] = @ + 1]
    /\ UNCHANGED <<queue, connfd, pstate, buff, conn, answers>>

ClientCloses(c) ==
    /\ conn[c] = "open"
    /\ conn' = [conn EXCEPT ![c] = "fin"]
    /\ UNCHANGED <<queue, connfd, pstate, buff, segments, asked, answers>>

(* The host of a client that has closed answers what still comes.          *)
Reset(c) ==
    /\ conn[c] = "sent"
    /\ conn' = [conn EXCEPT ![c] = "reset"]
    /\ UNCHANGED <<queue, connfd, pstate, buff, segments, asked, answers>>

ClientNext(c) == Connect(c) \/ Ask(c) \/ ClientCloses(c) \/ Reset(c)

-----------------------------------------------------------------------------
AcceptClient ==
    /\ pstate = "accept" /\ queue # <<>>
    /\ connfd' = Head(queue)
    /\ queue' = Tail(queue)
    /\ pstate' = "recv"
    /\ UNCHANGED <<buff, conn, segments, asked, answers>>

(* Mutant of Cleared: buff is not cleared, and recv writes after it.       *)
Kept == buff

Cleared == <<>>

(* recv returns what has come in, a segment at least, and as much as fits. *)
RecvRequest ==
    /\ pstate = "recv" /\ segments[connfd] # <<>>
    /\ \E k \in 1 .. Len(segments[connfd]) :
          /\ k <= MaxRead
          /\ buff' = Cleared \o SubSeq(segments[connfd], 1, k)
          /\ segments' = [segments EXCEPT ![connfd] = SubSeq(@, k + 1, Len(@))]
    /\ pstate' = "serve"
    /\ UNCHANGED <<queue, connfd, conn, asked, answers>>

CloseConnection ==
    /\ conn' = [conn EXCEPT ![connfd] = "closed"]
    /\ connfd' = Nobody
    /\ pstate' = "accept"
    /\ UNCHANGED <<queue, buff, segments, asked, answers>>

(* Mutant of RecvEnds: 0 bytes are taken for a request.                    *)
RecvNothing ==
    /\ pstate = "recv" /\ segments[connfd] = <<>> /\ conn[connfd] # "open"
    /\ IF conn[connfd] = "reset"
         THEN /\ conn' = [conn EXCEPT ![connfd] = "closed"]
              /\ pstate' = "accept" /\ connfd' = Nobody /\ UNCHANGED buff
         ELSE pstate' = "serve" /\ buff' = <<>> /\ UNCHANGED <<connfd, conn>>
    /\ UNCHANGED <<queue, segments, asked, answers>>

(* recv returns 0 or an error: the client has closed, and all it sent has  *)
(* been read.                                                              *)
RecvEnds ==
    /\ pstate = "recv" /\ segments[connfd] = <<>> /\ conn[connfd] # "open"
    /\ CloseConnection

(* Mutant of ClientInactive: the socket of the client has no timeout.      *)
Untimed == FALSE /\ UNCHANGED vars

(* recv returns EAGAIN.                                                    *)
ClientInactive ==
    /\ pstate = "recv" /\ segments[connfd] = <<>> /\ conn[connfd] = "open"
    /\ CloseConnection

(* What the client is sent for buff: the answer to the request it begins   *)
(* with, if all of it is there; 502 when it begins with no request; and    *)
(* when only its beginning is there the device may take that for the       *)
(* request.                                                                *)
Answer == IF buff = <<>> \/ buff[1].part = 2 THEN 0 ELSE buff[1].id

(* send, of whose result no notice is taken.  A connection that was reset  *)
(* raises SIGPIPE.                                                         *)
SendAnswer ==
    /\ pstate = "serve"
    /\ conn[connfd] # "reset"
    /\ answers' = [answers EXCEPT ![connfd] = Append(@, Answer)]
    /\ conn' = [conn EXCEPT ![connfd] = IF @ = "fin" THEN "sent" ELSE @]
    /\ pstate' = "recv"
    /\ UNCHANGED <<queue, connfd, buff, segments, asked>>

BrokenPipe ==
    /\ pstate = "serve"
    /\ conn[connfd] = "reset"
    /\ pstate' = "dead"
    /\ UNCHANGED <<queue, connfd, buff, conn, segments, asked, answers>>

(* The text names a device that stays silent: it cannot parse the text, or *)
(* its response has too many fragments, or a datagram was lost.            *)
(* ReceiveDataDevice waits for ever.                                       *)
NoResponse ==
    /\ pstate = "serve"
    /\ buff # <<>> /\ buff[1].part = 1
    /\ pstate' = "stuck"
    /\ UNCHANGED <<queue, connfd, buff, conn, segments, asked, answers>>

ProxyNext ==
    \/ AcceptClient \/ RecvRequest \/ RecvEnds \/ ClientInactive
    \/ SendAnswer \/ BrokenPipe \/ NoResponse

ConnectionsNext == ProxyNext \/ \E c \in Clients : ClientNext(c)

ConnectionsSpec == ConnectionsInit /\ [][ConnectionsNext]_vars

(* The proxy runs, and the timer of its recv goes off.  Nothing is assumed *)
(* of the clients.                                                         *)
FairConnectionsSpec == ConnectionsSpec /\ WF_vars(ProxyNext)

-----------------------------------------------------------------------------
(* A client whose requests come whole is never sent the same answer twice  *)
(* or one out of turn, and one that also waits for each answer is sent     *)
(* exactly the answers to its requests, in order (proxy.cpp:72-110, buff,  *)
(* and one recv taken for one request).                                    *)
AnswersInTurn ==
    \A c \in Whole :
        /\ \A j, k \in 1 .. Len(answers[c]) : j < k => answers[c][j] < answers[c][k]
        /\ c \in Polite => \A k \in 1 .. Len(answers[c]) : answers[c][k] = k

(* No client that asks in whole requests and waits for the answers ends    *)
(* the proxy, at whatever moment it closes its connection: the proxy has   *)
(* nothing left to send to it that its host could refuse (proxy.cpp:110,   *)
(* the send to a connection that may be closed, and proxy.cpp:111, recv).  *)
(* Any client may keep the proxy, with a request its device leaves         *)
(* unanswered.                                                             *)
SurvivesOrderlyClients == pstate = "dead" => connfd \notin Polite \cap Whole

(* A client that is connected is served or has left in the end, though     *)
(* those before it in the queue be silent (proxy.cpp:61-70, the timeout of *)
(* recv), unless the proxy is stuck or dead.                               *)
EveryClientAccepted ==
    \A c \in Clients :
        c \in ToSet(queue) ~> c \notin ToSet(queue) \/ pstate \in {"stuck", "dead"}
=============================================================================
