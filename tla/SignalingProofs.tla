-------------------------- MODULE SignalingProofs ---------------------------
(***************************************************************************)
(* From a request to its offer, for any number of servers, requests and    *)
(* datagrams and any clock: the wait for a STUN answer, the mailbox of one *)
(* payload between the two tasks, and one response to a request.           *)
(***************************************************************************)
EXTENDS Signaling, ListLemmas, TLAPS

Exchanging == gatherPc \in {"poll", "sleep", "expired"}

\* A wait is for the answer of a configured server.
Asking == Exchanging => server <= Len(Servers)

\* A request carries the id of its browser.
Naming == \A i \in 1 .. Len(inbox) : inbox[i].method = "offer" => inbox[i].id \in Id

Types == TypeOK /\ Asking /\ Naming

\* The answers that may still be read.
Answers == inflight \cup Range(socket)

\* The answer to the request is of the kind that is expected, and there is one only while
\* the wait goes on.
OwnAnswers == \A d \in Answers : d.own => Exchanging /\ d.kind = expect

\* Unless older answers were about before the request, what is expected is its own.
Fresh == Exchanging /\ ~leftover => \A d \in Answers : d.kind = expect => d.own

\* The answer that is owed lies in the socket, and is read before the wait can end, or an
\* older one has ended it.
Owing ==
    owed =>
        \/ gatherPc = "server" /\ leftover
        \/ [kind |-> expect, own |-> TRUE] \in Range(socket) /\ InTime

\* The deadline stays what it was when the wait began; unless it wrapped, the wait is
\* left with the first look at the clock behind it.
Timed ==
    Exchanging =>
        /\ deadline = (since + Timeout) % Clock
        /\ deadline >= since =>
               /\ Waiting => now < deadline
               /\ gatherPc = "expired" => now \in deadline .. deadline + MaxSleep - 1

Waits == OwnAnswers /\ Fresh /\ Owing /\ Timed

\* pending_payload is what the signaling task has read of it until it clears it, and never
\* an offer that it holds already.
Handing ==
    /\ sigPc = "take" => pending = payload
    /\ sigPc = "publish" => pending # payload

\* The offers that exist: published, in hand or in the mailbox.
Parked == (Range(offers) \cup {payload, pending}) \ {NONE}

\* A request on its way is a new one.
Arriving ==
    \A i \in 1 .. Len(inbox) : inbox[i].method = "offer" =>
        /\ inbox[i].id \in 1 .. asked
        /\ inbox[i].id # id /\ inbox[i].id \notin refused \cup Parked
        /\ \A j \in 1 .. Len(inbox) :
               inbox[j].method = "offer" /\ inbox[j].id = inbox[i].id => i = j

\* The request in g_ps.id has no response, or its offer has just been parked.
Accepted ==
    id # NONE =>
        /\ id \in 1 .. asked /\ id \notin refused
        /\ id \in Parked => peerPc = "clear"

\* An offer is in one place, and no offer has an error beside it.
Responded ==
    /\ IsInjective(offers)
    /\ payload \notin Range(offers) /\ pending \notin Range(offers)
    /\ Parked \cup refused \subseteq 1 .. asked
    /\ Parked \cap refused = {}

OfferInv == Handing /\ Arriving /\ Accepted /\ Responded

-----------------------------------------------------------------------------
(* The clock                                                               *)

\* The clock wraps at most once within a wait and a sleep.
LEMMA Tick ==
    ASSUME NEW t \in 0 .. Clock - 1, NEW ms \in 0 .. Timeout + MaxSleep
    PROVE  /\ (t + ms) % Clock \in 0 .. Clock - 1
           /\ t + ms < Clock => (t + ms) % Clock = t + ms
           /\ t + ms >= Clock => (t + ms) % Clock = t + ms - Clock
  BY TimeAssumption

-----------------------------------------------------------------------------
(* The types                                                               *)

\* A datagram that has become old keeps its kind.
LEMMA OldIsOld ==
    ASSUME NEW d \in Datagram
    PROVE  Old(d) \in Datagram /\ Old(d).kind = d.kind /\ ~Old(d).own
  BY DEF Old, Datagram

\* So do those in a set and in a socket.
LEMMA OldOnesIn ==
    ASSUME NEW S, S \subseteq Datagram
    PROVE  /\ OldIn(S) \subseteq Datagram
           /\ \A d \in OldIn(S) : ~d.own /\ \E e \in S : e.kind = d.kind
  BY OldIsOld DEF OldIn

LEMMA OldOnesOf ==
    ASSUME NEW s \in Seq(Datagram)
    PROVE  /\ OldOf(s) \in Seq(Datagram) /\ Len(OldOf(s)) = Len(s)
           /\ Range(OldOf(s)) \subseteq Datagram
           /\ \A d \in Range(OldOf(s)) : ~d.own /\ \E e \in Range(s) : e.kind = d.kind
  <1>1. /\ Len(s) \in Nat /\ DOMAIN s = 1 .. Len(s)
        /\ \A i \in 1 .. Len(s) : s[i] \in Datagram
    OBVIOUS
  <1>2. OldOf(s) = [i \in 1 .. Len(s) |-> Old(s[i])]
    BY <1>1 DEF OldOf
  <1>3. \A i \in 1 .. Len(s) : Old(s[i]) \in Datagram
    BY <1>1, OldIsOld
  <1>4. OldOf(s) \in Seq(Datagram) /\ Len(OldOf(s)) = Len(s)
    BY <1>1, <1>2, <1>3
  <1>5. \A d \in Range(OldOf(s)) : \E i \in 1 .. Len(s) : d = Old(s[i])
    BY <1>2 DEF Range
  <1>6. \A i \in 1 .. Len(s) : s[i] \in Range(s)
    BY <1>1 DEF Range
  <1> QED
    BY <1>1, <1>4, <1>5, <1>6, OldIsOld

\* A request puts its own answer under way; what was about is old.
LEMMA Requested ==
    ASSUME inflight \subseteq Datagram, NEW reply \in Reply, NEW unread \in Seq(Datagram),
           Request(reply, unread)
    PROVE  /\ inflight' \subseteq Datagram
           /\ socket' \in Seq(Datagram) /\ Len(socket') = Len(unread)
           /\ OwnAnswers' /\ Fresh' /\ Owing'
  <1>1. [kind |-> reply, own |-> TRUE] \in Datagram
    BY DEF Datagram
  <1>2. /\ inflight' = OldIn(inflight) \cup {[kind |-> reply, own |-> TRUE]}
        /\ socket' = OldOf(unread) /\ expect' = reply /\ gatherPc' = "poll" /\ owed' = FALSE
        /\ leftover' = (\E d \in inflight \cup Range(unread) : d.kind = reply)
    BY DEF Request
  <1>3. OwnAnswers'
    BY <1>2, OldOnesIn, OldOnesOf DEF OwnAnswers, Answers, Exchanging
  <1>4. Fresh'
    <2> SUFFICES ASSUME ~leftover', NEW d \in Answers', d.kind = expect' PROVE d.own
      BY DEF Fresh
    <2>1. \A e \in inflight \cup Range(unread) : e.kind # reply
      BY <1>2
    <2>2. d \notin OldIn(inflight) /\ d \notin Range(OldOf(unread))
      BY <1>2, <2>1, OldOnesIn, OldOnesOf
    <2> QED
      BY <1>2, <2>2 DEF Answers
  <1> QED
    BY <1>1, <1>2, <1>3, <1>4, OldOnesIn, OldOnesOf DEF Owing

\* When a wait returns, what is about is old.
LEMMA WaitReturns ==
    ASSUME inflight \subseteq Datagram, NEW unread \in Seq(Datagram), NextServer(unread)
    PROVE  /\ inflight' \subseteq Datagram
           /\ socket' \in Seq(Datagram) /\ Len(socket') = Len(unread)
           /\ OwnAnswers' /\ Fresh' /\ Timed'
  <1>1. inflight' = OldIn(inflight) /\ socket' = OldOf(unread) /\ gatherPc' = "server"
    BY DEF NextServer
  <1> QED
    BY <1>1, OldOnesIn, OldOnesOf DEF OwnAnswers, Answers, Fresh, Timed, Exchanging

\* The socket without the datagram that is read.
LEMMA DatagramRead ==
    ASSUME GatherTypeOK, socket # <<>>
    PROVE  /\ Tail(socket) \in Seq(Datagram) /\ Len(Tail(socket)) <= SocketLen
           /\ Range(socket) = {Head(socket)} \cup Range(Tail(socket))
           /\ Head(socket) \in Datagram
  BY HeadRemoved, SocketAssumption DEF GatherTypeOK

\* The steps of a gathering stay in their types.
LEMMA GatheringTypes ==
    ASSUME GatherTypeOK, Asking, Gathering
    PROVE  GatherTypeOK' /\ Asking' /\ gatherPc # "idle"
  <1> USE DEF GatherTypeOK, Asking, Exchanging, Reply, netVars, histVars
  <1>1. Len(Servers) \in Nat /\ \A i \in 1 .. Len(Servers) : Asks[Servers[i]] \in Reply
    BY ServersAssumption DEF Asks
  <1>2. Clock \in Nat \ {0} /\ (now + Timeout) % Clock \in 0 .. Clock - 1
    <2>1. Timeout \in 0 .. Timeout + MaxSleep /\ Clock \in Nat \ {0}
      BY TimeAssumption
    <2> QED
      BY <2>1, Tick
  <1>0. ASSUME NEW reply \in Reply, NEW unread \in Seq(Datagram), Len(unread) <= SocketLen,
               Request(reply, unread), UNCHANGED <<now, server, candidates>>,
               server <= Len(Servers)
        PROVE  GatherTypeOK' /\ Asking'
    <2>1. /\ inflight' \subseteq Datagram /\ socket' \in Seq(Datagram)
          /\ Len(socket') <= SocketLen
      BY <1>0, Requested
    <2>2. /\ since' = now /\ deadline' = (now + Timeout) % Clock /\ gatherPc' = "poll"
          /\ expect' = reply /\ owed' = FALSE /\ leftover' \in BOOLEAN
      BY <1>0 DEF Request
    <2> QED
      BY <1>0, <1>2, <2>1, <2>2
  <1>12. ASSUME NEW unread \in Seq(Datagram), Len(unread) <= SocketLen, NextServer(unread),
                now' = now, candidates' \subseteq 1 .. Len(Servers), server <= Len(Servers),
                owed' \in BOOLEAN, leftover' \in BOOLEAN
         PROVE  GatherTypeOK' /\ Asking'
    <2>1. /\ inflight' \subseteq Datagram /\ socket' \in Seq(Datagram)
          /\ Len(socket') <= SocketLen
      BY <1>12, WaitReturns
    <2> QED
      BY <1>1, <1>2, <1>12, <2>1 DEF NextServer
  <1>3. CASE GatherEnd
    <2>1. owed' \in BOOLEAN /\ leftover' \in BOOLEAN
      BY <1>3, Zenon DEF GatherEnd
    <2>2. /\ gatherPc = "server" /\ gatherPc' = "idle" /\ server' = 1
          /\ UNCHANGED <<now, deadline, since, expect, candidates, inflight, socket>>
      BY <1>3 DEF GatherEnd
    <2> QED
      BY <1>1, <2>1, <2>2
  <1>4. CASE SkipServer
    BY <1>1, <1>4 DEF SkipServer
  <1>5. CASE AskServer
    <2>1. /\ server \in 1 .. Len(Servers) /\ Asks[Servers[server]] \in Reply
          /\ gatherPc # "idle"
      BY <1>1, <1>5 DEF AskServer
    <2> QED
      BY <1>0, <1>5, <2>1 DEF AskServer
  <1>6. CASE RecvExpected
    <2>1. Tail(socket) \in Seq(Datagram) /\ Len(Tail(socket)) <= SocketLen
      BY <1>6, DatagramRead DEF RecvExpected
    <2>2. gatherPc = "poll" /\ server \in 1 .. Len(Servers) /\ now' = now
      BY <1>1, <1>6 DEF RecvExpected
    <2>3. CASE Request("allocated", Tail(socket)) /\ UNCHANGED <<server, candidates>>
      BY <1>0, <2>1, <2>2, <2>3
    <2>4. CASE /\ NextServer(Tail(socket)) /\ candidates' \subseteq candidates \cup {server}
               /\ owed' = (owed /\ ~Head(socket).own) /\ leftover' = leftover
      <3>1. candidates' \subseteq 1 .. Len(Servers) /\ owed' \in BOOLEAN /\ leftover' \in BOOLEAN
        BY <2>2, <2>4
      <3> QED
        BY <1>12, <2>1, <2>2, <2>4, <3>1
    <2> QED
      BY <1>6, <2>2, <2>3, <2>4 DEF RecvExpected
  <1>7. CASE RecvOther
    <2>1. socket' \in Seq(Datagram) /\ Len(socket') <= SocketLen
      BY <1>7, DatagramRead DEF RecvOther
    <2> QED
      BY <1>1, <1>7, <2>1 DEF RecvOther, KeepWaiting
  <1>8. CASE RecvFails
    BY <1>8, <1>12 DEF RecvFails
  <1>9. CASE RecvNothing
    BY <1>9 DEF RecvNothing
  <1>10. CASE Wake
    <2>1. PICK ms \in Slept : now' = (now + ms) % Clock /\ gatherPc' = KeepWaiting(now')
      BY <1>10 DEF Wake
    <2>2. ms \in 0 .. Timeout + MaxSleep
      BY TimeAssumption DEF Slept
    <2>3. now' \in 0 .. Clock - 1
      BY <2>1, <2>2, Tick
    <2> QED
      BY <1>10, <2>1, <2>3 DEF Wake, KeepWaiting
  <1>11. CASE GiveUp
    BY <1>11, <1>12 DEF GiveUp
  <1> QED
    BY <1>3, <1>4, <1>5, <1>6, <1>7, <1>8, <1>9, <1>10, <1>11 DEF Gathering

\* So do the steps of the network.
LEMMA InternetTypes ==
    ASSUME GatherTypeOK, Asking, Internet
    PROVE  GatherTypeOK' /\ Asking' /\ gatherPc' = gatherPc
  <1> USE DEF GatherTypeOK, Asking, Exchanging, waitVars, histVars
  <1>1. PICK d \in Datagram : Arrive(d) \/ Lose(d)
    BY DEF Internet
  <1>2. CASE Arrive(d)
    <2>1. socket' \in Seq(Datagram) /\ Len(socket') <= SocketLen
      BY <1>1, <1>2, TailInserted, SocketAssumption DEF Arrive
    <2>2. owed' \in BOOLEAN
      BY <1>2 DEF Arrive
    <2> QED
      BY <1>2, <2>1, <2>2 DEF Arrive
  <1>3. CASE Lose(d)
    BY <1>1, <1>3 DEF Lose
  <1> QED
    BY <1>1, <1>2, <1>3

\* A step that leaves the gathering alone.
LEMMA GatherStays ==
    ASSUME UNCHANGED gather
    PROVE  /\ gatherPc' = gatherPc
           /\ GatherTypeOK => GatherTypeOK'
           /\ Asking => Asking'
           /\ Waits => Waits'
  BY DEF gather, waitVars, netVars, histVars, GatherTypeOK, Asking, Exchanging, Waits, Answers,
         OwnAnswers, Fresh, Owing, Timed, InTime, Waiting

\* The message at the head is taken off the inbox.
LEMMA MessageTaken ==
    ASSUME Types, NEW method, Incoming(method)
    PROVE  /\ inbox' \in Seq(Message) /\ Len(inbox') <= InboxLen /\ Naming'
           /\ sigPc = "process" /\ asked' = asked
           /\ Head(inbox) \in Message
           /\ method = "offer" => Head(inbox).id \in Id
  <1>1. /\ inbox \in Seq(Message) /\ inbox # <<>> /\ inbox' = Tail(inbox)
        /\ Head(inbox).method = method /\ asked' = asked /\ sigPc = "process"
        /\ Len(inbox) <= InboxLen /\ InboxLen \in Nat
    BY InboxAssumption DEF Types, TypeOK, Incoming
  <1>2. /\ Head(inbox) = inbox[1] /\ 1 \in 1 .. Len(inbox)
        /\ \A i \in 1 .. Len(inbox') : i + 1 \in 1 .. Len(inbox) /\ inbox'[i] = inbox[i + 1]
        /\ Len(inbox') \in Nat
    BY <1>1
  <1>3. Head(inbox) \in Message /\ inbox' \in Seq(Message) /\ Len(inbox') <= InboxLen
    BY <1>1, HeadRemoved
  <1>4. Naming'
    BY <1>2 DEF Types, Naming
  <1>5. method = "offer" => Head(inbox).id \in Id
    BY <1>1, <1>2 DEF Types, Naming
  <1> QED
    BY <1>1, <1>3, <1>4, <1>5

\* A message that is sent joins the ones on their way.
LEMMA MessageSent ==
    ASSUME Types, NEW message \in Message, Publish(message),
           message.method = "offer" => message.id \in Id
    PROVE  inbox' \in Seq(Message) /\ Len(inbox') <= InboxLen /\ Naming'
  <1>1. /\ inbox \in Seq(Message) /\ Len(inbox) < InboxLen /\ inbox' = Append(inbox, message)
        /\ InboxLen \in Nat
    BY InboxAssumption DEF Types, TypeOK, Publish
  <1>2. /\ inbox' \in Seq(Message) /\ Len(inbox') = Len(inbox) + 1
        /\ inbox'[Len(inbox) + 1] = message
        /\ \A i \in 1 .. Len(inbox) : inbox'[i] = inbox[i]
    BY <1>1
  <1>3. Naming'
    BY <1>1, <1>2 DEF Types, Naming
  <1> QED
    BY <1>1, <1>2, <1>3

\* A step that leaves the gathering and the browsers alone stays in the types if what it
\* changes does.
LEMMA TypesKept ==
    ASSUME Types, UNCHANGED <<gather, browsers>>,
           state' \in States, described' \in BOOLEAN,
           id' \in Id \cup {NONE}, pending' \in Id \cup {NONE},
           peerPc' \in {"loop", "gather", "notify", "clear"} \cup DOMAIN Moves,
           gatherPc # "idle" => peerPc' = "gather",
           sigPc' \in {"loop", "take", "publish", "process", "create"},
           payload' \in Id \cup {NONE},
           payload' # NONE <=> sigPc' \in {"take", "publish"},
           offers' \in Seq(Id), refused' \subseteq Id, latest' \in Id \cup {NONE}
    PROVE  Types'
  <1>1. GatherTypeOK' /\ Asking' /\ gatherPc' = gatherPc
    BY GatherStays DEF Types, TypeOK
  <1>2. Naming' /\ inbox' = inbox /\ asked' = asked
    BY DEF Types, Naming, browsers
  <1> QED
    BY <1>1, <1>2 DEF Types, TypeOK

\* The browsers' steps.
LEMMA BrowserTypes == ASSUME Types, Browser PROVE Types'
  <1>1. /\ inbox' \in Seq(Message) /\ Len(inbox') <= InboxLen /\ Naming'
        /\ asked' \in 0 .. Requests
    <2>1. CASE BrowserAsks
      <3>1. asked' = asked + 1 /\ asked' \in Id /\ asked' \in 0 .. Requests
        BY <2>1, RequestsAssumption DEF Types, TypeOK, BrowserAsks, Id
      <3> DEFINE message == [method |-> "offer", id |-> asked']
      <3>2. message \in Message /\ Publish(message) /\ message.id \in Id
        BY <2>1, <3>1 DEF BrowserAsks, Message
      <3> QED
        BY <3>1, <3>2, MessageSent
    <2>2. CASE BrowserReplies
      <3>1. PICK method \in {"answer", "close"} : Publish([method |-> method, id |-> NONE])
        BY <2>2 DEF BrowserReplies
      <3> DEFINE message == [method |-> method, id |-> NONE]
      <3>2. message \in Message /\ Publish(message) /\ message.method # "offer"
        BY <3>1 DEF Message
      <3>3. asked' = asked
        BY <2>2 DEF BrowserReplies
      <3> QED
        BY <3>2, <3>3, MessageSent DEF Types, TypeOK
    <2> QED
      BY <2>1, <2>2 DEF Browser
  <1>2. UNCHANGED <<connection, mailbox, peer, signaling>>
    BY DEF Browser, BrowserAsks, BrowserReplies
  <1>3. GatherTypeOK' /\ Asking' /\ gatherPc' = gatherPc
    BY <1>2, GatherStays DEF peer, Types, TypeOK
  <1> QED
    BY <1>1, <1>2, <1>3 DEF Types, TypeOK, connection, mailbox, peer, signaling


\* The peer task's steps.
LEMMA PeerTypes == ASSUME Types, Peer PROVE Types'
  <1> USE DEF Types, TypeOK
  <1>1. CASE PeerGathers
    <2>1. /\ gatherPc = "idle" /\ gatherPc' = "server" /\ peerPc' = "gather"
          /\ GatherStart /\ UNCHANGED <<connection, mailbox, browsers, signaling>>
      BY <1>1 DEF PeerGathers, GatherStart, Moves
    <2>2. GatherTypeOK' /\ Asking'
      BY <2>1 DEF GatherStart, GatherTypeOK, Asking, Exchanging, netVars, histVars
    <2> QED
      BY <2>1, <2>2 DEF connection, mailbox, browsers, signaling, Naming
  <1>2. CASE PeerGathering
    <2>1. GatherTypeOK' /\ Asking'
      BY <1>2, GatheringTypes DEF PeerGathering
    <2>2. /\ peerPc = "gather" /\ peerPc' = "gather"
          /\ UNCHANGED <<connection, mailbox, browsers, signaling>>
      BY <1>2 DEF PeerGathering
    <2> QED
      BY <2>1, <2>2 DEF connection, mailbox, browsers, signaling, Naming
  <1>3. CASE PeerDescribes
    BY <1>3, TypesKept DEF PeerDescribes, mailbox, signaling
  <1>4. CASE PeerNotifies
    BY <1>4, TypesKept DEF PeerNotifies, Park, connection, signaling
  <1>5. CASE PeerClearsId
    BY <1>5, TypesKept DEF PeerClearsId, connection, signaling
  <1>6. CASE PeerMoves
    <2>1. state' \in States /\ gatherPc = "idle"
      BY <1>6 DEF PeerMoves, Moves, States
    <2> QED
      BY <1>6, <2>1, TypesKept DEF PeerMoves, mailbox, signaling
  <1>7. CASE PeerReads
    <2>1. /\ gatherPc = "idle" /\ socket' = Tail(socket) /\ socket # <<>>
          /\ UNCHANGED <<now, waitVars, inflight, histVars, peerPc>>
          /\ UNCHANGED <<connection, mailbox, browsers, signaling>>
      BY <1>7 DEF PeerReads, Moves
    <2>2. socket' \in Seq(Datagram) /\ Len(socket') <= SocketLen
      BY <2>1, DatagramRead
    <2>3. GatherTypeOK' /\ Asking' /\ gatherPc' = gatherPc
      BY <2>1, <2>2 DEF GatherTypeOK, Asking, Exchanging, waitVars, histVars
    <2> QED
      BY <2>1, <2>3 DEF connection, mailbox, browsers, signaling, Naming
  <1>8. CASE PeerLooks
    <2>1. /\ state \in DOMAIN Moves /\ gatherPc = "idle" /\ peerPc' = state
          /\ UNCHANGED <<connection, mailbox, browsers, gather, signaling>>
      BY <1>8 DEF PeerLooks, Moves
    <2> QED
      BY <2>1, TypesKept DEF connection, mailbox, signaling
  <1> QED
    BY <1>1, <1>2, <1>3, <1>4, <1>5, <1>6, <1>7, <1>8 DEF Peer

\* The signaling task's steps on the mailbox.
LEMMA LoopTypes ==
    ASSUME Types, SigLook \/ SigTake \/ SigPublish \/ SigIdle \/ SigCreatesOffer
    PROVE  Types'
  <1> USE DEF Types, TypeOK
  <1>1. CASE SigLook
    BY <1>1, TypesKept DEF SigLook, connection, mailbox, peer
  <1>2. CASE SigTake
    BY <1>2, TypesKept DEF SigTake, connection, peer
  <1>3. CASE SigPublish
    <2>1. payload \in Id /\ offers' = Append(offers, payload)
      BY <1>3 DEF SigPublish
    <2>2. offers' \in Seq(Id)
      BY <2>1, TailInserted
    <2> QED
      BY <1>3, <2>2, TypesKept DEF SigPublish, connection, mailbox, peer
  <1>4. CASE SigIdle
    BY <1>4, TypesKept DEF SigIdle, connection, mailbox, peer
  <1>5. CASE SigCreatesOffer
    BY <1>5, TypesKept DEF SigCreatesOffer, mailbox, peer, States
  <1> QED
    BY <1>1, <1>2, <1>3, <1>4, <1>5

\* Its steps on a message.
LEMMA MessageTypes ==
    ASSUME Types, SigRefuses \/ SigSetsId \/ SigAnswer \/ SigClose
    PROVE  Types'
  <1>1. /\ inbox' \in Seq(Message) /\ Len(inbox') <= InboxLen /\ Naming'
        /\ asked' = asked /\ sigPc = "process" /\ Head(inbox) \in Message
        /\ SigRefuses \/ SigSetsId => Head(inbox).id \in Id
    BY MessageTaken DEF SigRefuses, SigSetsId, SigAnswer, SigClose
  <1>2. UNCHANGED <<peer, described, pending, payload, offers>> /\ sigPc' \in {"loop", "create"}
    BY DEF SigRefuses, SigSetsId, SigAnswer, SigClose, connection, mailbox
  <1>3. GatherTypeOK' /\ Asking' /\ gatherPc' = gatherPc
    BY <1>2, GatherStays DEF peer, Types, TypeOK
  <1>4. refused' \subseteq Id /\ id' \in Id \cup {NONE} /\ latest' \in Id \cup {NONE}
    BY <1>1 DEF SigRefuses, SigSetsId, SigAnswer, SigClose, mailbox, Types, TypeOK
  <1>5. state' \in States
    BY DEF SigRefuses, SigSetsId, SigAnswer, SigClose, connection, States, Types, TypeOK
  <1> QED
    BY <1>1, <1>2, <1>3, <1>4, <1>5 DEF Types, TypeOK, peer

\* Types holds initially and every step keeps it.
LEMMA InitTypes == Init => Types
  <1> SUFFICES ASSUME Init PROVE Types
    OBVIOUS
  <1>1. Clock \in Nat \ {0} /\ Len(Servers) \in Nat
    BY TimeAssumption, ServersAssumption
  <1>2. GatherTypeOK
    <2>1. owed \in BOOLEAN /\ leftover \in BOOLEAN
      BY Zenon DEF Init, GatherInit
    <2>2. /\ now \in 0 .. Clock - 1 /\ deadline = 0 /\ since = 0 /\ gatherPc = "idle"
          /\ server = 1 /\ expect = "bound" /\ candidates = {} /\ inflight = {}
          /\ socket = <<>>
      BY DEF Init, GatherInit
    <2> QED
      BY <1>1, <2>1, <2>2, SocketAssumption DEF GatherTypeOK, Reply
  <1>3. /\ inbox \in Seq(Message) /\ Len(inbox) = 0 /\ Len(inbox) <= InboxLen
        /\ offers \in Seq(Id) /\ asked \in 0 .. Requests
    BY RequestsAssumption, InboxAssumption DEF Init
  <1>4. Asking /\ Naming
    BY <1>3 DEF Init, GatherInit, Asking, Exchanging, Naming
  <1> QED
    BY <1>2, <1>3, <1>4 DEF Init, GatherInit, Types, TypeOK, States

LEMMA NextTypes == Types /\ [Next]_vars => Types'
  <1> SUFFICES ASSUME Types, [Next]_vars PROVE Types'
    OBVIOUS
  <1>1. CASE Network
    <2>1. GatherTypeOK' /\ Asking' /\ gatherPc' = gatherPc
      BY <1>1, InternetTypes DEF Network, Types, TypeOK
    <2> QED
      BY <1>1, <2>1 DEF Network, Types, TypeOK, Naming, connection, mailbox, browsers, signaling
  <1>2. CASE UNCHANGED vars
    BY <1>2, TypesKept DEF vars, peer, connection, mailbox, signaling, Types, TypeOK
  <1> QED
    BY <1>1, <1>2, BrowserTypes, PeerTypes, LoopTypes, MessageTypes DEF Next, Signal

LEMMA TypesInvariant == Spec => []Types
  BY InitTypes, NextTypes, PTL DEF Spec

\* The variables stay in their types, and the two tasks are where their locals say.
THEOREM SignalingTypes == Spec => []TypeOK
  BY TypesInvariant, PTL DEF Types

-----------------------------------------------------------------------------
(* The wait for a STUN answer                                              *)

\* Asking a server begins a wait that is owed nothing yet.
LEMMA RequestBegins ==
    ASSUME Types, NEW reply \in Reply, NEW unread \in Seq(Datagram), Request(reply, unread),
           now' = now
    PROVE  Waits'
  <1>1. /\ deadline' = (since' + Timeout) % Clock /\ since' = now' /\ gatherPc' = "poll"
        /\ now \in 0 .. Clock - 1
    BY DEF Request, Types, TypeOK, GatherTypeOK
  <1>2. deadline' >= since' => now' < deadline'
    <2>1. /\ Timeout \in 0 .. Timeout + MaxSleep /\ Timeout \in Nat \ {0}
          /\ Clock \in Nat /\ Timeout < Clock
      BY TimeAssumption
    <2>2. /\ now + Timeout < Clock => (now + Timeout) % Clock = now + Timeout
          /\ now + Timeout >= Clock => (now + Timeout) % Clock = now + Timeout - Clock
      BY <1>1, <2>1, Tick
    <2> QED
      BY <1>1, <2>1, <2>2
  <1>3. OwnAnswers' /\ Fresh' /\ Owing'
    BY Requested DEF Types, TypeOK, GatherTypeOK
  <1> QED
    BY <1>1, <1>2, <1>3 DEF Waits, Timed, Exchanging, Waiting

\* A sleep that ends before the deadline goes back to the socket; one that passes it passes
\* it by less than a sleep.
LEMMA SleepEnds == ASSUME Types, Waits, Wake PROVE Waits'
  <1>1. PICK ms \in Slept : now' = (now + ms) % Clock /\ gatherPc' = KeepWaiting(now')
    BY DEF Wake
  <1>2. /\ ms \in 0 .. MaxSleep /\ ms \in 0 .. Timeout + MaxSleep
        /\ MaxSleep \in Nat /\ Clock \in Nat /\ ms < Clock
    BY TimeAssumption DEF Slept
  <1>3. /\ gatherPc = "sleep"
        /\ UNCHANGED <<deadline, since, expect, inflight, socket, owed, leftover>>
        /\ now \in 0 .. Clock - 1 /\ deadline \in 0 .. Clock - 1 /\ since \in 0 .. Clock - 1
    BY DEF Wake, Types, TypeOK, GatherTypeOK, netVars, histVars
  <1>4. /\ now' \in 0 .. Clock - 1
        /\ now + ms < Clock => now' = now + ms
        /\ now + ms >= Clock => now' = now + ms - Clock
    BY <1>1, <1>2, <1>3, Tick
  <1>5. \/ gatherPc' = "poll" /\ now' < deadline
        \/ gatherPc' = "expired" /\ now' >= deadline
    BY <1>1, <1>3, <1>4 DEF KeepWaiting, TimeLeft
  <1>6. Owing'
    <2> SUFFICES ASSUME owed
                 PROVE  [kind |-> expect, own |-> TRUE] \in Range(socket) /\ InTime'
      BY <1>3 DEF Owing
    <2>1. [kind |-> expect, own |-> TRUE] \in Range(socket) /\ now + MaxSleep < deadline
      BY <1>3 DEF Waits, Owing, InTime
    <2>2. now + ms < deadline /\ now + ms < Clock
      BY <1>2, <1>3, <2>1
    <2>3. now' < deadline /\ ~(now' >= deadline)
      BY <1>2, <1>3, <1>4, <2>2
    <2> QED
      BY <1>3, <1>5, <2>1, <2>3 DEF InTime
  <1>7. Timed'
    <2>1. /\ deadline' = (since' + Timeout) % Clock
          /\ deadline >= since => now < deadline
      BY <1>3 DEF Waits, Timed, Exchanging, Waiting
    <2>2. ASSUME deadline >= since, now' >= deadline
          PROVE  now' \in deadline .. deadline + MaxSleep - 1
      BY <1>2, <1>3, <1>4, <2>1, <2>2
    <2> QED
      BY <1>3, <1>5, <2>1, <2>2 DEF Timed, Exchanging, Waiting
  <1>8. OwnAnswers' /\ Fresh'
    BY <1>3, <1>5 DEF Waits, OwnAnswers, Fresh, Answers, Exchanging
  <1> QED
    BY <1>6, <1>7, <1>8 DEF Waits

\* The steps of a gathering keep the promise of a wait.
LEMMA GatheringWaits == ASSUME Types, Waits, Gathering PROVE Waits'
  <1>0. /\ now \in 0 .. Clock - 1 /\ deadline \in 0 .. Clock - 1 /\ since \in 0 .. Clock - 1
        /\ inflight \subseteq Datagram /\ socket \in Seq(Datagram) /\ Clock \in Nat
        /\ GatherTypeOK /\ owed \in BOOLEAN
    BY TimeAssumption DEF Types, TypeOK, GatherTypeOK
  <1>1. CASE GatherEnd \/ SkipServer
    <2>1. /\ gatherPc = "server" /\ gatherPc' \in {"server", "idle"}
          /\ UNCHANGED <<inflight, socket>>
          /\ owed' => owed /\ gatherPc' = "server" /\ leftover' = leftover
      BY <1>1 DEF GatherEnd, SkipServer, netVars, histVars
    <2>2. OwnAnswers' /\ Fresh' /\ Timed'
      BY <2>1 DEF Waits, OwnAnswers, Fresh, Timed, Answers, Exchanging
    <2>3. Owing'
      BY <2>1 DEF Waits, Owing, InTime
    <2> QED
      BY <2>2, <2>3 DEF Waits
  <1>2. CASE AskServer
    <2>1. Servers[server] \in {"stun", "turn"}
      BY <1>2, ServersAssumption DEF AskServer, Types, TypeOK, GatherTypeOK
    <2>2. Asks[Servers[server]] \in Reply
      BY <2>1 DEF Asks, Reply
    <2> QED
      BY <1>0, <1>2, <2>2, RequestBegins DEF AskServer
  <1>3. CASE RecvExpected
    <2>1. /\ gatherPc = "poll" /\ socket # <<>> /\ Head(socket).kind = expect /\ now' = now
          /\ Tail(socket) \in Seq(Datagram) /\ Head(socket) \in Range(socket)
      BY <1>0, <1>3, DatagramRead DEF RecvExpected
    <2>2. CASE Request("allocated", Tail(socket))
      BY <2>1, <2>2, RequestBegins DEF Reply
    <2>3. CASE NextServer(Tail(socket)) /\ owed' = (owed /\ ~Head(socket).own)
                  /\ leftover' = leftover
      <3>1. ~Head(socket).own => leftover
        BY <2>1 DEF Waits, Fresh, Answers, Exchanging
      <3>2. gatherPc' = "server"
        BY <2>3 DEF NextServer
      <3>3. Owing'
        BY <2>3, <3>1, <3>2 DEF Owing
      <3> QED
        BY <1>0, <2>1, <2>3, <3>3, WaitReturns DEF Waits
    <2> QED
      BY <1>3, <2>2, <2>3 DEF RecvExpected
  <1>4. CASE RecvOther
    <2>1. /\ gatherPc = "poll" /\ socket # <<>> /\ Head(socket).kind # expect
          /\ socket' = Tail(socket) /\ gatherPc' = KeepWaiting(now)
          /\ UNCHANGED <<now, deadline, since, expect, inflight, owed, leftover>>
      BY <1>4 DEF RecvOther, histVars
    <2>2. Range(socket) = {Head(socket)} \cup Range(socket')
      BY <1>0, <2>1, DatagramRead
    <2>3. now < deadline => gatherPc' = "poll"
      BY <2>1 DEF KeepWaiting, TimeLeft
    <2>4. ~(now < deadline) => gatherPc' = "expired"
      BY <2>1 DEF KeepWaiting, TimeLeft
    <2>5. Owing'
      BY <2>1, <2>2, <2>3 DEF Waits, Owing, InTime
    <2>6. Timed'
      BY <2>1, <2>3, <2>4 DEF Waits, Timed, Exchanging, Waiting
    <2>7. OwnAnswers' /\ Fresh'
      BY <2>1, <2>2, <2>3, <2>4 DEF Waits, OwnAnswers, Fresh, Answers, Exchanging
    <2> QED
      BY <2>5, <2>6, <2>7 DEF Waits
  <1>5. CASE RecvFails \/ GiveUp
    <2>1. NextServer(socket) /\ owed' = FALSE
      BY <1>5 DEF RecvFails, GiveUp, histVars, Waits, Owing, InTime
    <2>2. Owing'
      BY <2>1 DEF Owing
    <2> QED
      BY <1>0, <2>1, <2>2, WaitReturns DEF Waits
  <1>6. CASE RecvNothing
    <2>1. /\ socket = <<>> /\ gatherPc = "poll" /\ gatherPc' = "sleep"
          /\ UNCHANGED <<now, deadline, since, expect, inflight, socket, owed, leftover>>
      BY <1>6 DEF RecvNothing, netVars, histVars
    <2>2. ~owed
      BY <2>1, NoElements DEF Waits, Owing
    <2>3. Owing'
      BY <2>1, <2>2 DEF Owing
    <2>4. OwnAnswers' /\ Fresh' /\ Timed'
      BY <2>1 DEF Waits, OwnAnswers, Fresh, Timed, Answers, Exchanging, Waiting
    <2> QED
      BY <2>3, <2>4 DEF Waits
  <1>7. CASE Wake
    BY <1>7, SleepEnds
  <1> QED
    BY <1>1, <1>2, <1>3, <1>4, <1>5, <1>6, <1>7 DEF Gathering

\* So do the steps of the network: an answer counts when a read still follows it.
LEMMA InternetWaits == ASSUME Types, Waits, Internet PROVE Waits'
  <1>1. PICK d \in Datagram : Arrive(d) \/ Lose(d)
    BY DEF Internet
  <1>2. UNCHANGED <<now, deadline, since, gatherPc, expect, leftover>>
    BY <1>1 DEF Arrive, Lose, waitVars, histVars
  <1>3. Timed'
    BY <1>2 DEF Waits, Timed, Exchanging, Waiting
  <1>4. CASE Arrive(d)
    <2>1. /\ d \in inflight /\ inflight' \subseteq inflight /\ socket' = Append(socket, d)
          /\ owed' = (owed \/ (d.own /\ InTime))
      BY <1>4 DEF Arrive
    <2>2. Range(socket') = {d} \cup Range(socket)
      BY <1>1, <2>1, TailInserted DEF Types, TypeOK, GatherTypeOK
    <2>3. d.own => d = [kind |-> expect, own |-> TRUE]
      <3>1. d = [kind |-> d.kind, own |-> d.own] /\ d.own \in BOOLEAN
        BY <1>1 DEF Datagram
      <3>2. d.own => d.kind = expect
        BY <2>1 DEF Waits, OwnAnswers, Answers
      <3>3. d.own => d.own = TRUE
        BY <3>1, Zenon
      <3> QED
        BY <3>1, <3>2, <3>3, Zenon
    <2>4. Owing'
      BY <1>2, <2>1, <2>2, <2>3 DEF Waits, Owing, InTime
    <2>5. OwnAnswers' /\ Fresh'
      BY <1>2, <2>1, <2>2 DEF Waits, OwnAnswers, Fresh, Answers, Exchanging
    <2> QED
      BY <1>3, <2>4, <2>5 DEF Waits
  <1>5. CASE Lose(d)
    <2>1. inflight' \subseteq inflight /\ UNCHANGED <<socket, owed>>
      BY <1>5 DEF Lose, histVars
    <2> QED
      BY <1>2, <1>3, <2>1
         DEF Waits, Owing, OwnAnswers, Fresh, Answers, Exchanging, InTime
  <1> QED
    BY <1>1, <1>4, <1>5

\* A datagram is read when no gathering is under way.
LEMMA ReadsWait == ASSUME Types, Waits, PeerReads PROVE Waits'
  <1>1. /\ gatherPc = "idle" /\ gatherPc' = "idle"
        /\ UNCHANGED <<inflight, owed, leftover>> /\ socket # <<>> /\ socket' = Tail(socket)
    BY DEF PeerReads, waitVars, histVars, Types, TypeOK, Moves
  <1>2. Range(socket') \subseteq Range(socket)
    BY <1>1, DatagramRead DEF Types, TypeOK
  <1> QED
    BY <1>1, <1>2 DEF Waits, Owing, OwnAnswers, Fresh, Timed, Answers, Exchanging, InTime

\* Every step keeps them.
LEMMA WaitInvariant == Spec => [](Types /\ Waits)
  <1>1. Init => Waits
    <2> SUFFICES ASSUME Init PROVE Waits
      OBVIOUS
    <2>1. Answers = {}
      BY NoElements DEF Init, GatherInit, Answers
    <2> QED
      BY <2>1 DEF Init, GatherInit, Waits, Owing, OwnAnswers, Fresh, Timed, Exchanging
  <1>2. Types /\ Waits /\ [Next]_vars => Waits'
    <2> SUFFICES ASSUME Types, Waits, [Next]_vars PROVE Waits'
      OBVIOUS
    <2>1. CASE PeerGathers
      <3>1. /\ gatherPc = "idle" /\ gatherPc' = "server"
            /\ UNCHANGED <<inflight, socket, owed, leftover>>
        BY <2>1 DEF PeerGathers, GatherStart, netVars, histVars, Types, TypeOK, Moves
      <3> QED
        BY <3>1 DEF Waits, Owing, OwnAnswers, Fresh, Timed, Answers, Exchanging, InTime
    <2>2. CASE PeerGathering
      BY <2>2, GatheringWaits DEF PeerGathering
    <2>3. CASE PeerReads
      BY <2>3, ReadsWait
    <2>4. CASE Network
      BY <2>4, InternetWaits DEF Network
    <2>5. CASE UNCHANGED gather
      BY <2>5, GatherStays
    <2>6. Browser \/ Signal \/ PeerDescribes \/ PeerNotifies \/ PeerClearsId \/ PeerLooks
             \/ PeerMoves \/ UNCHANGED vars => UNCHANGED gather
      BY DEF Browser, BrowserAsks, BrowserReplies, Signal, SigLook, SigTake, SigPublish, SigIdle,
             SigRefuses, SigSetsId, SigCreatesOffer, SigAnswer, SigClose, PeerDescribes,
             PeerNotifies, PeerClearsId, PeerLooks, PeerMoves, peer, vars
    <2> QED
      BY <2>1, <2>2, <2>3, <2>4, <2>5, <2>6 DEF Next, Peer
  <1> QED
    BY <1>1, <1>2, InitTypes, NextTypes, PTL DEF Spec

\* agent_socket_recv_stun() takes the answer that comes in time, for any number of servers
\* and of datagrams left in the socket from earlier requests, unless an older answer of the
\* same kind takes its place.
THEOREM OwedAnswerTaken == Spec => []AnswerTaken
  <1>1. Waits => AnswerTaken
    BY DEF Waits, Owing, InTime, AnswerTaken, Waiting
  <1> QED
    BY <1>1, WaitInvariant, PTL

\* It waits for the timeout and at most one sleep more, unless the clock wraps.
THEOREM WaitEndsOnTime == Spec => []WaitIsTimed
  <1>1. Types /\ Timed => WaitIsTimed
    <2> SUFFICES ASSUME Types, Timed, Exchanging, ~ClockWrapped
                 PROVE  /\ Waiting => now - since < Timeout
                        /\ gatherPc = "expired" =>
                              now - since \in Timeout .. Timeout + MaxSleep - 1
      BY DEF WaitIsTimed, Exchanging, Waiting
    <2>1. /\ now \in 0 .. Clock - 1 /\ since \in 0 .. Clock - 1 /\ deadline >= since
          /\ Timeout \in Nat \ {0} /\ MaxSleep \in Nat \ {0} /\ Clock \in Nat
          /\ Timeout < Clock /\ Timeout \in 0 .. Timeout + MaxSleep
          /\ deadline \in 0 .. Clock - 1
      BY TimeAssumption DEF Types, TypeOK, GatherTypeOK, ClockWrapped
    <2>2. deadline = since + Timeout
      <3>1. /\ since + Timeout < Clock => deadline = since + Timeout
            /\ since + Timeout >= Clock => deadline = since + Timeout - Clock
        BY <2>1, Tick DEF Timed
      <3> QED
        BY <2>1, <3>1
    <2>3. /\ Waiting => now < deadline
          /\ gatherPc = "expired" => now \in deadline .. deadline + MaxSleep - 1
      BY <2>1 DEF Timed
    <2> QED
      BY <2>1, <2>2, <2>3
  <1> QED
    BY <1>1, WaitInvariant, PTL DEF Waits

-----------------------------------------------------------------------------
(* One response to a request                                               *)

\* Offers that are published have ids, and NONE is none.
LEMMA NoneIsNoId ==
    TypeOK => NONE \notin Id /\ NONE \notin Range(offers) /\ Range(offers) \subseteq Id
  <1> SUFFICES ASSUME TypeOK PROVE NONE \notin Id /\ Range(offers) \subseteq Id
    OBVIOUS
  <1>1. offers \in Seq(Id)
    BY DEF TypeOK
  <1> QED
    BY <1>1, Elements, RequestsAssumption DEF Id, NONE

\* A step that leaves these alone.
LEMMA OffersStay ==
    ASSUME OfferInv, UNCHANGED <<browsers, mailbox, offers, refused, payload>>,
           peerPc = "clear" => peerPc' = "clear",
           sigPc' = sigPc \/ sigPc' \notin {"take", "publish"}
    PROVE  OfferInv'
  BY DEF OfferInv, browsers, mailbox, Handing, Arriving, Accepted, Responded, Parked

\* A new request gets an id that nothing has.
LEMMA AskOffers == ASSUME Types, OfferInv, BrowserAsks PROVE OfferInv'
  <1>1. /\ inbox \in Seq(Message) /\ asked \in Nat /\ asked' = asked + 1
        /\ inbox' = Append(inbox, [method |-> "offer", id |-> asked'])
        /\ UNCHANGED <<mailbox, offers, refused, payload, peerPc, sigPc>>
    BY RequestsAssumption DEF BrowserAsks, Publish, Types, TypeOK, peer, signaling
  <1>2. /\ Len(inbox') = Len(inbox) + 1 /\ Len(inbox) \in Nat
        /\ inbox'[Len(inbox')].id = asked + 1
        /\ \A i \in 1 .. Len(inbox') :
               i = Len(inbox') \/ (i \in 1 .. Len(inbox) /\ inbox'[i] = inbox[i])
    BY <1>1
  <1>3. Parked' = Parked
    BY <1>1 DEF Parked, mailbox
  <1>4. \A r \in 1 .. asked : r \in 1 .. asked' /\ r # asked + 1
    BY <1>1
  <1>5. id \in Id \cup {NONE} /\ asked + 1 # NONE
    BY <1>1 DEF Types, TypeOK, NONE
  <1>6. /\ asked + 1 \in 1 .. asked' /\ asked + 1 # id
        /\ asked + 1 \notin refused \cup Parked
    BY <1>1, <1>4, <1>5 DEF OfferInv, Accepted, Responded
  <1>7. Arriving'
    <2> SUFFICES ASSUME NEW i \in 1 .. Len(inbox'), inbox'[i].method = "offer"
                 PROVE  /\ inbox'[i].id \in 1 .. asked'
                        /\ inbox'[i].id # id /\ inbox'[i].id \notin refused \cup Parked
                        /\ \A j \in 1 .. Len(inbox') :
                              inbox'[j].method = "offer" /\ inbox'[j].id = inbox'[i].id => i = j
      BY <1>1, <1>3 DEF Arriving, mailbox
    <2>1. \A k \in 1 .. Len(inbox) : inbox[k].method = "offer" => inbox[k].id \in 1 .. asked
      BY DEF OfferInv, Arriving
    <2>2. CASE i = Len(inbox')
      BY <1>2, <1>4, <1>6, <2>1, <2>2
    <2>3. CASE i \in 1 .. Len(inbox) /\ inbox'[i] = inbox[i]
      BY <1>2, <1>4, <2>1, <2>3 DEF OfferInv, Arriving
    <2> QED
      BY <1>2, <2>2, <2>3
  <1>8. Handing' /\ Accepted' /\ Responded'
    BY <1>1, <1>3, <1>4 DEF OfferInv, Handing, Accepted, Responded, mailbox
  <1> QED
    BY <1>7, <1>8 DEF OfferInv

\* A reply is no request.
LEMMA ReplyOffers == ASSUME Types, OfferInv, BrowserReplies PROVE OfferInv'
  <1>1. PICK method \in {"answer", "close"} :
            /\ inbox' = Append(inbox, [method |-> method, id |-> NONE])
            /\ asked' = asked
            /\ UNCHANGED <<mailbox, offers, refused, payload, peerPc, sigPc>>
    BY DEF BrowserReplies, Publish, peer, signaling
  <1>2. /\ Len(inbox') = Len(inbox) + 1 /\ Len(inbox) \in Nat
        /\ inbox'[Len(inbox')].method # "offer"
        /\ \A i \in 1 .. Len(inbox') :
               i = Len(inbox') \/ (i \in 1 .. Len(inbox) /\ inbox'[i] = inbox[i])
    BY <1>1 DEF Types, TypeOK
  <1>3. Arriving'
    BY <1>1, <1>2 DEF OfferInv, Arriving, Parked, mailbox
  <1>4. Handing' /\ Accepted' /\ Responded'
    BY <1>1 DEF OfferInv, Handing, Accepted, Responded, Parked, mailbox
  <1> QED
    BY <1>3, <1>4 DEF OfferInv

\* An offer is parked for a request that has none.
LEMMA NotifyOffers == ASSUME Types, OfferInv, PeerNotifies PROVE OfferInv'
  <1>1. /\ peerPc = "notify" /\ UNCHANGED <<id, inbox, asked, offers, refused, payload, sigPc>>
        /\ pending' = pending \/ (pending = NONE /\ id # NONE /\ pending' = id /\ peerPc' = "clear")
        /\ id # NONE => peerPc' = "clear"
    BY DEF PeerNotifies, Park, browsers, signaling
  <1>2. CASE pending' = pending
    BY <1>1, <1>2 DEF OfferInv, Handing, Arriving, Accepted, Responded, Parked
  <1>3. CASE pending = NONE /\ id # NONE /\ pending' = id /\ peerPc' = "clear"
    <2>1. id \notin Parked /\ id \notin refused /\ id \in 1 .. asked
      BY <1>1, <1>3 DEF OfferInv, Accepted
    <2>2. Parked' = Parked \cup {id}
      BY <1>1, <1>3 DEF Parked
    <2>3. id \notin Range(offers) /\ id # payload
      BY <1>3, <2>1 DEF Parked
    <2>4. sigPc # "take"
      BY <1>3 DEF OfferInv, Handing, Types, TypeOK
    <2>5. Handing' /\ Accepted' /\ Responded'
      BY <1>1, <1>3, <2>1, <2>2, <2>3, <2>4 DEF OfferInv, Handing, Accepted, Responded
    <2>6. Arriving'
      BY <1>1, <2>2 DEF OfferInv, Arriving
    <2> QED
      BY <2>5, <2>6 DEF OfferInv
  <1> QED
    BY <1>1, <1>2, <1>3

\* The id is cleared.
LEMMA ClearOffers == ASSUME Types, OfferInv, PeerClearsId PROVE OfferInv'
  <1>1. /\ id' = NONE /\ UNCHANGED <<pending, inbox, asked, offers, refused, payload, sigPc>>
    BY DEF PeerClearsId, browsers, signaling
  <1>2. \A i \in 1 .. Len(inbox) : inbox[i].method = "offer" => inbox[i].id # NONE
    BY NoneIsNoId DEF Types, Naming
  <1> QED
    BY <1>1, <1>2 DEF OfferInv, Handing, Arriving, Accepted, Responded, Parked

\* The mailbox is emptied into the hand, and the hand into what is published.
LEMMA TakeOffers ==
    ASSUME Types, OfferInv, SigLook \/ SigTake \/ SigPublish
    PROVE  OfferInv'
  <1>0. NONE \notin Id /\ NONE \notin Range(offers)
    BY NoneIsNoId DEF Types
  <1>1. UNCHANGED <<id, inbox, asked, refused, peerPc>>
    BY DEF SigLook, SigTake, SigPublish, mailbox, browsers, peer
  <1>2. Parked' = Parked /\ Handing' /\ IsInjective(offers')
        /\ payload' \notin Range(offers') /\ pending' \notin Range(offers')
    <2>1. CASE SigLook
      <3>1. /\ payload = NONE /\ payload' = pending /\ UNCHANGED <<pending, offers>>
            /\ sigPc' = IF pending = NONE THEN "process" ELSE "take"
        BY <2>1 DEF SigLook, mailbox, Types, TypeOK
      <3> QED
        BY <1>0, <3>1 DEF Parked, Handing, OfferInv, Responded
    <2>2. CASE SigTake
      <3>1. /\ pending = payload /\ pending' = NONE /\ UNCHANGED <<payload, offers>>
            /\ sigPc' = "publish" /\ payload # NONE
        BY <2>2 DEF SigTake, OfferInv, Handing, Types, TypeOK
      <3> QED
        BY <1>0, <3>1 DEF Parked, Handing, OfferInv, Responded
    <2>3. CASE SigPublish
      <3>1. /\ payload \in Id /\ payload' = NONE /\ pending' = pending /\ pending # payload
            /\ offers' = Append(offers, payload) /\ sigPc' = "process" /\ offers \in Seq(Id)
        BY <2>3 DEF SigPublish, mailbox, OfferInv, Handing, Types, TypeOK
      <3>2. payload \notin Range(offers) /\ pending \notin Range(offers) /\ IsInjective(offers)
        BY DEF OfferInv, Responded
      <3>3. Range(offers') = {payload} \cup Range(offers) /\ IsInjective(offers')
        BY <3>1, <3>2, TailInserted
      <3> QED
        BY <1>0, <3>1, <3>2, <3>3 DEF Parked, Handing
    <2> QED
      BY <2>1, <2>2, <2>3
  <1> QED
    BY <1>1, <1>2 DEF OfferInv, Arriving, Accepted, Responded

\* A message is taken off the inbox: a request becomes the one that is served, or is
\* refused.
LEMMA MessageOffers ==
    ASSUME Types, OfferInv, SigRefuses \/ SigSetsId \/ SigAnswer \/ SigClose
    PROVE  OfferInv'
  <1>1. /\ inbox \in Seq(Message) /\ inbox # <<>> /\ inbox' = Tail(inbox) /\ asked' = asked
        /\ SigRefuses \/ SigSetsId => Head(inbox).method = "offer"
        /\ sigPc = "process" /\ sigPc' \in {"loop", "create"}
        /\ UNCHANGED <<pending, payload, offers, peerPc>>
    BY DEF SigRefuses, SigSetsId, SigAnswer, SigClose, Incoming, mailbox, peer, Types, TypeOK
  <1>2. /\ Head(inbox) = inbox[1] /\ 1 \in 1 .. Len(inbox)
        /\ \A i \in 1 .. Len(inbox') :
               i + 1 \in 1 .. Len(inbox) /\ inbox'[i] = inbox[i + 1] /\ i + 1 # 1
    BY <1>1
  <1>3. Parked' = Parked /\ Handing'
    BY <1>1 DEF Parked, Handing
  <1>4. /\ \A i \in 1 .. Len(inbox') : inbox'[i].method = "offer" =>
              /\ inbox'[i].id \in 1 .. asked /\ inbox'[i].id # id
              /\ inbox'[i].id \notin refused \cup Parked
              /\ SigRefuses \/ SigSetsId => inbox'[i].id # Head(inbox).id
        /\ \A i, j \in 1 .. Len(inbox') :
              inbox'[i].method = "offer" /\ inbox'[j].method = "offer"
                 /\ inbox'[i].id = inbox'[j].id => i = j
    <2>1. \A i \in 1 .. Len(inbox) : inbox[i].method = "offer" =>
              /\ inbox[i].id \in 1 .. asked /\ inbox[i].id # id
              /\ inbox[i].id \notin refused \cup Parked
              /\ \A j \in 1 .. Len(inbox) :
                    inbox[j].method = "offer" /\ inbox[j].id = inbox[i].id => i = j
      BY DEF OfferInv, Arriving
    <2>2. ASSUME NEW i \in 1 .. Len(inbox'), inbox'[i].method = "offer"
          PROVE  /\ inbox'[i].id \in 1 .. asked /\ inbox'[i].id # id
                 /\ inbox'[i].id \notin refused \cup Parked
                 /\ SigRefuses \/ SigSetsId => inbox'[i].id # Head(inbox).id
      <3>1. i + 1 \in 1 .. Len(inbox) /\ inbox[i + 1].method = "offer" /\ i + 1 # 1
            /\ inbox'[i].id = inbox[i + 1].id
        BY <1>2, <2>2
      <3> QED
        BY <1>1, <1>2, <2>1, <3>1
    <2>3. ASSUME NEW i \in 1 .. Len(inbox'), NEW j \in 1 .. Len(inbox'),
                 inbox'[i].method = "offer", inbox'[j].method = "offer",
                 inbox'[i].id = inbox'[j].id
          PROVE  i = j
      <3>1. /\ i + 1 \in 1 .. Len(inbox) /\ inbox[i + 1].method = "offer"
            /\ j + 1 \in 1 .. Len(inbox) /\ inbox[j + 1].method = "offer"
            /\ inbox[i + 1].id = inbox[j + 1].id
        BY <1>2, <2>3
      <3>2. i + 1 = j + 1
        BY <2>1, <3>1
      <3> QED
        BY <3>2
    <2> QED
      BY <2>2, <2>3
  <1>5. SigRefuses \/ SigSetsId =>
           /\ Head(inbox).id \in 1 .. asked /\ Head(inbox).id # id
           /\ Head(inbox).id \notin refused \cup Parked
    BY <1>1, <1>2 DEF OfferInv, Arriving
  <1>6. CASE SigRefuses
    <2>1. refused' = refused \cup {Head(inbox).id} /\ id' = id
      BY <1>6 DEF SigRefuses, mailbox
    <2> QED
      BY <1>1, <1>3, <1>4, <1>5, <1>6, <2>1 DEF OfferInv, Arriving, Accepted, Responded
  <1>7. CASE SigSetsId
    <2>1. refused' = refused /\ id' = Head(inbox).id
      BY <1>7 DEF SigSetsId
    <2> QED
      BY <1>1, <1>3, <1>4, <1>5, <1>7, <2>1 DEF OfferInv, Arriving, Accepted, Responded
  <1>8. CASE SigAnswer \/ SigClose
    <2>1. refused' = refused /\ id' = id
      BY <1>8 DEF SigAnswer, SigClose, mailbox
    <2> QED
      BY <1>1, <1>3, <1>4, <2>1 DEF OfferInv, Arriving, Accepted, Responded
  <1> QED
    BY <1>6, <1>7, <1>8

\* OfferInv holds initially and every step keeps it.
LEMMA InitOffers == Init => OfferInv
  <1> SUFFICES ASSUME Init PROVE OfferInv
    OBVIOUS
  <1>1. Range(offers) = {} /\ IsInjective(offers)
    BY NoElements DEF Init
  <1>2. Parked = {} /\ Len(inbox) = 0
    BY <1>1 DEF Init, Parked
  <1> QED
    BY <1>1, <1>2 DEF Init, OfferInv, Handing, Arriving, Accepted, Responded

LEMMA NextOffers == Types /\ OfferInv /\ [Next]_vars => OfferInv'
  <1> SUFFICES ASSUME Types, OfferInv, [Next]_vars PROVE OfferInv'
    OBVIOUS
  <1>1. CASE Browser
    BY <1>1, AskOffers, ReplyOffers DEF Browser
  <1>2. CASE PeerGathers \/ PeerGathering \/ PeerDescribes \/ PeerLooks \/ PeerMoves \/ PeerReads
    BY <1>2, OffersStay
       DEF PeerGathers, PeerGathering, PeerDescribes, PeerLooks, PeerMoves, PeerReads, Moves,
           signaling
  <1>3. CASE PeerNotifies \/ PeerClearsId
    BY <1>3, NotifyOffers, ClearOffers
  <1>4. CASE SigLook \/ SigTake \/ SigPublish
    BY <1>4, TakeOffers
  <1>5. CASE SigIdle \/ SigCreatesOffer
    BY <1>5, OffersStay DEF SigIdle, SigCreatesOffer, peer
  <1>6. CASE SigRefuses \/ SigSetsId \/ SigAnswer \/ SigClose
    BY <1>6, MessageOffers
  <1>7. CASE Network \/ UNCHANGED vars
    BY <1>7, OffersStay DEF Network, vars, peer, signaling
  <1> QED
    BY <1>1, <1>2, <1>3, <1>4, <1>5, <1>6, <1>7 DEF Next, Peer, Signal

\* Every request has its id in one place, wherever the two tasks are.
THEOREM OfferInvariant == Spec => []OfferInv
  BY InitTypes, NextTypes, InitOffers, NextOffers, PTL DEF Spec

\* A request gets one response: an offer or an error, and no two offers.
THEOREM OneResponseEach == Spec => []OneResponse
  <1>1. Types /\ OfferInv => OneResponse
    BY NoneIsNoId DEF OfferInv, Responded, Parked, OneResponse, Types
  <1> QED
    BY <1>1, TypesInvariant, OfferInvariant, PTL

-----------------------------------------------------------------------------
(* The mailbox is a queue                                                  *)

\* An element in front of a list, and nothing in front of one.
LEMMA InFront ==
    ASSUME NEW S, NEW x \in S, NEW s \in Seq(S)
    PROVE  /\ <<x>> \o s # <<>> /\ Head(<<x>> \o s) = x /\ Tail(<<x>> \o s) = s
           /\ <<>> \o s = s /\ s \o <<>> = s /\ s \o <<x>> = Append(s, x)
  <1>1. /\ <<x>> \o s # <<>> /\ Head(<<x>> \o s) = x
        /\ <<>> \o s = s /\ s \o <<>> = s /\ s \o <<x>> = Append(s, x)
    OBVIOUS
  <1>2. Tail(<<x>> \o s) = s
    <2> DEFINE t == Tail(<<x>> \o s)
    <2>1. t \in Seq(S) /\ Len(t) = Len(s) /\ \A i \in 1 .. Len(s) : t[i] = s[i]
      OBVIOUS
    <2> HIDE DEF t
    <2>2. t = s
      BY <2>1, SeqEqual
    <2> QED
      BY <2>2 DEF t
  <1> QED
    BY <1>1, <1>2

\* A step that leaves the mailbox, the hand and the published offers alone stutters.
LEMMA MailboxStays ==
    ASSUME UNCHANGED <<pending, payload, offers>>,
           sigPc' = sigPc \/ {sigPc, sigPc'} \cap {"take"} = {}
    PROVE  UNCHANGED Mailbox!vars
  BY DEF Mailbox!vars, Unsent

\* A payload is parked behind what the signaling task holds.
LEMMA NotifyPuts ==
    ASSUME Types, Handing, PeerNotifies
    PROVE  Mailbox!Next \/ UNCHANGED Mailbox!vars
  <1>1. /\ UNCHANGED <<payload, offers, sigPc>>
        /\ pending' = pending \/ (pending = NONE /\ id # NONE /\ pending' = id)
    BY DEF PeerNotifies, Park, signaling
  <1>2. CASE pending' = pending
    BY <1>1, <1>2, MailboxStays
  <1>3. CASE pending = NONE /\ id # NONE /\ pending' = id
    <2>1. id \in Id /\ sigPc # "take"
      BY <1>3 DEF Handing, Types, TypeOK
    <2> DEFINE inHand == IF payload = NONE THEN <<>> ELSE <<<<payload>>>>
               parked == <<id>>
    <2>2. Unsent = inHand \o <<>> /\ Unsent' = inHand \o <<parked>>
      BY <1>1, <1>3, <2>1 DEF Unsent
    <2>3. inHand \o <<>> = inHand /\ inHand \o <<parked>> = Append(inHand, parked)
      OBVIOUS
    <2>4. parked \in {<<r>> : r \in Id}
      BY <2>1
    <2> HIDE DEF inHand, parked
    <2>5. Mailbox!Put(parked)
      BY <1>1, <2>2, <2>3 DEF Mailbox!Put
    <2> QED
      BY <2>4, <2>5 DEF Mailbox!Next
  <1> QED
    BY <1>1, <1>2, <1>3

\* What is published is what was parked first.
LEMMA PublishTakes ==
    ASSUME Types, SigPublish
    PROVE  Mailbox!Next
  <1>1. /\ payload \in Id /\ payload # NONE /\ payload' = NONE /\ pending' = pending
        /\ sigPc = "publish" /\ sigPc' = "process"
        /\ offers \in Seq(Id) /\ offers' = Append(offers, payload)
    BY DEF SigPublish, mailbox, Types, TypeOK
  <1> DEFINE inMailbox == IF pending = NONE THEN <<>> ELSE <<<<pending>>>>
             held == <<payload>>
  <1>2. Unsent = <<held>> \o inMailbox /\ Unsent' = <<>> \o inMailbox
    BY <1>1 DEF Unsent
  <1>3. /\ <<held>> \o inMailbox # <<>> /\ Head(<<held>> \o inMailbox) = held
        /\ Tail(<<held>> \o inMailbox) = inMailbox /\ <<>> \o inMailbox = inMailbox
    <2> DEFINE S == {held, <<pending>>}
    <2>1. <<>> \in Seq(S) /\ <<<<pending>>>> \in Seq(S) /\ held \in S
      OBVIOUS
    <2>2. inMailbox \in Seq(S)
      BY <2>1, Zenon
    <2> HIDE DEF inMailbox, held, S
    <2> QED
      BY <2>1, <2>2, InFront
  <1>4. offers' # <<>> /\ Last(offers') = payload
    BY <1>1 DEF Last
  <1> HIDE DEF inMailbox
  <1>5. Mailbox!Take
    BY <1>2, <1>3, <1>4 DEF Mailbox!Take
  <1> QED
    BY <1>5 DEF Mailbox!Next

\* pending_payload hands offers from task to task as a queue does, for every interleaving of
\* the test and the store with the read and the clearing.
THEOREM MailboxKeepsQueue == Spec => MailboxIsQueue
  <1>1. Init => Mailbox!Init
    BY DEF Init, Mailbox!Init, Unsent
  <1>2. Types /\ OfferInv /\ [Next]_vars => [Mailbox!Next]_(Mailbox!vars)
    <2> SUFFICES ASSUME Types, OfferInv, [Next]_vars
                 PROVE  Mailbox!Next \/ UNCHANGED Mailbox!vars
      OBVIOUS
    <2>1. CASE SigLook
      <3>1. /\ payload = NONE /\ payload' = pending /\ UNCHANGED <<pending, offers>>
            /\ sigPc = "loop" /\ sigPc' = IF pending = NONE THEN "process" ELSE "take"
        BY <2>1 DEF SigLook, mailbox, Types, TypeOK
      <3>2. /\ pending = NONE => Unsent = <<>> \o <<>> /\ Unsent' = <<>> \o <<>>
            /\ pending # NONE => Unsent = <<>> \o <<<<pending>>>> /\ Unsent' = <<<<pending>>>> \o <<>>
        BY <3>1 DEF Unsent
      <3>3. Unsent' = Unsent
        BY <3>2
      <3> QED
        BY <3>1, <3>3 DEF Mailbox!vars
    <2>2. CASE SigTake
      <3>1. /\ pending' = NONE /\ UNCHANGED <<payload, offers>>
            /\ sigPc = "take" /\ sigPc' = "publish"
        BY <2>2 DEF SigTake
      <3>2. Unsent' = Unsent
        BY <3>1 DEF Unsent
      <3> QED
        BY <3>1, <3>2 DEF Mailbox!vars
    <2>3. CASE SigPublish
      BY <2>3, PublishTakes
    <2>4. CASE PeerNotifies
      BY <2>4, NotifyPuts DEF OfferInv
    <2>5. CASE Browser \/ Network \/ UNCHANGED vars
      BY <2>5, MailboxStays
         DEF Browser, BrowserAsks, BrowserReplies, Network, vars, mailbox, signaling
    <2>6. CASE PeerGathers \/ PeerGathering \/ PeerDescribes \/ PeerClearsId \/ PeerLooks
                  \/ PeerMoves \/ PeerReads
      BY <2>6, MailboxStays
         DEF PeerGathers, PeerGathering, PeerDescribes, PeerClearsId, PeerLooks, PeerMoves,
             PeerReads, mailbox, signaling
    <2>7. CASE SigIdle \/ SigRefuses \/ SigSetsId \/ SigCreatesOffer \/ SigAnswer \/ SigClose
      <3>1. UNCHANGED <<pending, payload, offers>> /\ sigPc # "take" /\ sigPc' # "take"
        BY <2>7 DEF SigIdle, SigRefuses, SigSetsId, SigCreatesOffer, SigAnswer, SigClose,
                    Incoming, mailbox
      <3> QED
        BY <3>1, MailboxStays
    <2> QED
      BY <2>1, <2>2, <2>3, <2>4, <2>5, <2>6, <2>7 DEF Next, Peer, Signal
  <1> QED
    BY <1>1, <1>2, InitTypes, NextTypes, OfferInvariant, PTL DEF Spec, MailboxIsQueue, Mailbox!Spec
=============================================================================
