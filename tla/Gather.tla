------------------------------- MODULE Gather -------------------------------
(***************************************************************************)
(* Gathering ICE candidates: agent_gather_candidate() asks each configured *)
(* STUN or TURN server in turn over one UDP socket, and                    *)
(* agent_socket_recv_stun() waits for each answer (libpeer, with this      *)
(* repository's patch).                                                    *)
(*                                                                         *)
(* A datagram is its class and method, which is all the wait looks at, and *)
(* whether it answers the request this wait is about, which nothing in the *)
(* code can tell: every transaction id is the same.  The network loses,    *)
(* delays and reorders; the socket is opened once, so an answer that comes *)
(* too late lies in it for a later wait.  Time is the millisecond clock of *)
(* ports_get_epoch_time() in its uint32_t, here modulo Clock; only the     *)
(* sleep between two reads is long enough to count, and not every one is.  *)
(***************************************************************************)
EXTENDS Integers, Sequences, SequencesExt

CONSTANTS
    Servers,       \* the configured URLs in their order, each "stun" or "turn"
    Timeout,       \* AGENT_STUN_RECV_TIMEOUT_MS
    MaxSleep,      \* the longest AGENT_POLL_TIMEOUT becomes, in ticks of the clock
    Clock,         \* 2^32
    SocketLen      \* the datagrams lwIP keeps for a socket

ASSUME ServersAssumption == Servers \in Seq({"stun", "turn"})
ASSUME TimeAssumption ==
    /\ Timeout \in Nat \ {0} /\ MaxSleep \in Nat \ {0}
    /\ Clock \in Nat /\ Clock > Timeout + MaxSleep
ASSUME SocketAssumption == SocketLen \in Nat \ {0}

\* STUN_CLASS_RESPONSE/BINDING, STUN_CLASS_ERROR/ALLOCATE, STUN_CLASS_RESPONSE/ALLOCATE
Reply == {"bound", "unauthorized", "allocated"}

\* own is history: it answers the request the wait in progress has sent.
Datagram == [kind : Reply, own : BOOLEAN]

\* The answer the first request to a server is for.
Asks == [stun |-> "bound", turn |-> "unauthorized"]

VARIABLES
    now,           \* ports_get_epoch_time()
    deadline,      \* agent_socket_recv_stun()'s
    since,         \* history: when this wait began
    gatherPc,      \* "idle", "server", "poll", "sleep", "expired"
    server,        \* the URL that is being asked
    expect,        \* expect_class and expect_method
    candidates,    \* reflexive and relayed candidates of this gathering
    inflight,      \* answers on their way
    socket,        \* answers received and not yet read
    owed,          \* history: the own answer came in time and has not been read
    leftover       \* history: an answer of its kind was about before the request

waitVars == <<deadline, since, gatherPc, server, expect, candidates>>
netVars == <<inflight, socket>>
histVars == <<owed, leftover>>
gather == <<now, waitVars, netVars, histVars>>

GatherInit ==
    /\ now \in 0 .. Clock - 1
    /\ deadline = 0 /\ since = 0
    /\ gatherPc = "idle" /\ server = 1 /\ expect = "bound"
    /\ candidates = {}
    /\ inflight = {} /\ socket = <<>> /\ owed = FALSE /\ leftover = FALSE

Waiting == gatherPc \in {"poll", "sleep"}

-----------------------------------------------------------------------------
(* The network and the servers                                             *)

\* An answer is in time when a read of the socket still follows it.
InTime ==
    \/ gatherPc = "poll" /\ now < deadline
    \/ gatherPc = "sleep" /\ now + MaxSleep < deadline

Arrive(d) ==
    /\ d \in inflight /\ Len(socket) < SocketLen
    /\ inflight' = inflight \ {d}
    /\ socket' = Append(socket, d)
    /\ owed' = (owed \/ (d.own /\ InTime))
    /\ UNCHANGED <<now, waitVars, leftover>>

Lose(d) ==
    /\ d \in inflight
    /\ inflight' = inflight \ {d}
    /\ UNCHANGED <<now, waitVars, socket, histVars>>

Internet == \E d \in Datagram : Arrive(d) \/ Lose(d)

-----------------------------------------------------------------------------
(* agent_gather_candidate(), called for the host addresses and each URL    *)

GatherStart ==
    /\ gatherPc' = "server"
    /\ candidates' = {}
    /\ UNCHANGED <<now, deadline, since, server, expect, netVars, histVars>>

GatherEnd ==
    /\ gatherPc = "server" /\ server > Len(Servers)
    /\ gatherPc' = "idle" /\ server' = 1
    /\ owed' = FALSE /\ leftover' = FALSE
    /\ UNCHANGED <<now, deadline, since, expect, candidates, netVars>>

\* The name does not resolve, or the request cannot be sent.
SkipServer ==
    /\ gatherPc = "server" /\ server <= Len(Servers)
    /\ server' = server + 1
    /\ UNCHANGED <<now, deadline, since, gatherPc, expect, candidates, netVars, histVars>>

\* A datagram once the wait it may have been for is over.
Old(d) == [d EXCEPT !.own = FALSE]
OldIn(S) == {Old(d) : d \in S}
OldOf(s) == [i \in DOMAIN s |-> Old(s[i])]

\* agent_socket_send() of a request, and the deadline for its answer; `unread` is what the
\* socket holds by then.
Request(reply, unread) ==
    /\ inflight' = OldIn(inflight) \cup {[kind |-> reply, own |-> TRUE]}
    /\ socket' = OldOf(unread)
    /\ leftover' = (\E d \in inflight \cup Range(unread) : d.kind = reply)
    /\ owed' = FALSE
    /\ expect' = reply
    /\ since' = now /\ deadline' = (now + Timeout) % Clock
    /\ gatherPc' = "poll"

AskServer ==
    /\ gatherPc = "server" /\ server <= Len(Servers)
    /\ Request(Asks[Servers[server]], socket)
    /\ UNCHANGED <<now, server, candidates>>

-----------------------------------------------------------------------------
(* agent_socket_recv_stun()                                                *)

\* It returns, and its locals are gone.
NextServer(unread) ==
    /\ gatherPc' = "server" /\ server' = server + 1
    /\ deadline' = 0 /\ since' = 0 /\ expect' = "bound"
    /\ inflight' = OldIn(inflight) /\ socket' = OldOf(unread)

\* Mutant: the loop stops when it would not be back from the next sleep in time.
TimeLeft_Rounded(t) == t + MaxSleep < deadline

TimeLeft(t) == t < deadline

KeepWaiting(t) == IF TimeLeft(t) THEN "poll" ELSE "expired"

\* An answer of the right kind: a candidate, or for TURN the second request, with the
\* server's nonce.  It may be an old one; then the own answer stays for a later wait.
RecvExpected ==
    /\ gatherPc = "poll" /\ socket # <<>> /\ Head(socket).kind = expect
    /\ \/ /\ expect = "unauthorized"
          /\ Request("allocated", Tail(socket))
          /\ UNCHANGED <<server, candidates>>
       \/ /\ \/ expect = "unauthorized" /\ UNCHANGED candidates  \* agent_socket_send() fails
             \/ expect # "unauthorized" /\ candidates' = candidates \cup {server}
          /\ NextServer(Tail(socket))
          /\ owed' = (owed /\ ~Head(socket).own)
          /\ UNCHANGED leftover
    /\ UNCHANGED now

\* Mutant: the first datagram is taken for the answer, as before the patch (patch:36).
RecvOther_GivesUp ==
    /\ gatherPc = "poll" /\ socket # <<>> /\ Head(socket).kind # expect
    /\ socket' = Tail(socket)
    /\ gatherPc' = "expired"
    /\ UNCHANGED <<now, deadline, since, server, expect, candidates, inflight, histVars>>

\* Anything else is dropped; `continue` goes to the loop's condition, without a sleep.
RecvOther ==
    /\ gatherPc = "poll" /\ socket # <<>> /\ Head(socket).kind # expect
    /\ socket' = Tail(socket)
    /\ gatherPc' = KeepWaiting(now)
    /\ UNCHANGED <<now, deadline, since, server, expect, candidates, inflight, histVars>>

\* The socket reports an error: this server is given up at once.
RecvFails ==
    /\ gatherPc = "poll"
    /\ NextServer(socket)
    /\ owed' = FALSE
    /\ UNCHANGED <<now, candidates, leftover>>

RecvNothing ==
    /\ gatherPc = "poll" /\ socket = <<>>
    /\ gatherPc' = "sleep"
    /\ UNCHANGED <<now, deadline, since, server, expect, candidates, netVars, histVars>>

\* Mutant: the interval is always less than a tick, every sleep returns at once.
Slept_SubTick == {0}

\* The tick may be longer than the interval: a sleep can return before the clock has moved.
Slept == 0 .. MaxSleep

\* ports_sleep_ms(AGENT_POLL_TIMEOUT) returns, and the loop's condition.
Wake ==
    /\ gatherPc = "sleep"
    /\ \E ms \in Slept :
          /\ now' = (now + ms) % Clock
          /\ gatherPc' = KeepWaiting(now')
    /\ UNCHANGED <<deadline, since, server, expect, candidates, netVars, histVars>>

\* "Failed to receive ...": no candidate from this server.
GiveUp ==
    /\ gatherPc = "expired"
    /\ NextServer(socket)
    /\ UNCHANGED <<now, candidates, histVars>>

Gathering ==
    \/ GatherEnd \/ SkipServer \/ AskServer
    \/ RecvExpected \/ RecvOther \/ RecvFails \/ RecvNothing \/ Wake \/ GiveUp

-----------------------------------------------------------------------------
(* Properties                                                              *)

GatherTypeOK ==
    /\ now \in 0 .. Clock - 1 /\ deadline \in 0 .. Clock - 1 /\ since \in 0 .. Clock - 1
    /\ gatherPc \in {"idle", "server", "poll", "sleep", "expired"}
    /\ server \in 1 .. Len(Servers) + 1
    /\ expect \in Reply
    /\ candidates \subseteq 1 .. Len(Servers)
    /\ inflight \subseteq Datagram
    /\ socket \in Seq(Datagram) /\ Len(socket) <= SocketLen
    /\ owed \in BOOLEAN /\ leftover \in BOOLEAN

\* A wait whose answer comes in time does not fail, whatever lies in front of the answer in
\* the socket ("the first datagram to arrive is not necessarily the answer to the request
\* just sent", libpeer patch:36).  It ends with that answer; an older one of the same kind
\* can take its place only if it was in the socket or on its way before the request.
AnswerTaken == owed => gatherPc # "expired" /\ (Waiting \/ leftover)

\* The clock passed 2^32 within this wait, or its deadline did.
ClockWrapped == deadline < since \/ now < since

\* The wait is a second and not a number of passes ("The budget was a spin count", libpeer
\* patch:27): it goes on before the deadline, and ends no later than the sleep that
\* passes it.
WaitIsTimed ==
    ~ClockWrapped =>
        /\ Waiting => now - since < Timeout
        /\ gatherPc = "expired" => now - since \in Timeout .. Timeout + MaxSleep - 1
=============================================================================
