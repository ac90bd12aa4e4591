----------------------------- MODULE Signaling ------------------------------
(***************************************************************************)
(* From a browser's request to the offer it gets: the signaling task       *)
(* (task_webrtc, peer_signaling_loop(), peer_signaling_on_pub_event()) and *)
(* the peer task (peer_connection_loop(), peer_connection_state_new(),     *)
(* peer_signaling_onicecandidate()), which share g_ps.id, pending_payload  *)
(* and the connection's state without a lock.  Gather is part of the peer  *)
(* task.                                                                   *)
(*                                                                         *)
(* Both tasks run on core 0 and the peer task has the higher priority: its *)
(* code between two calls that can block (the network, a sleep, a log line *)
(* while core 1 is printing one) is one step, and it can come between any  *)
(* two steps of the signaling task.  An offer is the id of its request.    *)
(***************************************************************************)
EXTENDS Gather, FiniteSets

CONSTANTS
    Requests,      \* how many offers browsers ask for: ids 1 .. Requests
    InboxLen,      \* MQTT messages on their way to the device
    OutOfMemory    \* cJSON_PrintUnformatted() may return NULL

ASSUME RequestsAssumption == Requests \in Nat \ {0}
ASSUME InboxAssumption == InboxLen \in Nat \ {0}
ASSUME MemoryAssumption == OutOfMemory \in BOOLEAN

Id == 1 .. Requests
NONE == 0

States == {"CLOSED", "NEW", "CHECKING", "CONNECTED", "COMPLETED", "FAILED"}
Message == [method : {"offer", "answer", "close"}, id : Id \cup {NONE}]

VARIABLES
    state,         \* the connection's state
    described,     \* b_local_description_created
    id,            \* g_ps.id
    pending,       \* pending_payload, NONE for NULL
    peerPc,        \* peer_connection_loop()
    sigPc,         \* peer_signaling_loop()
    payload,       \* its `payload`
    inbox,         \* messages of the browsers, in order
    offers,        \* offers published, in order
    refused,       \* requests answered with an error
    asked,         \* browsers: how many requests have been sent
    latest         \* history: the request accepted last

connection == <<state, described>>
mailbox == <<id, pending>>
browsers == <<inbox, asked>>
peer == <<gather, peerPc>>
signaling == <<sigPc, payload, offers, refused, latest>>
vars == <<connection, mailbox, browsers, peer, signaling>>

Init ==
    /\ GatherInit
    /\ state = "CLOSED" /\ described = FALSE
    /\ id = NONE /\ pending = NONE
    /\ peerPc = "loop"
    /\ sigPc = "loop" /\ payload = NONE
    /\ inbox = <<>> /\ asked = 0
    /\ offers = <<>> /\ refused = {} /\ latest = NONE

-----------------------------------------------------------------------------
(* Browsers: tests/peer-probe is one.                                      *)

Publish(message) == Len(inbox) < InboxLen /\ inbox' = Append(inbox, message)

BrowserAsks ==
    /\ asked < Requests
    /\ asked' = asked + 1
    /\ Publish([method |-> "offer", id |-> asked'])
    /\ UNCHANGED <<connection, mailbox, peer, signaling>>

\* One with an offer answers it, or leaves; the device does not look at the id.
BrowserReplies ==
    /\ offers # <<>>
    /\ \E method \in {"answer", "close"} : Publish([method |-> method, id |-> NONE])
    /\ UNCHANGED <<connection, mailbox, asked, peer, signaling>>

Browser == BrowserAsks \/ BrowserReplies

-----------------------------------------------------------------------------
(* The peer task                                                           *)

PeerGathers ==
    /\ peerPc = "loop" /\ state = "NEW" /\ ~described
    /\ peerPc' = "gather"
    /\ GatherStart
    /\ UNCHANGED <<connection, mailbox, browsers, signaling>>

PeerGathering ==
    /\ peerPc = "gather" /\ Gathering
    /\ UNCHANGED <<connection, mailbox, browsers, peerPc, signaling>>

\* The SDP is written; the log line after it can let the signaling task in.
PeerDescribes ==
    /\ peerPc = "gather" /\ gatherPc = "idle"
    /\ described' = TRUE
    /\ peerPc' = "notify"
    /\ UNCHANGED <<state, mailbox, browsers, gather, signaling>>

\* Mutant: the payload is parked without a look at pending_payload.
Park_Over(offer) == pending' = offer

\* A payload that is still unsent stays, and the new one is dropped.
Park(offer) == pending' = IF pending = NONE THEN offer ELSE pending

\* peer_signaling_onicecandidate(), up to the log line behind the payload.
PeerNotifies ==
    /\ peerPc = "notify"
    /\ IF id # NONE
       THEN /\ Park(id) \/ (OutOfMemory /\ UNCHANGED pending)
            /\ peerPc' = "clear"
       ELSE peerPc' = "loop" /\ UNCHANGED pending      \* peer_signaling_http_post()
    /\ UNCHANGED <<connection, id, browsers, gather, signaling>>

PeerClearsId ==
    /\ peerPc = "clear"
    /\ id' = NONE
    /\ peerPc' = "loop"
    /\ UNCHANGED <<connection, pending, browsers, gather, signaling>>

Moves ==
    [CHECKING |-> {"CONNECTED", "FAILED"},
     CONNECTED |-> {"COMPLETED"},
     COMPLETED |-> {"CLOSED"}]

\* The state is read, and what it calls for can block: a connectivity check, the DTLS
\* handshake, agent_recv().
PeerLooks ==
    /\ peerPc = "loop" /\ state \in DOMAIN Moves
    /\ peerPc' = state
    /\ UNCHANGED <<connection, mailbox, browsers, gather, signaling>>

\* agent_recv() and the connectivity checks read what lies in the socket.
PeerReads ==
    /\ peerPc \in DOMAIN Moves
    /\ socket # <<>> /\ socket' = Tail(socket)
    /\ UNCHANGED <<now, waitVars, inflight, histVars, peerPc, connection, mailbox, browsers,
                   signaling>>

\* A candidate pair is found or there is none, DTLS is through, the peer is gone: the new
\* state is stored over whatever the signaling task has made of the old one meanwhile.
PeerMoves ==
    /\ peerPc \in DOMAIN Moves
    /\ state' \in Moves[peerPc] \cup {state}
    /\ peerPc' = "loop"
    /\ UNCHANGED <<described, mailbox, browsers, gather, signaling>>

Peer ==
    \/ PeerGathers \/ PeerGathering \/ PeerDescribes \/ PeerNotifies \/ PeerClearsId
    \/ PeerLooks \/ PeerReads \/ PeerMoves

-----------------------------------------------------------------------------
(* The signaling task                                                      *)

\* Mutant: a NULL payload is taken as well.
SigLook_NoTest ==
    /\ sigPc = "loop"
    /\ payload' = pending
    /\ sigPc' = "take"
    /\ UNCHANGED <<connection, mailbox, browsers, peer, offers, refused, latest>>

SigLook ==
    /\ sigPc = "loop"
    /\ payload' = pending
    /\ sigPc' = IF pending = NONE THEN "process" ELSE "take"
    /\ UNCHANGED <<connection, mailbox, browsers, peer, offers, refused, latest>>

\* Mutant: pending_payload is left as it is.
SigTake_NotCleared ==
    /\ sigPc = "take"
    /\ sigPc' = "publish"
    /\ UNCHANGED <<connection, mailbox, browsers, peer, payload, offers, refused, latest>>

SigTake ==
    /\ sigPc = "take"
    /\ pending' = NONE
    /\ sigPc' = "publish"
    /\ UNCHANGED <<connection, id, browsers, peer, payload, offers, refused, latest>>

SigPublish ==
    /\ sigPc = "publish"
    /\ offers' = Append(offers, payload) /\ payload' = NONE
    /\ sigPc' = "process"
    /\ UNCHANGED <<connection, mailbox, browsers, peer, refused, latest>>

\* MQTT_ProcessLoop() returns without a message.
SigIdle ==
    /\ sigPc = "process"
    /\ sigPc' = "loop"
    /\ UNCHANGED <<connection, mailbox, browsers, peer, payload, offers, refused, latest>>

Incoming(method) ==
    /\ sigPc = "process" /\ inbox # <<>> /\ Head(inbox).method = method
    /\ inbox' = Tail(inbox) /\ UNCHANGED asked

\* The state is looked at once; a request in the middle of a connection is an error.
SigRefuses ==
    /\ Incoming("offer")
    /\ state \in {"CHECKING", "CONNECTED", "COMPLETED"}
    /\ refused' = refused \cup {Head(inbox).id}
    /\ sigPc' = "loop"
    /\ UNCHANGED <<connection, mailbox, peer, payload, offers, latest>>

SigSetsId ==
    /\ Incoming("offer")
    /\ state \notin {"CHECKING", "CONNECTED", "COMPLETED"}
    /\ id' = Head(inbox).id /\ latest' = Head(inbox).id
    /\ sigPc' = "create"
    /\ UNCHANGED <<connection, pending, peer, payload, offers, refused>>

\* peer_connection_create_offer()
SigCreatesOffer ==
    /\ sigPc = "create"
    /\ state' = "NEW" /\ described' = FALSE
    /\ sigPc' = "loop"
    /\ UNCHANGED <<mailbox, browsers, peer, payload, offers, refused, latest>>

\* peer_connection_set_remote_description(), only in NEW.
SigAnswer ==
    /\ Incoming("answer")
    /\ state' = IF state = "NEW" THEN "CHECKING" ELSE state
    /\ sigPc' = "loop"
    /\ UNCHANGED <<described, mailbox, peer, payload, offers, refused, latest>>

\* peer_connection_close()
SigClose ==
    /\ Incoming("close")
    /\ state' = "CLOSED"
    /\ sigPc' = "loop"
    /\ UNCHANGED <<described, mailbox, peer, payload, offers, refused, latest>>

Signal ==
    \/ SigLook \/ SigTake \/ SigPublish \/ SigIdle
    \/ SigRefuses \/ SigSetsId \/ SigCreatesOffer \/ SigAnswer \/ SigClose

-----------------------------------------------------------------------------
Network == Internet /\ UNCHANGED <<connection, mailbox, browsers, peerPc, signaling>>

Next == Browser \/ Peer \/ Signal \/ Network

\* A sleep of the wait in which the clock moves.
PeerSleeps ==
    /\ peerPc = "gather" /\ Wake /\ now' # now
    /\ UNCHANGED <<connection, mailbox, browsers, peerPc, signaling>>

\* The peer task has core 0 whenever it does not block, and no call of it blocks for
\* ever; the signaling task comes round every 10 ms; the clock does not stand still for
\* ever while the peer task sleeps again and again.
Fairness == WF_vars(Peer) /\ WF_vars(Signal) /\ SF_vars(PeerSleeps)

Spec == Init /\ [][Next]_vars /\ Fairness

-----------------------------------------------------------------------------
(* Properties                                                              *)

\* The variables stay in their types; the two tasks are where their locals say.
TypeOK ==
    /\ GatherTypeOK
    /\ state \in States /\ described \in BOOLEAN
    /\ id \in Id \cup {NONE} /\ pending \in Id \cup {NONE}
    /\ peerPc \in {"loop", "gather", "notify", "clear"} \cup DOMAIN Moves
    /\ gatherPc # "idle" => peerPc = "gather"
    /\ sigPc \in {"loop", "take", "publish", "process", "create"}
    /\ payload \in Id \cup {NONE}
    /\ payload # NONE <=> sigPc \in {"take", "publish"}
    /\ inbox \in Seq(Message) /\ Len(inbox) <= InboxLen
    /\ offers \in Seq(Id) /\ refused \subseteq Id
    /\ asked \in 0 .. Requests /\ latest \in Id \cup {NONE}

\* What is parked and not yet published: while the task has read the mailbox and not yet
\* cleared it, both hold the same offer.
Unsent ==
    LET inMailbox == IF pending = NONE \/ sigPc = "take" THEN <<>> ELSE <<<<pending>>>>
        inHand == IF payload = NONE THEN <<>> ELSE <<<<payload>>>>
    IN  inHand \o inMailbox

Mailbox == INSTANCE FrameQueue WITH
    Frame <- {<<r>> : r \in Id},
    queue <- Unsent,
    out <- IF offers = <<>> THEN <<>> ELSE <<Last(offers)>>

\* pending_payload hands offers from the peer task to the signaling task (libpeer patch:75)
\* as a queue does: none that was parked is overwritten, lost or published twice.
MailboxIsQueue == Mailbox!Spec

\* A request gets one response: an offer or an error, and no two offers.
OneResponse == IsInjective(offers) /\ Range(offers) \cap refused = {}

\* A request that was accepted leads to a description, in spite of servers that do not
\* answer: the wait for them ends, unless its clock passes 2^32.
OfferIsMade ==
    (state = "NEW" /\ ~described) ~> (described \/ state # "NEW" \/ ClockWrapped)

\* tests/peer-probe/getsdp.js:10 waits for the response with the id of its request: the
\* request accepted last gets its offer, as long as the connection stays in NEW.
LatestAnswered ==
    \A r \in Id : latest = r ~> (r \in Range(offers) \/ latest # r \/ state # "NEW")
=============================================================================
