-------------------------------- MODULE Netif --------------------------------
(***************************************************************************)
(* main/hal/hal_netif.c in its Wi-Fi build: the handlers of the default    *)
(* event loop and the event group app_main() waits on.  The Wi-Fi driver   *)
(* and the access point are external: an association can fail, be made and *)
(* be lost at any time, each association may bring an address, and         *)
(* esp_wifi_connect() may return an error, after which no event comes.     *)
(***************************************************************************)
EXTENDS Integers, Sequences

CONSTANT WIFI_MAX_RETRY

ASSUME NetifAssumption == WIFI_MAX_RETRY \in Nat

VARIABLES
    station,       \* driver: "off", "idle", "connecting", "associated", "online"
    events,        \* the events posted and not yet handled, oldest first
    s_retry_num,   \* as in the code
    got_ip,        \* GOT_IP_BIT; nothing ever clears it
    refused        \* history: the last esp_wifi_connect() returned an error

netif == <<station, events, s_retry_num, got_ip, refused>>

NetifInit ==
    /\ station = "off"
    /\ events = <<>>
    /\ s_retry_num = 0
    /\ got_ip = FALSE /\ refused = FALSE

\* netif_start(): esp_wifi_start() posts WIFI_EVENT_STA_START.
NetifStart ==
    /\ station = "off"
    /\ station' = "idle"
    /\ events' = Append(events, "start")
    /\ UNCHANGED <<s_retry_num, got_ip, refused>>

-----------------------------------------------------------------------------
(* The driver                                                              *)

Associate ==
    /\ station = "connecting"
    /\ station' = "associated"
    /\ UNCHANGED <<events, s_retry_num, got_ip, refused>>

\* No access point, a wrong password, a lost beacon: one event for all of them.
Disconnect ==
    /\ station \in {"connecting", "associated", "online"}
    /\ station' = "idle"
    /\ events' = Append(events, "disconnected")
    /\ UNCHANGED <<s_retry_num, got_ip, refused>>

Lease ==
    /\ station = "associated"
    /\ station' = "online"
    /\ events' = Append(events, "got_ip")
    /\ UNCHANGED <<s_retry_num, got_ip, refused>>

Driver == Associate \/ Disconnect \/ Lease

-----------------------------------------------------------------------------
(* The event task                                                          *)

Handles(event) == events # <<>> /\ Head(events) = event /\ events' = Tail(events)

\* esp_wifi_connect(); neither handler looks at its result.
Connect ==
    \/ station' = "connecting" /\ refused' = FALSE
    \/ UNCHANGED station /\ refused' = TRUE

OnStart ==
    /\ Handles("start")
    /\ Connect
    /\ UNCHANGED <<s_retry_num, got_ip>>

\* Mutant: a station that has had an address is not reconnected.
OnDisconnected_OnlyBeforeIp ==
    /\ Handles("disconnected")
    /\ IF s_retry_num < WIFI_MAX_RETRY /\ ~got_ip
       THEN s_retry_num' = s_retry_num + 1 /\ Connect
       ELSE UNCHANGED <<s_retry_num, station, refused>>
    /\ UNCHANGED got_ip

OnDisconnected ==
    /\ Handles("disconnected")
    /\ IF s_retry_num < WIFI_MAX_RETRY
       THEN s_retry_num' = s_retry_num + 1 /\ Connect
       ELSE UNCHANGED <<s_retry_num, station, refused>>
    /\ UNCHANGED got_ip

OnGotIp ==
    /\ Handles("got_ip")
    /\ got_ip' = TRUE
    /\ UNCHANGED <<station, s_retry_num, refused>>

EventTask == OnStart \/ OnDisconnected \/ OnGotIp

-----------------------------------------------------------------------------
NetifTypeOK ==
    /\ station \in {"off", "idle", "connecting", "associated", "online"}
    /\ events \in Seq({"start", "disconnected", "got_ip"})
    /\ s_retry_num \in 0 .. WIFI_MAX_RETRY
    /\ got_ip \in BOOLEAN /\ refused \in BOOLEAN

Pending(event) == \E i \in DOMAIN events : events[i] = event

\* However events queue up, a station is left alone for two reasons only: its retries are
\* used up, or an esp_wifi_connect() whose result nobody looks at has failed.  Otherwise an
\* idle station has the event on its way that connects it.
KeepsTrying ==
    station = "idle" =>
        \/ Pending("start") \/ Pending("disconnected")
        \/ s_retry_num = WIFI_MAX_RETRY \/ refused
=============================================================================
