---------------------------- MODULE Connectivity ----------------------------
(***************************************************************************)
(* Who writes s_wifi_connected, s_mqtt_connected and s_led_mode: the       *)
(* handler of Wi-Fi and IP events, run by the system event task, and the   *)
(* handler of MQTT events, run by the esp-mqtt task.  The two tasks share  *)
(* the three variables without a lock and may run on different cores: each *)
(* read and each write of one of them is a step.                           *)
(***************************************************************************)
EXTENDS Integers, Sequences

CONSTANTS
  Nets,         \* WIFI_NETS_COUNT
  MaxRetry,     \* MAX_RETRY_PER_AP
  Reachable,    \* the networks in range
  TcpSurvives   \* whether a TCP connection may outlive a loss of the Wi-Fi link

ASSUME NetsAssumption == Nets \in Nat \ {0} /\ MaxRetry \in Nat \ {0}
ASSUME ReachableAssumption == Reachable \subseteq 0..(Nets - 1) /\ TcpSurvives \in BOOLEAN

VARIABLES
  radio,    \* the station: started, associating, or up with an address
  events,   \* events posted to the default event loop, oldest first
  tcp,      \* whether the connection under the MQTT session still works
  client,   \* client->state of esp-mqtt
  wifiPc,   \* where wifi_event_handler is
  mqttPc,   \* where mqtt_event_handler_cb is
  wifi,     \* s_wifi_connected
  mqtt,     \* s_mqtt_connected
  led,      \* s_led_mode
  index,    \* s_current_wifi_index
  applied,  \* the network the driver is configured for
  retry,    \* s_retry_count
  refused   \* history: esp_wifi_connect has returned an error, which nobody looks at

linkVars == <<radio, events, refused>>
clientVars == <<tcp, client, mqttPc>>
apVars == <<index, applied, retry>>
vars == <<radio, events, tcp, client, wifiPc, mqttPc, wifi, mqtt, led, index, applied, retry, refused>>

(* app_main: the LED, then the first network applied and the station started.  *)
Init ==
  /\ radio = "idle" /\ events = <<"STA_START">>
  /\ tcp = FALSE /\ client = "DOWN"
  /\ wifiPc = "loop" /\ mqttPc = "loop"
  /\ wifi = FALSE /\ mqtt = FALSE /\ led = "WIFI_CONNECTING"
  /\ index = 0 /\ applied = 0 /\ retry = 0 /\ refused = FALSE

-----------------------------------------------------------------------------
(* The Wi-Fi driver (external): esp_wifi_connect ends in an address or in a    *)
(* disconnection, and a station that is up may lose its access point.          *)

StationUp ==
  /\ radio = "connecting"
  /\ applied \in Reachable
  /\ radio' = "up"
  /\ events' = Append(events, "GOT_IP")
  /\ UNCHANGED <<refused, clientVars, wifiPc, wifi, mqtt, led, apVars>>

StationDown ==
  /\ radio \in {"connecting", "up"}
  /\ radio' = "idle"
  /\ events' = Append(events, "STA_DISCONNECTED")
  /\ tcp' = (tcp /\ TcpSurvives)
  /\ UNCHANGED <<refused, client, mqttPc, wifiPc, wifi, mqtt, led, apVars>>

-----------------------------------------------------------------------------
(* The esp-mqtt client (external), as far as it decides which events it        *)
(* dispatches; it takes no event while one is being handled.                   *)

ClientConnects ==
  /\ client = "DOWN" /\ mqttPc = "loop"
  /\ radio = "up"
  /\ client' = "CONNECTED" /\ tcp' = TRUE
  /\ mqttPc' = "connected: flag"
  /\ UNCHANGED <<linkVars, wifiPc, wifi, mqtt, led, apVars>>

ClientConnectFails ==
  /\ client = "DOWN" /\ mqttPc = "loop"
  /\ mqttPc' = "disconnected: flag"
  /\ UNCHANGED <<linkVars, tcp, client, wifiPc, wifi, mqtt, led, apVars>>

ClientLosesConnection ==
  /\ client = "CONNECTED" /\ mqttPc = "loop"
  /\ client' = "DOWN" /\ tcp' = FALSE
  /\ mqttPc' = "disconnected: flag"
  /\ UNCHANGED <<linkVars, wifiPc, wifi, mqtt, led, apVars>>

-----------------------------------------------------------------------------
(* mqtt_event_handler_cb: MQTT_EVENT_CONNECTED.                                *)

(* Mutation: the flag is only set if there is Wi-Fi. *)
MqttSetsFlagIfWifi ==
  /\ mqttPc = "connected: flag"
  /\ mqtt' = wifi
  /\ mqttPc' = "connected: check"
  /\ UNCHANGED <<linkVars, tcp, client, wifiPc, wifi, led, apVars>>

MqttSetsFlag ==
  /\ mqttPc = "connected: flag"
  /\ mqtt' = TRUE
  /\ mqttPc' = "connected: check"
  /\ UNCHANGED <<linkVars, tcp, client, wifiPc, wifi, led, apVars>>

MqttChecksWifi ==
  /\ mqttPc = "connected: check"
  /\ mqttPc' = IF wifi THEN "connected: led" ELSE "loop"
  /\ UNCHANGED <<linkVars, tcp, client, wifiPc, wifi, mqtt, led, apVars>>

MqttShowsOk ==
  /\ mqttPc = "connected: led"
  /\ led' = "MQTT_OK"
  /\ mqttPc' = "loop"
  /\ UNCHANGED <<linkVars, tcp, client, wifiPc, wifi, mqtt, apVars>>

(* MQTT_EVENT_DISCONNECTED.                                                    *)
MqttClearsFlag ==
  /\ mqttPc = "disconnected: flag"
  /\ mqtt' = FALSE
  /\ mqttPc' = "disconnected: check"
  /\ UNCHANGED <<linkVars, tcp, client, wifiPc, wifi, led, apVars>>

MqttChecksWifiAfterLoss ==
  /\ mqttPc = "disconnected: check"
  /\ mqttPc' = IF wifi THEN "disconnected: no mqtt" ELSE "disconnected: connecting"
  /\ UNCHANGED <<linkVars, tcp, client, wifiPc, wifi, mqtt, led, apVars>>

MqttShowsLoss ==
  /\ mqttPc \in {"disconnected: no mqtt", "disconnected: connecting"}
  /\ led' = IF mqttPc = "disconnected: no mqtt" THEN "WIFI_OK_NO_MQTT" ELSE "WIFI_CONNECTING"
  /\ mqttPc' = "loop"
  /\ UNCHANGED <<linkVars, tcp, client, wifiPc, wifi, mqtt, apVars>>

-----------------------------------------------------------------------------
(* wifi_event_handler: one event at a time, in the order they were posted.     *)

Takes(event) ==
  /\ wifiPc = "loop"
  /\ events # << >> /\ Head(events) = event
  /\ events' = Tail(events)

(* esp_wifi_connect: a no-op unless the station is idle.  It may also fail;    *)
(* the handler does not look at the result and goes on as if it had not.       *)
WifiConnect ==
  \/ radio = "idle" /\ radio' = "connecting" /\ UNCHANGED refused
  \/ radio = "idle" /\ UNCHANGED radio /\ refused' = TRUE
  \/ radio # "idle" /\ UNCHANGED <<radio, refused>>

OnStart ==
  /\ Takes("STA_START")
  /\ led' = "WIFI_CONNECTING"
  /\ WifiConnect
  /\ UNCHANGED <<clientVars, wifiPc, wifi, mqtt, apVars>>

(* Mutation: the handler of STA_DISCONNECTED does not clear s_wifi_connected. *)
OnStaDisconnectedKeepsFlag ==
  /\ Takes("STA_DISCONNECTED")
  /\ wifiPc' = "lost: mqtt"
  /\ UNCHANGED <<radio, refused, clientVars, wifi, mqtt, led, apVars>>

OnStaDisconnected ==
  /\ Takes("STA_DISCONNECTED")
  /\ wifi' = FALSE
  /\ wifiPc' = "lost: mqtt"
  /\ UNCHANGED <<radio, refused, clientVars, mqtt, led, apVars>>

WifiClearsMqtt ==
  /\ wifiPc = "lost: mqtt"
  /\ mqtt' = FALSE
  /\ wifiPc' = "lost: led"
  /\ UNCHANGED <<linkVars, clientVars, wifi, led, apVars>>

WifiShowsConnecting ==
  /\ wifiPc = "lost: led"
  /\ led' = "WIFI_CONNECTING"
  /\ wifiPc' = "lost: retry"
  /\ UNCHANGED <<linkVars, clientVars, wifi, mqtt, apVars>>

(* Mutation: the retry count is not reset when the network is changed. *)
RetryWithoutReset(ok) ==
  /\ wifiPc = "lost: retry"
  /\ retry' = retry + 1
  /\ IF retry' >= MaxRetry
       THEN /\ index' = (index + 1) % Nets
            /\ IF ok THEN applied' = index' /\ UNCHANGED led
                     ELSE led' = "ERROR" /\ UNCHANGED applied
       ELSE UNCHANGED <<index, applied, led>>
  /\ WifiConnect
  /\ wifiPc' = "loop"
  /\ UNCHANGED <<events, clientVars, wifi, mqtt>>

(* Mutation: the next network is chosen and never given to the driver. *)
RetryWithoutApply(ok) ==
  /\ wifiPc = "lost: retry"
  /\ retry' = (retry + 1) % MaxRetry
  /\ index' = IF retry + 1 >= MaxRetry THEN (index + 1) % Nets ELSE index
  /\ WifiConnect
  /\ wifiPc' = "loop"
  /\ UNCHANGED <<events, clientVars, wifi, mqtt, led, applied>>

(* After MaxRetry failures in a row the next network of the table is tried;    *)
(* esp_wifi_set_config may fail, and the driver then keeps the old one.        *)
RetrySameOrNext(ok) ==
  /\ wifiPc = "lost: retry"
  /\ retry' = (retry + 1) % MaxRetry
  /\ IF retry + 1 >= MaxRetry
       THEN /\ index' = (index + 1) % Nets
            /\ IF ok THEN applied' = index' /\ UNCHANGED led
                     ELSE led' = "ERROR" /\ UNCHANGED applied
       ELSE UNCHANGED <<index, applied, led>>
  /\ WifiConnect
  /\ wifiPc' = "loop"
  /\ UNCHANGED <<events, clientVars, wifi, mqtt>>

OnGotIp ==
  /\ Takes("GOT_IP")
  /\ wifi' = TRUE
  /\ retry' = 0
  /\ wifiPc' = "ip: check"
  /\ UNCHANGED <<radio, refused, clientVars, mqtt, led, index, applied>>

WifiChecksMqtt ==
  /\ wifiPc = "ip: check"
  /\ wifiPc' = IF mqtt THEN "loop" ELSE "ip: led"
  /\ UNCHANGED <<linkVars, clientVars, wifi, mqtt, led, apVars>>

WifiShowsNoMqtt ==
  /\ wifiPc = "ip: led"
  /\ led' = "WIFI_OK_NO_MQTT"
  /\ wifiPc' = "loop"
  /\ UNCHANGED <<linkVars, clientVars, wifi, mqtt, apVars>>

-----------------------------------------------------------------------------
Driver == StationUp \/ StationDown
Client == ClientConnects \/ ClientConnectFails \/ ClientLosesConnection
MqttHandler ==
  \/ MqttSetsFlag \/ MqttChecksWifi \/ MqttShowsOk
  \/ MqttClearsFlag \/ MqttChecksWifiAfterLoss \/ MqttShowsLoss
WifiHandler ==
  \/ OnStart \/ OnStaDisconnected \/ WifiClearsMqtt \/ WifiShowsConnecting
  \/ (\E ok \in BOOLEAN : RetrySameOrNext(ok))
  \/ OnGotIp \/ WifiChecksMqtt \/ WifiShowsNoMqtt

Next == Driver \/ Client \/ MqttHandler \/ WifiHandler

(* The event task and the esp-mqtt task run; a connection whose TCP link is    *)
(* gone is noticed by keepalive; every association ends, one way or the other. *)
(* A reachable network and broker accept in the end, and a valid configuration *)
(* is not refused for ever.  Nothing makes a station that is up go down.       *)
Spec ==
  /\ Init /\ [][Next]_vars
  /\ WF_vars(WifiHandler) /\ WF_vars(MqttHandler)
  /\ WF_vars(~tcp /\ ClientLosesConnection)
  /\ WF_vars(radio = "connecting" /\ Driver)
  /\ SF_vars(StationUp) /\ SF_vars(ClientConnects)
  /\ \A n \in 0..(Nets - 1) : SF_vars(RetrySameOrNext(TRUE) /\ applied' = n)

-----------------------------------------------------------------------------
Leds == {"WIFI_CONNECTING", "WIFI_OK_NO_MQTT", "MQTT_OK", "ERROR"}

(* Every variable has its type; the index stays in the table and the retry     *)
(* count below MaxRetry; no more than two events ever wait for the handler.    *)
TypeOK ==
  /\ radio \in {"idle", "connecting", "up"}
  /\ events \in Seq({"STA_START", "STA_DISCONNECTED", "GOT_IP"}) /\ Len(events) =< 2
  /\ tcp \in BOOLEAN /\ client \in {"DOWN", "CONNECTED"}
  /\ wifiPc \in {"loop", "lost: mqtt", "lost: led", "lost: retry", "ip: check", "ip: led"}
  /\ mqttPc \in {"loop", "connected: flag", "connected: check", "connected: led",
                 "disconnected: flag", "disconnected: check", "disconnected: no mqtt",
                 "disconnected: connecting"}
  /\ wifi \in BOOLEAN /\ mqtt \in BOOLEAN /\ led \in Leds
  /\ index \in 0..(Nets - 1) /\ applied \in 0..(Nets - 1) /\ retry \in 0..(MaxRetry - 1)
  /\ refused \in BOOLEAN

Quiet == wifiPc = "loop" /\ mqttPc = "loop" /\ events = << >>

(* Once the handlers have run, s_wifi_connected tells whether the station is   *)
(* up: no order of losses and addresses leaves it wrong.                       *)
WifiFlagSettles == Quiet => (wifi <=> radio = "up")

(* Rotation finds the network in range: whatever the table and whatever the    *)
(* failures, the station comes up again and again - as long as no call of      *)
(* esp_wifi_connect fails (wifi_manager.c:50, 74).  Only the events of an      *)
(* attempt lead to the next one, so the first attempt that does not begin is   *)
(* the last.                                                                   *)
FindsNetwork == []<>(radio = "up" \/ refused)

(* If the station stays up and the broker keeps the client, both flags come    *)
(* back and stay, provided no TCP connection outlives a loss of the Wi-Fi.     *)
StableNetwork == <>[](radio = "up") /\ <>[](client = "CONNECTED")
Recovers == StableNetwork => <>[](wifi /\ mqtt)
=============================================================================
