---------------------------- MODULE DeviceProofs ----------------------------
(***************************************************************************)
(* Proofs about the two modules of the device that need few lemmas, each   *)
(* with an inductive invariant of its own: Connectivity, for any table of  *)
(* networks, any of them in range and any retry limit; and Maintenance,    *)
(* for any set of updates and any bounds.                                  *)
(***************************************************************************)
EXTENDS Connectivity, Maintenance, SequenceTheorems, TLAPS

-----------------------------------------------------------------------------
(* Connectivity.  What the driver, the event queue and the handler of Wi-Fi    *)
(* events can be doing at the same time is a short list of situations; with it *)
(* s_wifi_connected is known in each of them.                                  *)
AfterIp == {"loop", "ip: check", "ip: led"}
AfterLoss == {"lost: mqtt", "lost: led", "lost: retry"}
Lost == "STA_DISCONNECTED"

(* From the start of the station or a loss to the next attempt; the attempt;   *)
(* an address; and a loss that the handler has not seen yet, or not even the   *)
(* address before it.                                                          *)
Starting == radio = "idle" /\ events = <<"STA_START">> /\ wifiPc = "loop" /\ ~wifi
HandlingLoss == radio = "idle" /\ events = << >> /\ wifiPc \in AfterLoss /\ ~wifi
Attempting == radio = "connecting" /\ events = << >> /\ wifiPc = "loop" /\ ~wifi
HasAddress == radio = "up" /\ events = <<"GOT_IP">> /\ wifiPc = "loop" /\ ~wifi
IsUp == radio = "up" /\ events = << >> /\ wifiPc \in AfterIp /\ wifi
LostUnseen == radio = "idle" /\ events = <<Lost>> /\ wifiPc \in AfterIp
LostAtOnce == radio = "idle" /\ events = <<"GOT_IP", Lost>> /\ wifiPc = "loop"

(* An attempt that esp_wifi_connect has refused: no event will come any more.  *)
Stopped == radio = "idle" /\ events = << >> /\ wifiPc = "loop" /\ ~wifi

Situations ==
  Starting \/ HandlingLoss \/ Attempting \/ HasAddress \/ IsUp \/ LostUnseen \/ LostAtOnce
  \/ Stopped

MqttPcs ==
  {"loop", "connected: flag", "connected: check", "connected: led", "disconnected: flag",
   "disconnected: check", "disconnected: no mqtt", "disconnected: connecting"}

(* The variables Situations says nothing about.                                *)
RestOK ==
  /\ tcp \in BOOLEAN /\ client \in {"DOWN", "CONNECTED"} /\ mqttPc \in MqttPcs
  /\ wifi \in BOOLEAN /\ mqtt \in BOOLEAN /\ led \in Leds
  /\ index \in 0..(Nets - 1) /\ applied \in 0..(Nets - 1) /\ retry \in 0..(MaxRetry - 1)
  /\ refused \in BOOLEAN

WifiInv == Situations /\ RestOK

(* Queues of at most two events. *)
LEMMA Sequencing ==
  ASSUME NEW E, NEW a \in E, NEW b \in E
  PROVE  /\ <<a>> # << >> /\ <<a, b>> # << >>
         /\ Head(<<a>>) = a /\ Tail(<<a>>) = << >>
         /\ Head(<<a, b>>) = a /\ Tail(<<a, b>>) = <<b>>
         /\ Append(<< >>, a) = <<a>> /\ Append(<<a>>, b) = <<a, b>>
  <1>1. <<a>> # << >> /\ <<a, b>> # << >>
    OBVIOUS
  <1>2. Head(<<a>>) = a /\ Head(<<a, b>>) = a
    OBVIOUS
  <1>3. Tail(<<a>>) = << >>
    OBVIOUS
  <1>4. Tail(<<a, b>>) = <<b>>
    OBVIOUS
  <1>5. Append(<< >>, a) = <<a>>
    OBVIOUS
  <1>6. Append(<<a>>, b) = <<a, b>>
    <2>1. <<a>> \in Seq(E) /\ <<a, b>> \in Seq(E) /\ Len(<<a>>) = 1 /\ Len(<<a, b>>) = 2
      OBVIOUS
    <2>2. /\ Append(<<a>>, b) \in Seq(E) /\ Len(Append(<<a>>, b)) = 2
          /\ Append(<<a>>, b)[1] = a /\ Append(<<a>>, b)[2] = b
      BY <2>1, AppendProperties
    <2>3. \A i \in 1..2 : Append(<<a>>, b)[i] = <<a, b>>[i]
      BY <2>2
    <2> QED
      BY <2>1, <2>2, <2>3, SeqEqual
  <1> QED
    BY <1>1, <1>2, <1>3, <1>4, <1>5, <1>6

(* The queues there are. *)
Events == {"STA_START", "STA_DISCONNECTED", "GOT_IP"}
LEMMA Queues ==
  /\ << >> \in Seq(Events) /\ Len(<< >>) = 0
  /\ \A a \in Events : /\ <<a>> \in Seq(Events) /\ Len(<<a>>) = 1 /\ <<a>> # << >>
                        /\ Head(<<a>>) = a /\ Tail(<<a>>) = << >> /\ Append(<< >>, a) = <<a>>
  /\ \A a, b \in Events : /\ <<a, b>> \in Seq(Events) /\ Len(<<a, b>>) = 2 /\ <<a, b>> # << >>
                           /\ Head(<<a, b>>) = a /\ Tail(<<a, b>>) = <<b>>
                           /\ Append(<<a>>, b) = <<a, b>>
  <1>1. /\ << >> \in Seq(Events) /\ Len(<< >>) = 0
        /\ \A a \in Events : <<a>> \in Seq(Events) /\ Len(<<a>>) = 1
        /\ \A a, b \in Events : <<a, b>> \in Seq(Events) /\ Len(<<a, b>>) = 2
    OBVIOUS
  <1> QED
    BY <1>1, Sequencing

LEMMA WifiInvImplies == WifiInv => TypeOK /\ WifiFlagSettles
  <1> SUFFICES ASSUME WifiInv PROVE TypeOK /\ WifiFlagSettles
    OBVIOUS
  <1>2. events \in Seq(Events) /\ Len(events) =< 2
    <2>1. CASE events = << >>
      BY <2>1, Queues
    <2>2. CASE \E a \in Events : events = <<a>>
      BY <2>2, Queues
    <2>3. CASE \E a, b \in Events : events = <<a, b>>
      BY <2>3, Queues
    <2> QED
      BY <2>1, <2>2, <2>3 DEF WifiInv, Situations, Starting, HandlingLoss, Attempting, HasAddress, IsUp,
                              LostUnseen, LostAtOnce, Stopped, Lost, Events
  <1>3. TypeOK
    BY <1>2 DEF WifiInv, RestOK, Situations, Starting, HandlingLoss, Attempting, HasAddress, IsUp,
                LostUnseen, LostAtOnce, Stopped, AfterIp, AfterLoss, MqttPcs, Events, TypeOK
  <1>4. WifiFlagSettles
    BY Queues DEF Events, Lost, WifiInv, Situations, Starting, HandlingLoss, Attempting, HasAddress, IsUp, LostUnseen,
           LostAtOnce, Stopped, AfterIp, AfterLoss, WifiFlagSettles, Quiet
  <1> QED
    BY <1>3, <1>4

(* The first of n, and the next one in a circle. *)
LEMMA Wraps ==
  ASSUME NEW n \in Nat \ {0}
  PROVE  0 \in 0..(n - 1) /\ \A k \in 0..(n - 1) : (k + 1) % n \in 0..(n - 1)
  OBVIOUS

LEMMA WifiInvInit == Init => WifiInv
  <1> SUFFICES ASSUME Init PROVE WifiInv
    OBVIOUS
  <1>1. Situations
    BY DEF Init, Situations, Starting
  <1>2. 0 \in 0..(Nets - 1) /\ 0 \in 0..(MaxRetry - 1)
    BY NetsAssumption, Wraps
  <1>3. RestOK
    BY <1>2 DEF Init, RestOK, MqttPcs, Leds
  <1> QED
    BY <1>1, <1>3 DEF WifiInv

(* What one step does to the situation: an event is posted or taken, or the    *)
(* handler goes on.                                                            *)
LEMMA SituationStep == ASSUME WifiInv, [Next]_vars PROVE Situations'
  <1> USE DEF WifiInv, Situations, Starting, HandlingLoss, Attempting, HasAddress, IsUp, LostUnseen,
              LostAtOnce, Stopped, AfterIp, AfterLoss, Lost, Events
  <1>1. CASE StationUp
    BY <1>1, Queues DEF StationUp
  <1>2. CASE StationDown
    BY <1>2, Queues DEF StationDown
  <1>3. CASE Client \/ MqttHandler
    BY <1>3 DEF Client, ClientConnects, ClientConnectFails, ClientLosesConnection, MqttHandler,
      MqttSetsFlag, MqttChecksWifi, MqttShowsOk, MqttClearsFlag, MqttChecksWifiAfterLoss,
      MqttShowsLoss, linkVars
  <1>4. CASE OnStart
    BY <1>4, Queues DEF OnStart, Takes, WifiConnect
  <1>5. CASE OnStaDisconnected
    BY <1>5, Queues DEF OnStaDisconnected, Takes
  <1>6. CASE WifiClearsMqtt \/ WifiShowsConnecting
    BY <1>6 DEF WifiClearsMqtt, WifiShowsConnecting, linkVars
  <1>7. ASSUME NEW ok \in BOOLEAN, RetrySameOrNext(ok) PROVE Situations'
    BY <1>7 DEF RetrySameOrNext, WifiConnect
  <1>8. CASE OnGotIp
    BY <1>8, Queues DEF OnGotIp, Takes
  <1>9. CASE WifiChecksMqtt \/ WifiShowsNoMqtt
    BY <1>9 DEF WifiChecksMqtt, WifiShowsNoMqtt, linkVars
  <1>10. CASE UNCHANGED vars
    BY <1>10 DEF vars
  <1> QED
    BY <1>1, <1>2, <1>3, <1>4, <1>5, <1>6, <1>7, <1>8, <1>9, <1>10 DEF Next, Driver, WifiHandler

(* The table is walked in a circle and the retries are counted below the limit. *)
LEMMA RestStep == ASSUME WifiInv, [Next]_vars PROVE RestOK'
  <1> USE DEF WifiInv, RestOK, MqttPcs, Leds, linkVars, clientVars, apVars
  <1>1. CASE Driver
    BY <1>1 DEF Driver, StationUp, StationDown
  <1>2. CASE Client
    BY <1>2 DEF Client, ClientConnects, ClientConnectFails, ClientLosesConnection
  <1>3. CASE MqttHandler
    BY <1>3 DEF MqttHandler, MqttSetsFlag, MqttChecksWifi, MqttShowsOk, MqttClearsFlag,
      MqttChecksWifiAfterLoss, MqttShowsLoss
  <1>4. CASE OnStart \/ OnStaDisconnected \/ WifiClearsMqtt \/ WifiShowsConnecting
    BY <1>4 DEF OnStart, WifiConnect, OnStaDisconnected, WifiClearsMqtt, WifiShowsConnecting
  <1>5. ASSUME NEW ok \in BOOLEAN, RetrySameOrNext(ok) PROVE RestOK'
    <2>1. (retry + 1) % MaxRetry \in 0..(MaxRetry - 1) /\ (index + 1) % Nets \in 0..(Nets - 1)
      BY NetsAssumption, Wraps
    <2>2. retry' \in 0..(MaxRetry - 1) /\ index' \in 0..(Nets - 1) /\ applied' \in 0..(Nets - 1)
      BY <1>5, <2>1 DEF RetrySameOrNext
    <2>3. led' \in Leds
      <3>1. led' \in {led, "ERROR"}
        BY <1>5 DEF RetrySameOrNext
      <3> QED
        BY <3>1
    <2>4. tcp' \in BOOLEAN /\ client' \in {"DOWN", "CONNECTED"} /\ mqttPc' \in MqttPcs
      BY <1>5 DEF RetrySameOrNext
    <2>5. wifi' \in BOOLEAN /\ mqtt' \in BOOLEAN /\ refused' \in BOOLEAN
      BY <1>5 DEF RetrySameOrNext, WifiConnect
    <2> QED
      BY <2>2, <2>3, <2>4, <2>5
  <1>6. CASE OnGotIp
    <2>1. 0 \in 0..(MaxRetry - 1)
      BY NetsAssumption, Wraps
    <2> QED
      BY <1>6, <2>1 DEF OnGotIp
  <1>8. CASE WifiChecksMqtt \/ WifiShowsNoMqtt
    BY <1>8 DEF WifiChecksMqtt, WifiShowsNoMqtt
  <1>7. CASE UNCHANGED vars
    BY <1>7 DEF vars
  <1> QED
    BY <1>1, <1>2, <1>3, <1>4, <1>5, <1>6, <1>7, <1>8 DEF Next, WifiHandler

LEMMA WifiInductive == Spec => []WifiInv
  <1>1. WifiInv /\ [Next]_vars => WifiInv'
    BY SituationStep, RestStep DEF WifiInv
  <1> QED
    BY WifiInvInit, <1>1, PTL DEF Spec

(* The index stays in the table, the retry count below the limit, and no more  *)
(* than two events ever wait for wifi_event_handler, whatever the driver does. *)
THEOREM WifiTypeCorrect == Spec => []TypeOK
  BY WifiInductive, WifiInvImplies, PTL

(* No order of addresses and losses leaves s_wifi_connected wrong once the     *)
(* handlers have run.                                                          *)
THEOREM WifiFlagRight == Spec => []WifiFlagSettles
  BY WifiInductive, WifiInvImplies, PTL

-----------------------------------------------------------------------------
(* Maintenance.                                                                *)
Images == Updates \cup {Factory}
TaskPcs == {"unsent", "begin", "write", "verify", "report", "delay", "ended"}
Commands == Sets \cup Others

(* The types, by the tasks that have the variables. *)
ConfigType ==
  /\ flash \in Blob \cup {NoBlob} /\ config \in Blob /\ kept \subseteq BOOLEAN
  /\ boot \in {"load", "mqtt", "cards", "qr", "commands", "up"}
  /\ boot # "load" => config.version = CFG_VERSION
BootType == readers \subseteq {"cards", "qr"} /\ works \in BOOLEAN
CmdType ==
  /\ cmdQ \in Seq(Commands) /\ cmdPc \in {"off", "receive", "handle", "save"}
  /\ cmd \in Commands \cup {NoCmd}
CountType == commands \in 0..MaxCommands /\ faults \in 0..MaxFaults /\ restarts \in 0..MaxRestarts
OtaType ==
  /\ task \in [Updates -> TaskPcs] /\ slot \in [image : Images, whole : BOOLEAN]
  /\ running \in Images /\ selected \in BOOLEAN /\ overlap \in BOOLEAN /\ claimed \subseteq Updates

(* A value a restart may bring back is one of kept. *)
KeptInv ==
  /\ flash.version = CFG_VERSION => flash.cards \in kept
  /\ flash.version # CFG_VERSION => FALSE \in kept
  /\ boot # "load" => config.cards \in kept
  /\ boot = "load" => cmdPc = "off"

(* Nothing updates before MQTT is started; and as long as no two updates have  *)
(* run at once, the one that has selected its image still has it in the        *)
(* partition, and is the only one that can have been reported.                 *)
Idle == boot \in {"load", "mqtt"} => Busy = {} /\ ~selected
Alone ==
  /\ \A u, v \in Busy : u = v
  /\ \A u \in Updates : task[u] \in {"report", "delay"} => selected /\ slot = [image |-> u, whole |-> TRUE]
  /\ boot # "load" => \A u \in claimed : task[u] = "delay"
  /\ boot = "load" => claimed \subseteq {running}
OtaInv == Idle /\ (~overlap => Alone)

StoredInv == ConfigType /\ BootType /\ CmdType /\ CountType /\ OtaType /\ KeptInv /\ OtaInv

-----------------------------------------------------------------------------
LEMMA Blobs ==
  /\ Defaults \in Blob /\ Defaults.version = CFG_VERSION /\ Defaults.cards = FALSE
  /\ [version |-> 0, cards |-> FALSE, qr |-> FALSE] \in Blob
  /\ NoBlob.version # CFG_VERSION /\ NoBlob.version # 0 /\ CFG_VERSION = 1
  /\ \A c \in Blob : c.cards \in BOOLEAN /\ c.version \in {0, 1}
  /\ \A c \in Blob : LET n == [c EXCEPT !.version = CFG_VERSION] IN
       n \in Blob /\ n.version = CFG_VERSION /\ n.cards = c.cards
  /\ \A c \in Blob, v \in BOOLEAN : LET n == [c EXCEPT !.cards = v] IN
       n \in Blob /\ n.version = c.version /\ n.cards = v
  BY DEF Blob, NoBlob, Defaults, CFG_VERSION

LEMMA FirstBlobs ==
  /\ [version |-> 0, cards |-> TRUE, qr |-> FALSE] \in Blob
  /\ [version |-> CFG_VERSION, cards |-> TRUE, qr |-> TRUE] \in Blob
  BY DEF Blob, CFG_VERSION

LEMMA Cards == \A c \in Commands \cup {NoCmd} : c.cards \in BOOLEAN
  <1>1. \A c \in Sets : c.cards \in BOOLEAN
    <2>1. \A v \in {TRUE, FALSE} : [do |-> "set", cards |-> v].cards = v
      OBVIOUS
    <2>2. \A c \in Sets : \E v \in {TRUE, FALSE} : c = [do |-> "set", cards |-> v]
      BY DEF Sets
    <2> QED
      BY <2>1, <2>2
  <1>2. \A c \in Others : c.cards \in BOOLEAN
    <2>1. \A d : [do |-> d, cards |-> FALSE].cards = FALSE
      OBVIOUS
    <2>2. \A c \in Others : \E d : c = [do |-> d, cards |-> FALSE]
      BY DEF Others
    <2> QED
      BY <2>1, <2>2
  <1>3. NoCmd.cards \in BOOLEAN
    BY DEF NoCmd
  <1> QED
    BY <1>1, <1>2, <1>3 DEF Commands

LEMMA StoredInvInit == MaintenanceInit => StoredInv
  <1> SUFFICES ASSUME MaintenanceInit PROVE StoredInv
    OBVIOUS
  <1>1. ConfigType /\ BootType
    <2>1. flash \in Blob \cup {NoBlob}
      BY FirstBlobs DEF MaintenanceInit
    <2>2. config \in Blob
      BY Blobs DEF MaintenanceInit
    <2>3. kept \subseteq BOOLEAN
      <3>1. flash.version = CFG_VERSION => flash.cards \in BOOLEAN
        BY <2>1, Blobs
      <3> QED
        BY <3>1 DEF MaintenanceInit
    <2> QED
      BY <2>1, <2>2, <2>3 DEF MaintenanceInit, ConfigType, BootType
  <1>2. CmdType
    BY DEF MaintenanceInit, CmdType
  <1>3. CountType
    BY MaintenanceAssumption DEF MaintenanceInit, CountType
  <1>4. OtaType
    BY DEF MaintenanceInit, OtaType, TaskPcs, Images
  <1>5. KeptInv
    BY DEF MaintenanceInit, KeptInv, NoBlob, CFG_VERSION
  <1>6. OtaInv
    BY DEF MaintenanceInit, OtaInv, Idle, Alone, Busy
  <1> QED
    BY <1>1, <1>2, <1>3, <1>4, <1>5, <1>6 DEF StoredInv

(* What a save leaves in flash is a blob, and one of what was there and what   *)
(* was saved.                                                                  *)
LEMMA Saved ==
  ASSUME app_config_save, config' \in Blob, flash \in Blob \cup {NoBlob}, faults \in Nat
  PROVE  LET new == [config' EXCEPT !.version = CFG_VERSION] IN
         /\ flash' \in Blob \cup {NoBlob}
         /\ flash' \in {flash, new}
         /\ UNCHANGED faults => flash' = new
  <1>1. [config' EXCEPT !.version = CFG_VERSION] \in Blob
    BY Blobs
  <1>2. CASE NoFault /\ flash' = [config' EXCEPT !.version = CFG_VERSION]
    BY <1>1, <1>2
  <1>3. CASE NvsFault /\ flash' \in {flash, [config' EXCEPT !.version = CFG_VERSION]}
    <2>1. UNCHANGED faults => flash' = [config' EXCEPT !.version = CFG_VERSION]
      BY <1>3 DEF NvsFault
    <2> QED
      BY <1>1, <1>3, <2>1
  <1> QED
    BY <1>2, <1>3 DEF app_config_save

LEMMA ReplacedByDefaults == [Defaults EXCEPT !.version = CFG_VERSION] = Defaults
  <1>1. [[version |-> 1, cards |-> FALSE, qr |-> TRUE] EXCEPT !.version = 1]
          = [version |-> 1, cards |-> FALSE, qr |-> TRUE]
    OBVIOUS
  <1> QED
    BY <1>1 DEF Defaults, CFG_VERSION

(* app_config_load: the blob, or defaults, and whatever is then in flash.      *)
LEMMA LoadStep ==
  ASSUME StoredInv, app_config_load
  PROVE  ConfigType' /\ KeptInv'
  <1>1. /\ boot' = "mqtt" /\ cmdPc' = "off" /\ faults \in Nat
        /\ flash \in Blob \cup {NoBlob} /\ kept \subseteq BOOLEAN
        /\ flash.version = CFG_VERSION => flash.cards \in kept
        /\ flash.version # CFG_VERSION => FALSE \in kept
    <2>1. boot = "load" /\ boot' = "mqtt" /\ cmdPc' = cmdPc
      BY DEF app_config_load, cmdVars
    <2>2. faults \in Nat
      BY MaintenanceAssumption DEF StoredInv, CountType
    <2> QED
      BY <2>1, <2>2 DEF StoredInv, ConfigType, KeptInv
  <1>2. SUFFICES /\ flash' \in Blob \cup {NoBlob} /\ config' \in Blob /\ kept' \subseteq BOOLEAN
                 /\ config'.version = CFG_VERSION /\ config'.cards \in kept'
                 /\ flash'.version = CFG_VERSION => flash'.cards \in kept'
                 /\ flash'.version # CFG_VERSION => FALSE \in kept'
    BY <1>1 DEF ConfigType, KeptInv
  <1>3. CASE flash = NoBlob /\ config' = Defaults /\ NoFault /\ UNCHANGED <<flash, kept>>
    BY <1>1, <1>3, Blobs
  <1>4. CASE flash.version = CFG_VERSION /\ config' = flash /\ NoFault /\ UNCHANGED <<flash, kept>>
    BY <1>1, <1>4, Blobs
  <1>5. CASE flash.version = 0 /\ config' = Defaults /\ app_config_save /\ UNCHANGED kept
    <2>1. flash' \in Blob \cup {NoBlob} /\ flash' \in {flash, Defaults}
      BY <1>1, <1>5, Saved, Blobs, ReplacedByDefaults
    <2>2. flash.version # CFG_VERSION
      BY <1>5, Blobs
    <2>3. FALSE \in kept' /\ kept' \subseteq BOOLEAN
      BY <1>1, <1>5, <2>2
    <2>4. flash'.version = CFG_VERSION => flash'.cards = FALSE
      BY <2>1, <2>2, Blobs
    <2> QED
      BY <1>5, <2>1, <2>3, <2>4, Blobs
  <1>6. CASE /\ flash # NoBlob /\ NvsFault
             /\ config' = Defaults /\ flash' \in {flash, Defaults, NoBlob}
             /\ kept' = kept \cup {Defaults.cards}
    <2>1. FALSE \in kept' /\ kept' \subseteq BOOLEAN /\ kept \subseteq kept'
      BY <1>1, <1>6, Blobs
    <2>2. config' \in Blob /\ config'.version = CFG_VERSION /\ config'.cards \in kept'
      BY <1>6, <2>1, Blobs
    <2>3. flash' \in Blob \cup {NoBlob}
      BY <1>1, <1>6, Blobs
    <2>4. flash'.version = CFG_VERSION => flash'.cards \in kept'
      <3>1. CASE flash' = flash
        BY <1>1, <2>1, <3>1
      <3>2. CASE flash' = Defaults
        BY <2>1, <3>2, Blobs
      <3>3. CASE flash' = NoBlob
        BY <3>3, Blobs
      <3> QED
        BY <1>6, <3>1, <3>2, <3>3
    <2> QED
      BY <2>1, <2>2, <2>3, <2>4
  <1> QED
    BY <1>3, <1>4, <1>5, <1>6 DEF app_config_load

(* A restart forgets the copy in RAM and keeps the blob. *)
LEMMA RebootKeeps ==
  ASSUME StoredInv, Reboots
  PROVE  ConfigType' /\ KeptInv' /\ BootType' /\ CmdType' /\ commands' = commands /\ faults' = faults
  <1>1. ConfigType' /\ KeptInv'
    BY Blobs DEF StoredInv, ConfigType, KeptInv, Reboots
  <1>2. BootType' /\ CmdType' /\ commands' = commands /\ faults' = faults
    BY DEF StoredInv, BootType, CmdType, Reboots
  <1> QED
    BY <1>1, <1>2

(* The configuration, the blob and what may come back. *)
LEMMA ConfigStep ==
  ASSUME StoredInv, [MaintenanceNext]_maintenanceVars
  PROVE  ConfigType' /\ KeptInv'
  <1> USE DEF StoredInv
  <1>1. CASE app_config_load
    BY <1>1, LoadStep
  <1>2. CASE StartsMqtt \/ StartsCards \/ StartsQr
    BY <1>2 DEF StartsMqtt, StartsCards, StartsQr, StartsReader, UnchangedByBoot, cmdVars, ConfigType, KeptInv
  <1>3. CASE StartsCommands
    BY <1>3 DEF StartsCommands, UnchangedByBoot, ConfigType, KeptInv
  <1>4. CASE Reboots
    BY <1>4, RebootKeeps
  <1>5. CASE CmdReceives \/ AnswersOnly
    BY <1>5 DEF CmdReceives, AnswersOnly, UnchangedByCommands, bootVars, ConfigType, KeptInv
  <1>6. CASE SetsRam
    <2>1. cmd.cards \in BOOLEAN
      BY Cards DEF CmdType
    <2>2. config' \in Blob /\ config'.version = config.version
      BY <1>6, <2>1, Blobs DEF SetsRam, ConfigType
    <2>3. boot # "load"
      BY <1>6 DEF SetsRam, KeptInv
    <2>4. kept' = kept \cup {config'.cards} /\ UNCHANGED <<flash, boot>> /\ cmdPc' = "save"
      BY <1>6 DEF SetsRam, UnchangedByCommands, bootVars
    <2> QED
      BY <2>2, <2>3, <2>4, Blobs DEF ConfigType, KeptInv
  <1>7. CASE SavesAndAnswers
    <2>1. boot # "load" /\ boot' = boot /\ config' = config
      BY <1>7 DEF SavesAndAnswers, KeptInv, UnchangedByCommands, bootVars
    <2>2. faults \in Nat /\ config' \in Blob /\ config.cards \in kept /\ config.version = CFG_VERSION
      BY <2>1, MaintenanceAssumption DEF CountType, ConfigType, KeptInv
    <2> DEFINE new == [config' EXCEPT !.version = CFG_VERSION]
    <2>3. new \in Blob /\ new.version = CFG_VERSION /\ new.cards = config.cards
      BY <2>1, <2>2, Blobs
    <2>4. flash' \in Blob \cup {NoBlob} /\ flash' \in {flash, new} /\ (UNCHANGED faults => flash' = new)
      BY <1>7, <2>2, Saved DEF SavesAndAnswers, ConfigType
    <2> HIDE DEF new
    <2>5. CASE faults' = faults
      <3>1. flash' = new /\ kept' = {config.cards}
        BY <1>7, <2>4, <2>5 DEF SavesAndAnswers
      <3> QED
        BY <2>1, <2>2, <2>3, <2>4, <3>1, Blobs DEF ConfigType, KeptInv
    <2>6. CASE faults' # faults
      <3>1. kept' = kept
        BY <1>7, <2>6 DEF SavesAndAnswers
      <3> QED
        BY <2>1, <2>2, <2>3, <2>4, <3>1, Blobs DEF ConfigType, KeptInv
    <2> QED
      BY <2>5, <2>6
  <1>8. ASSUME NEW c \in Commands, Arrives(c) PROVE ConfigType' /\ KeptInv'
    BY <1>8 DEF Arrives, bootVars, ConfigType, KeptInv
  <1>9. CASE HardwareChanges
    BY <1>9 DEF HardwareChanges, cmdVars, ConfigType, KeptInv
  <1>10. ASSUME NEW u \in Updates, Ota(u) PROVE ConfigType' /\ KeptInv'
    <2>1. CASE OtaRestarts(u)
      BY <2>1, RebootKeeps DEF OtaRestarts
    <2>2. CASE UnchangedByOta
      BY <2>2 DEF UnchangedByOta, bootVars, cmdVars, ConfigType, KeptInv
    <2> QED
      BY <1>10, <2>1, <2>2 DEF Ota, OtaStarts, OtaRefused, OtaErases, OtaWrites, OtaSelects, OtaReports
  <1>11. CASE UNCHANGED maintenanceVars
    BY <1>11 DEF maintenanceVars, bootVars, cmdVars, ConfigType, KeptInv
  <1> QED
    BY <1>1, <1>2, <1>3, <1>4, <1>5, <1>6, <1>7, <1>8, <1>9, <1>10, <1>11
       DEF MaintenanceNext, AppMain, CommandTask, PowerCut, Aborts, Commands

-----------------------------------------------------------------------------
(* The command task and its queue, the readers and the counters. *)
LEMMA CmdStep ==
  ASSUME StoredInv, [MaintenanceNext]_maintenanceVars
  PROVE  CmdType' /\ BootType'
  <1> USE DEF StoredInv, CmdType, BootType
  <1>1. CASE app_config_load
    BY <1>1 DEF app_config_load, cmdVars
  <1>2. CASE StartsMqtt \/ StartsCards \/ StartsQr
    BY <1>2 DEF StartsMqtt, StartsCards, StartsQr, StartsReader, UnchangedByBoot, cmdVars
  <1>3. CASE StartsCommands
    BY <1>3 DEF StartsCommands, UnchangedByBoot
  <1>4. CASE Reboots
    BY <1>4, RebootKeeps
  <1>5. CASE CmdReceives
    <2>1. cmdQ # << >> /\ cmd' = Head(cmdQ) /\ cmdQ' = Tail(cmdQ) /\ cmdPc' = "handle"
      BY <1>5 DEF CmdReceives
    <2>2. cmdQ' \in Seq(Commands) /\ cmd' \in Commands
      BY <2>1, HeadTailProperties
    <2> QED
      BY <1>5, <2>1, <2>2 DEF CmdReceives, UnchangedByCommands, bootVars
  <1>6. CASE AnswersOnly
    BY <1>6 DEF AnswersOnly, UnchangedByCommands, bootVars
  <1>7. CASE SetsRam
    BY <1>7 DEF SetsRam, UnchangedByCommands, bootVars
  <1>8. CASE SavesAndAnswers
    BY <1>8 DEF SavesAndAnswers, UnchangedByCommands, bootVars
  <1>9. ASSUME NEW c \in Commands, Arrives(c) PROVE CmdType' /\ BootType'
    <2>1. cmdQ' \in Seq(Commands)
      BY <1>9, AppendProperties DEF Arrives
    <2> QED
      BY <1>9, <2>1 DEF Arrives, bootVars
  <1>10. CASE HardwareChanges
    BY <1>10 DEF HardwareChanges, cmdVars
  <1>11. ASSUME NEW u \in Updates, Ota(u) PROVE CmdType' /\ BootType'
    <2>1. CASE OtaRestarts(u)
      BY <2>1, RebootKeeps DEF OtaRestarts
    <2>2. CASE UnchangedByOta
      BY <2>2 DEF UnchangedByOta, bootVars, cmdVars
    <2> QED
      BY <1>11, <2>1, <2>2 DEF Ota, OtaStarts, OtaRefused, OtaErases, OtaWrites, OtaSelects, OtaReports
  <1>12. CASE UNCHANGED maintenanceVars
    BY <1>12 DEF maintenanceVars, bootVars, cmdVars
  <1> QED
    BY <1>1, <1>2, <1>3, <1>4, <1>5, <1>6, <1>7, <1>8, <1>9, <1>10, <1>11, <1>12
       DEF MaintenanceNext, AppMain, CommandTask, PowerCut, Aborts, Commands

LEMMA Counting == \A max \in Nat : \A n \in 0..max : n < max => n + 1 \in 0..max
  OBVIOUS

LEMMA FaultStep == ASSUME faults \in 0..MaxFaults, NvsFault \/ NoFault PROVE faults' \in 0..MaxFaults
  BY Counting, MaintenanceAssumption DEF NvsFault, NoFault

LEMMA CountStep ==
  ASSUME StoredInv, [MaintenanceNext]_maintenanceVars
  PROVE  CountType'
  <1> USE DEF StoredInv, CountType
  <1>1. CASE app_config_load
    <2>1. NvsFault \/ NoFault
      BY <1>1 DEF app_config_load, app_config_save
    <2> QED
      BY <1>1, <2>1, FaultStep DEF app_config_load, cmdVars
  <1>2. CASE StartsMqtt \/ StartsCards \/ StartsQr \/ StartsCommands
    BY <1>2 DEF StartsMqtt, StartsCards, StartsQr, StartsReader, StartsCommands, UnchangedByBoot, cmdVars
  <1>3. CASE Aborts
    BY <1>3 DEF Aborts, Reboots
  <1>4. CASE PowerCut
    <2>1. restarts' \in 0..MaxRestarts
      BY <1>4, Counting, MaintenanceAssumption DEF PowerCut
    <2> QED
      BY <1>4, <2>1 DEF PowerCut, Reboots
  <1>5. CASE CmdReceives \/ AnswersOnly \/ SetsRam
    BY <1>5 DEF CmdReceives, AnswersOnly, SetsRam, UnchangedByCommands
  <1>6. CASE SavesAndAnswers
    <2>1. NvsFault \/ NoFault
      BY <1>6 DEF SavesAndAnswers, app_config_save
    <2> QED
      BY <1>6, <2>1, FaultStep DEF SavesAndAnswers, UnchangedByCommands
  <1>7. ASSUME NEW c \in Commands, Arrives(c) PROVE CountType'
    <2>1. commands' \in 0..MaxCommands
      BY <1>7, Counting, MaintenanceAssumption DEF Arrives
    <2> QED
      BY <1>7, <2>1 DEF Arrives
  <1>8. CASE HardwareChanges
    BY <1>8 DEF HardwareChanges, cmdVars
  <1>9. ASSUME NEW u \in Updates, Ota(u) PROVE CountType'
    <2>1. CASE OtaRestarts(u)
      BY <2>1 DEF OtaRestarts, Reboots
    <2>2. CASE UnchangedByOta
      BY <2>2 DEF UnchangedByOta, cmdVars
    <2> QED
      BY <1>9, <2>1, <2>2 DEF Ota, OtaStarts, OtaRefused, OtaErases, OtaWrites, OtaSelects, OtaReports
  <1>10. CASE UNCHANGED maintenanceVars
    BY <1>10 DEF maintenanceVars, cmdVars
  <1> QED
    BY <1>1, <1>2, <1>3, <1>4, <1>5, <1>6, <1>7, <1>8, <1>9, <1>10
       DEF MaintenanceNext, AppMain, CommandTask, Commands

-----------------------------------------------------------------------------
(* Updates.  A step of another task leaves them alone; app_main only gets on.  *)
LEMMA OtherTasks ==
  ASSUME StoredInv, UNCHANGED <<task, slot, selected, running, overlap>>,
         \/ UNCHANGED <<boot, claimed>>
         \/ boot = "load" /\ boot' = "mqtt" /\ claimed' = {}
         \/ boot # "load" /\ boot' \notin {"load", "mqtt"} /\ UNCHANGED claimed
  PROVE  OtaType' /\ OtaInv'
  BY DEF StoredInv, OtaType, OtaInv, Idle, Alone, Busy

(* After a restart no update runs, and if one that ran alone was reported its  *)
(* image was selected: it is the one that is booted.                           *)
LEMMA RebootStep ==
  ASSUME StoredInv, Reboots
  PROVE  OtaType' /\ OtaInv'
  <1> USE DEF StoredInv, OtaType, Reboots
  <1>1. task' \in [Updates -> TaskPcs] /\ Busy' = {} /\ boot' = "load" /\ selected' = FALSE
    BY DEF TaskPcs, Busy
  <1>2. running' \in Images /\ slot' \in [image : Images, whole : BOOLEAN]
    BY DEF Images
  <1>3. OtaType'
    BY <1>1, <1>2
  <1>4. ASSUME ~overlap', NEW u \in claimed PROVE running' = u
    <2>1. Alone /\ u \in Updates
      BY <1>4 DEF OtaInv
    <2>2. CASE boot = "load"
      BY <2>1, <2>2 DEF OtaInv, Idle, Alone
    <2>3. CASE boot # "load"
      <3>1. selected /\ slot = [image |-> u, whole |-> TRUE]
        BY <2>1, <2>3 DEF Alone
      <3>2. slot.image = u /\ slot.whole = TRUE
        BY <3>1
      <3> QED
        BY <3>1, <3>2
    <2> QED
      BY <2>2, <2>3
  <1>5. \A u \in Updates : task'[u] \in {"unsent", "ended"}
    OBVIOUS
  <1>6. ~overlap' => Alone'
    BY <1>1, <1>4, <1>5 DEF Alone
  <1> QED
    BY <1>1, <1>3, <1>6 DEF OtaInv, Idle

(* The steps of an update. *)
LEMMA UpdateStep ==
  ASSUME StoredInv, NEW u \in Updates, Ota(u)
  PROVE  OtaType' /\ OtaInv'
  <1> USE DEF StoredInv, OtaType
  <1>1. CASE OtaRestarts(u)
    BY <1>1, RebootStep DEF OtaRestarts
  <1>2. CASE OtaStarts(u)
    <2>1. /\ task' = [task EXCEPT ![u] = "begin"] /\ task[u] = "unsent" /\ boot' = boot
          /\ boot \notin {"load", "mqtt"} /\ UNCHANGED <<slot, selected, running, claimed>>
          /\ overlap' = (overlap \/ Busy # {})
      BY <1>2 DEF OtaStarts, UnchangedByOta, bootVars
    <2>2. OtaType'
      BY <2>1 DEF TaskPcs
    <2>3. ASSUME ~overlap' PROVE Alone'
      <3>1. Alone /\ Busy = {}
        BY <2>1, <2>3 DEF OtaInv
      <3>2. claimed = {}
        BY <2>1, <3>1 DEF Alone, Busy
      <3>3. \A v \in Updates : v # u => task'[v] \in {"unsent", "ended"}
        BY <2>1, <3>1 DEF Busy
      <3>4. task'[u] = "begin" /\ Busy' \subseteq {u}
        BY <2>1, <3>3 DEF Busy
      <3> QED
        BY <2>1, <3>2, <3>3, <3>4 DEF Alone
    <2> QED
      BY <2>1, <2>2, <2>3 DEF OtaInv, Idle
  <1>3. CASE OtaRefused(u)
    <2>1. /\ task' = [task EXCEPT ![u] = "ended"] /\ task[u] = "unsent" /\ boot' = boot
          /\ boot \notin {"load", "mqtt"} /\ UNCHANGED <<slot, selected, running, claimed, overlap>>
      BY <1>3 DEF OtaRefused, UnchangedByOta, bootVars
    <2>2. OtaType' /\ Busy' = Busy
      BY <2>1 DEF TaskPcs, Busy
    <2>3. ASSUME ~overlap' PROVE Alone'
      <3>1. Alone
        BY <2>1, <2>3 DEF OtaInv
      <3> QED
        BY <2>1, <2>2, <3>1 DEF Alone
    <2> QED
      BY <2>1, <2>2, <2>3 DEF OtaInv, Idle
  <1>4. CASE OtaErases(u) \/ OtaWrites(u) \/ OtaSelects(u) \/ OtaReports(u)
    <2>1. u \in Busy /\ boot' = boot /\ boot \notin {"load", "mqtt"} /\ UNCHANGED <<running, overlap>>
      BY <1>4 DEF OtaErases, OtaWrites, OtaSelects, OtaReports, Busy, OtaInv, Idle, UnchangedByOta, bootVars
    <2>2. OtaType'
      <3>1. CASE OtaErases(u)
        BY <3>1 DEF OtaErases, TaskPcs, Images
      <3>2. CASE OtaWrites(u)
        BY <3>2 DEF OtaWrites, TaskPcs
      <3>3. CASE OtaSelects(u)
        BY <3>3 DEF OtaSelects, TaskPcs
      <3>4. CASE OtaReports(u)
        BY <3>4 DEF OtaReports, TaskPcs
      <3> QED
        BY <1>4, <3>1, <3>2, <3>3, <3>4
    <2>3. ASSUME ~overlap' PROVE Alone'
      <3>1. Alone /\ Busy = {u}
        BY <2>1, <2>3 DEF OtaInv, Alone
      <3>2. \A v \in Updates : v # u => task[v] \in {"unsent", "ended"}
        BY <3>1 DEF Busy
      <3>3. \A v \in Updates : v # u => task'[v] = task[v]
        BY <1>4 DEF OtaErases, OtaWrites, OtaSelects, OtaReports
      <3>4. Busy' \subseteq {u}
        BY <3>2, <3>3 DEF Busy
      <3>5. claimed \subseteq {u} /\ (task[u] # "delay" => claimed = {})
        BY <2>1, <3>1, <3>2 DEF Alone
      <3>6. SUFFICES /\ task'[u] \in {"report", "delay"} => selected' /\ slot' = [image |-> u, whole |-> TRUE]
                     /\ \A v \in claimed' : v = u /\ task'[u] = "delay"
        BY <2>1, <3>2, <3>3, <3>4 DEF Alone
      <3>7. CASE OtaErases(u)
        BY <3>5, <3>7 DEF OtaErases
      <3>8. CASE OtaWrites(u)
        BY <3>5, <3>8 DEF OtaWrites
      <3>9. CASE OtaSelects(u)
        BY <3>5, <3>9 DEF OtaSelects
      <3>10. CASE OtaReports(u)
        <4>1. task[u] = "report" => selected /\ slot = [image |-> u, whole |-> TRUE]
          BY <3>1 DEF Alone
        <4> QED
          BY <3>5, <3>10, <4>1 DEF OtaReports
      <3> QED
        BY <1>4, <3>7, <3>8, <3>9, <3>10
    <2> QED
      BY <2>1, <2>2, <2>3 DEF OtaInv, Idle
  <1> QED
    BY <1>1, <1>2, <1>3, <1>4 DEF Ota

LEMMA OtaStep ==
  ASSUME StoredInv, [MaintenanceNext]_maintenanceVars
  PROVE  OtaType' /\ OtaInv'
  <1>1. CASE app_config_load
    BY <1>1, OtherTasks DEF app_config_load
  <1>2. CASE StartsMqtt \/ StartsCards \/ StartsQr \/ StartsCommands
    BY <1>2, OtherTasks DEF StartsMqtt, StartsCards, StartsQr, StartsReader, StartsCommands,
                            UnchangedByBoot, otaVars
  <1>3. CASE Reboots
    BY <1>3, RebootStep
  <1>4. CASE CommandTask
    BY <1>4, OtherTasks DEF CommandTask, CmdReceives, AnswersOnly, SetsRam, SavesAndAnswers,
                            UnchangedByCommands, bootVars, otaVars
  <1>5. ASSUME NEW c \in Commands, Arrives(c) PROVE OtaType' /\ OtaInv'
    BY <1>5, OtherTasks DEF Arrives, bootVars, otaVars
  <1>6. CASE HardwareChanges
    BY <1>6, OtherTasks DEF HardwareChanges, otaVars
  <1>7. CASE UNCHANGED maintenanceVars
    BY <1>7, OtherTasks DEF maintenanceVars, bootVars, otaVars
  <1> QED
    BY <1>1, <1>2, <1>3, <1>4, <1>5, <1>6, <1>7, UpdateStep DEF MaintenanceNext, AppMain, PowerCut, Aborts, Commands

LEMMA StoredInductive == MaintenanceSpec => []StoredInv
  <1>1. StoredInv /\ [MaintenanceNext]_maintenanceVars => StoredInv'
    BY ConfigStep, CmdStep, CountStep, OtaStep DEF StoredInv
  <1> QED
    BY StoredInvInit, <1>1, PTL DEF MaintenanceSpec

LEMMA StoredInvImplies == StoredInv => MaintenanceTypeOK /\ SettingsKept /\ ReportedImageRuns
  <1> SUFFICES ASSUME StoredInv PROVE MaintenanceTypeOK /\ SettingsKept /\ ReportedImageRuns
    OBVIOUS
  <1>1. MaintenanceTypeOK
    BY DEF StoredInv, ConfigType, BootType, CmdType, CountType, OtaType, MaintenanceTypeOK, TaskPcs, Images, Commands
  <1>2. SettingsKept
    BY DEF StoredInv, KeptInv, SettingsKept
  <1>3. ReportedImageRuns
    BY DEF StoredInv, OtaInv, Alone, ReportedImageRuns
  <1> QED
    BY <1>1, <1>2, <1>3

(* The state has its types, and a device that is up has a configuration of the *)
(* version of its program, whatever blob it was delivered with.                *)
THEOREM MaintenanceTypeCorrect == MaintenanceSpec => []MaintenanceTypeOK
  BY StoredInductive, StoredInvImplies, PTL

(* A device that is up has the value of enable_cards that was saved last, or   *)
(* one that a failed save or load has left in doubt: for any number of         *)
(* commands, failures of NVS and restarts between any two steps.               *)
THEOREM SettingsAreKept == MaintenanceSpec => []SettingsKept
  BY StoredInductive, StoredInvImplies, PTL

(* An update that was reported as installed and ran alone is what runs next,   *)
(* for any number of updates and restarts.                                     *)
THEOREM ReportedImageIsRun == MaintenanceSpec => []ReportedImageRuns
  BY StoredInductive, StoredInvImplies, PTL
=============================================================================
