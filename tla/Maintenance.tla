---------------------------- MODULE Maintenance ----------------------------
(***************************************************************************)
(* What outlives a restart: the stored configuration and the firmware.     *)
(* app_main loads the configuration, starts MQTT, the readers that the     *)
(* configuration asks for and only then the command task; getConfig and    *)
(* setConfig work on the copy in RAM; every otaUpdate is a task of its own *)
(* that writes the passive partition, reports and restarts the device.     *)
(*                                                                         *)
(* External: NVS, whose operations may fail; esp_https_ota, which writes   *)
(* an image, verifies it and selects it for the next boot; the bootloader, *)
(* which falls back on the running image if the selected one is damaged.   *)
(***************************************************************************)
EXTENDS Integers, Sequences, FiniteSets

CONSTANTS
  Updates,      \* otaUpdate messages, each with an image of its own
  Factory,      \* the image the device is delivered with
  MaxCommands,  \* bound: getConfig and setConfig messages
  MaxFaults,    \* bound: failures of NVS
  MaxRestarts   \* bound: restarts other than those of an update

ASSUME MaintenanceAssumption ==
  /\ Factory \notin Updates
  /\ MaxCommands \in Nat /\ MaxFaults \in Nat /\ MaxRestarts \in Nat

VARIABLES
  flash,     \* the blob "cfg", or NoBlob
  config,    \* g_app_config
  boot,      \* where app_main is
  readers,   \* the reader tasks started
  works,     \* the reader hardware can be initialised
  cmdQ,      \* cmd_queue
  cmdPc,     \* the command task
  cmd,
  commands,  \* messages sent so far
  faults,    \* failures of NVS so far
  restarts,  \* restarts so far, other than those of an update
  task,      \* where the task of each update is
  slot,      \* the passive partition: whose image, and if it is whole
  selected,  \* the passive partition is to be booted next
  running,   \* the image that runs
  kept,      \* history: the values of enable_cards a restart may bring back
  claimed,   \* history: the images reported as installed in this run of the program
  overlap    \* history: two updates have run at once

bootVars == <<boot, readers, works>>
cmdVars == <<cmdQ, cmdPc, cmd, commands>>
otaVars == <<task, slot, selected, running, claimed, overlap>>
maintenanceVars == <<flash, config, kept, bootVars, cmdVars, faults, restarts, otaVars>>

CFG_VERSION == 1
NoBlob == [version |-> -1, cards |-> FALSE, qr |-> FALSE]
Blob == [version : {0, CFG_VERSION}, cards : BOOLEAN, qr : BOOLEAN]

(* setConfig with "enableCards", without it, without "config" and malformed.   *)
Sets == {[do |-> "set", cards |-> v] : v \in {TRUE, FALSE}}
Others == {[do |-> d, cards |-> FALSE] : d \in {"get", "setOther", "setNothing", "malformed"}}
NoCmd == [do |-> "none", cards |-> FALSE]

MaintenanceInit ==
  /\ flash \in {NoBlob, [version |-> 0, cards |-> TRUE, qr |-> FALSE],
                [version |-> CFG_VERSION, cards |-> TRUE, qr |-> TRUE]}
  /\ config = [version |-> 0, cards |-> FALSE, qr |-> FALSE]
  /\ boot = "load" /\ readers = {} /\ works = TRUE
  /\ cmdQ = << >> /\ cmdPc = "off" /\ cmd = NoCmd /\ commands = 0
  /\ faults = 0 /\ restarts = 0
  /\ task = [u \in Updates |-> "unsent"] /\ slot = [image |-> Factory, whole |-> FALSE]
  /\ selected = FALSE /\ running = Factory
  /\ kept = {IF flash.version = CFG_VERSION THEN flash.cards ELSE FALSE}
  /\ claimed = {} /\ overlap = FALSE

-----------------------------------------------------------------------------
(* app_config.c.                                                               *)
Defaults == [version |-> CFG_VERSION, cards |-> FALSE, qr |-> TRUE]

NvsFault == faults < MaxFaults /\ faults' = faults + 1
NoFault == UNCHANGED faults

(* Mutation: nvs_commit is left out, and what was written may not last. *)
SaveWithoutCommit ==
  /\ NoFault
  /\ flash' \in {flash, [config' EXCEPT !.version = CFG_VERSION]}

(* app_config_save: nvs_open, nvs_set_blob and nvs_commit.  When one of them   *)
(* fails, or the device goes down between them, the old blob or the new one is *)
(* there; both callers ignore the result.                                      *)
app_config_save ==
  LET new == [config' EXCEPT !.version = CFG_VERSION] IN
  \/ NoFault /\ flash' = new
  \/ NvsFault /\ flash' \in {flash, new}

(* Mutation: the version of the blob is not compared. *)
LoadAnyVersion ==
  /\ boot = "load" /\ boot' = "mqtt"
  /\ config' = IF flash = NoBlob THEN Defaults ELSE flash
  /\ NoFault /\ UNCHANGED <<flash, kept, readers, works, cmdVars, restarts, otaVars>>

(* nvs_flash_init and app_config_load.  Defaults stand in for a blob that is   *)
(* not there, cannot be opened or was erased with the partition, and are not   *)
(* saved; they replace, and are saved over, one that cannot be read or has     *)
(* another version.                                                            *)
app_config_load ==
  /\ boot = "load"
  /\ boot' = "mqtt"
  /\ \/ flash = NoBlob /\ config' = Defaults /\ NoFault /\ UNCHANGED <<flash, kept>>
     \/ flash.version = CFG_VERSION /\ config' = flash /\ NoFault /\ UNCHANGED <<flash, kept>>
     \/ flash.version = 0 /\ config' = Defaults /\ app_config_save /\ UNCHANGED kept
     \/ /\ flash # NoBlob /\ NvsFault
        /\ config' = Defaults /\ flash' \in {flash, Defaults, NoBlob}
        /\ kept' = kept \cup {Defaults.cards}
  /\ claimed' = {}
  /\ UNCHANGED <<readers, works, cmdVars, restarts, task, slot, selected, running, overlap>>

-----------------------------------------------------------------------------
(* app_main after app_config_load: MQTT, readers, commands.                    *)
UnchangedByBoot == UNCHANGED <<flash, config, kept, works, faults, otaVars>>

StartsMqtt ==
  /\ boot = "mqtt" /\ boot' = "cards"
  /\ UNCHANGED <<readers, cmdVars, restarts>> /\ UnchangedByBoot

StartsReader(at, next, kind, enabled) ==
  /\ boot = at /\ (enabled => works)
  /\ boot' = next
  /\ readers' = IF enabled THEN readers \cup {kind} ELSE readers
  /\ UNCHANGED <<cmdVars, restarts>> /\ UnchangedByBoot

StartsCards == StartsReader("cards", "qr", "cards", config.cards)
StartsQr == StartsReader("qr", "commands", "qr", config.qr)

(* Mutation: the command task is started with the card readers only. *)
StartsCommandsWithCards ==
  /\ boot = "commands" /\ boot' = "up"
  /\ cmdPc' = IF config.cards THEN "receive" ELSE "off"
  /\ UNCHANGED <<readers, cmdQ, cmd, commands, restarts>> /\ UnchangedByBoot

StartsCommands ==
  /\ boot = "commands" /\ boot' = "up"
  /\ cmdPc' = "receive"
  /\ UNCHANGED <<readers, cmdQ, cmd, commands, restarts>> /\ UnchangedByBoot

(* RAM is lost; the bootloader takes the selected image if it is whole.        *)
Reboots ==
  /\ boot' = "load" /\ readers' = {}
  /\ config' = [version |-> 0, cards |-> FALSE, qr |-> FALSE]
  /\ cmdQ' = << >> /\ cmdPc' = "off" /\ cmd' = NoCmd
  /\ task' = [u \in Updates |-> IF task[u] = "unsent" THEN "unsent" ELSE "ended"]
  /\ running' = IF selected /\ slot.whole THEN slot.image ELSE running
  /\ slot' = IF selected /\ slot.whole THEN [image |-> running, whole |-> TRUE] ELSE slot
  /\ selected' = FALSE
  /\ UNCHANGED <<flash, kept, works, commands, faults, claimed, overlap>>

(* ESP_ERROR_CHECK aborts when a reader that is enabled cannot be initialised. *)
Aborts ==
  /\ \/ boot = "cards" /\ config.cards
     \/ boot = "qr" /\ config.qr
  /\ ~works
  /\ Reboots
  /\ UNCHANGED restarts

PowerCut == restarts < MaxRestarts /\ restarts' = restarts + 1 /\ Reboots

-----------------------------------------------------------------------------
(* The command task.  Messages arrive once MQTT is started.                    *)
Arrives(c) ==
  /\ boot \notin {"load", "mqtt"}
  /\ commands < MaxCommands /\ commands' = commands + 1
  /\ cmdQ' = Append(cmdQ, c)
  /\ UNCHANGED <<flash, config, kept, bootVars, cmdPc, cmd, faults, restarts, otaVars>>

UnchangedByCommands == UNCHANGED <<bootVars, commands, restarts, otaVars>>

CmdReceives ==
  /\ cmdPc = "receive" /\ cmdQ # << >>
  /\ cmd' = Head(cmdQ) /\ cmdQ' = Tail(cmdQ) /\ cmdPc' = "handle"
  /\ UNCHANGED <<flash, config, kept, faults>> /\ UnchangedByCommands

(* getConfig, and setConfig when it saves nothing: malformed JSON gets no      *)
(* answer, a message without "config" gets ok: true.                           *)
AnswersOnly ==
  /\ cmdPc = "handle" /\ cmd.do \in {"get", "setNothing", "malformed"}
  /\ cmd' = NoCmd /\ cmdPc' = "receive"
  /\ UNCHANGED <<flash, config, kept, cmdQ, faults>> /\ UnchangedByCommands

(* setConfig writes enable_cards in RAM ...                                    *)
SetsRam ==
  /\ cmdPc = "handle" /\ cmd.do \in {"set", "setOther"}
  /\ config' = IF cmd.do = "set" THEN [config EXCEPT !.cards = cmd.cards] ELSE config
  /\ kept' = kept \cup {config'.cards}
  /\ cmdPc' = "save"
  /\ UNCHANGED <<flash, cmdQ, cmd, faults>> /\ UnchangedByCommands

(* ... saves it, and answers ok: true whether or not that worked.              *)
SavesAndAnswers ==
  /\ cmdPc = "save"
  /\ UNCHANGED config /\ app_config_save
  /\ kept' = IF faults' = faults THEN {config.cards} ELSE kept
  /\ cmd' = NoCmd /\ cmdPc' = "receive"
  /\ UNCHANGED cmdQ /\ UnchangedByCommands

-----------------------------------------------------------------------------
(* ota_task, and esp_https_ota (external).                                     *)
UnchangedByOta == UNCHANGED <<flash, config, kept, bootVars, cmdVars, faults, restarts>>
Busy == {u \in Updates : task[u] \notin {"unsent", "ended"}}

(* otaUpdate: ota_start_async creates the task, or the answer is KO.           *)
OtaStarts(u) ==
  /\ boot \notin {"load", "mqtt"} /\ task[u] = "unsent"
  /\ task' = [task EXCEPT ![u] = "begin"]
  /\ overlap' = (overlap \/ Busy # {})
  /\ UNCHANGED <<slot, selected, running, claimed>> /\ UnchangedByOta

OtaRefused(u) ==
  /\ boot \notin {"load", "mqtt"} /\ task[u] = "unsent"
  /\ task' = [task EXCEPT ![u] = "ended"]
  /\ UNCHANGED <<slot, selected, running, claimed, overlap>> /\ UnchangedByOta

(* The passive partition is erased, then written.                              *)
OtaErases(u) ==
  /\ task[u] = "begin" /\ task' = [task EXCEPT ![u] = "write"]
  /\ slot' = [image |-> u, whole |-> FALSE]
  /\ UNCHANGED <<selected, running, claimed, overlap>> /\ UnchangedByOta

OtaWrites(u) ==
  /\ task[u] = "write" /\ task' = [task EXCEPT ![u] = "verify"]
  /\ slot' = [slot EXCEPT !.whole = (slot.image = u)]
  /\ UNCHANGED <<selected, running, claimed, overlap>> /\ UnchangedByOta

(* The image is verified and selected for the next boot.                       *)
OtaSelects(u) ==
  /\ task[u] = "verify" /\ slot = [image |-> u, whole |-> TRUE]
  /\ task' = [task EXCEPT ![u] = "report"] /\ selected' = TRUE
  /\ UNCHANGED <<slot, running, claimed, overlap>> /\ UnchangedByOta

(* Mutation: the result of esp_https_ota is not looked at. *)
OtaSucceeds(u) ==
  /\ task[u] \in {"begin", "write", "verify", "report"}
  /\ task' = [task EXCEPT ![u] = "delay"] /\ claimed' = claimed \cup {u}
  /\ UNCHANGED <<slot, selected, running, overlap>> /\ UnchangedByOta

(* retornoOta goes to mqtt_out_queue; after success the task waits a second.   *)
OtaReports(u) ==
  /\ \/ /\ task[u] = "report" /\ task' = [task EXCEPT ![u] = "delay"]
        /\ claimed' = claimed \cup {u}
     \/ /\ task[u] \in {"begin", "write", "verify"} /\ task' = [task EXCEPT ![u] = "ended"]
        /\ UNCHANGED claimed
  /\ UNCHANGED <<slot, selected, running, overlap>> /\ UnchangedByOta

(* esp_restart, whatever the other tasks are doing.                            *)
OtaRestarts(u) == task[u] = "delay" /\ Reboots /\ UNCHANGED restarts

HardwareChanges ==
  /\ works' = ~works
  /\ UNCHANGED <<flash, config, kept, boot, readers, cmdVars, faults, restarts, otaVars>>

-----------------------------------------------------------------------------
AppMain == app_config_load \/ StartsMqtt \/ StartsCards \/ StartsQr \/ StartsCommands \/ Aborts
CommandTask == CmdReceives \/ AnswersOnly \/ SetsRam \/ SavesAndAnswers
Ota(u) ==
  OtaStarts(u) \/ OtaRefused(u) \/ OtaErases(u) \/ OtaWrites(u) \/ OtaSelects(u)
  \/ OtaReports(u) \/ OtaRestarts(u)

MaintenanceNext ==
  \/ AppMain \/ CommandTask \/ PowerCut \/ HardwareChanges
  \/ \E c \in Sets \cup Others : Arrives(c)
  \/ \E u \in Updates : Ota(u)

(* FreeRTOS runs app_main and the command task.                                *)
MaintenanceSpec ==
  /\ MaintenanceInit /\ [][MaintenanceNext]_maintenanceVars
  /\ WF_maintenanceVars(AppMain) /\ WF_maintenanceVars(CommandTask)

-----------------------------------------------------------------------------
(* The state has its types, and once app_main has loaded it the configuration  *)
(* is one of this version.                                                     *)
MaintenanceTypeOK ==
  /\ boot # "load" => config.version = CFG_VERSION
  /\ flash \in Blob \cup {NoBlob} /\ config \in Blob
  /\ boot \in {"load", "mqtt", "cards", "qr", "commands", "up"}
  /\ readers \subseteq {"cards", "qr"} /\ works \in BOOLEAN
  /\ cmdQ \in Seq(Sets \cup Others) /\ cmdPc \in {"off", "receive", "handle", "save"}
  /\ cmd \in Sets \cup Others \cup {NoCmd}
  /\ task \in [Updates -> {"unsent", "begin", "write", "verify", "report", "delay", "ended"}]
  /\ slot.image \in Updates \cup {Factory} /\ running \in Updates \cup {Factory}
  /\ selected \in BOOLEAN /\ overlap \in BOOLEAN
  /\ commands \in 0..MaxCommands /\ faults \in 0..MaxFaults /\ restarts \in 0..MaxRestarts
  /\ kept \subseteq BOOLEAN

(* What the server was told with ok: true outlives every restart if the save   *)
(* worked: a device that is up has the last value of enable_cards saved, one   *)
(* that a failed or interrupted save, or a failed load, leaves in doubt, and   *)
(* never one from a blob of another version (app_config.c, commands.c:180).    *)
SettingsKept == boot # "load" => config.cards \in kept

(* An update that was reported as installed is what runs after a restart, if   *)
(* no other update ran at the same time: two of them write one partition       *)
(* (ota_manager.c:31-72).                                                      *)
ReportedImageRuns == (boot = "load" /\ ~overlap) => claimed \subseteq {running}

(* If the readers that are enabled can always be initialised in the end, a     *)
(* command that is queued is executed or lost with a restart, whatever is      *)
(* enabled: app_main gets as far as commands_start_task (main.c:83-97).        *)
CommandsServed == <>[]works => (cmdQ # << >> ~> cmdQ = << >>)
=============================================================================
