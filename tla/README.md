# A verification of the turnstile firmware

The repository holds the firmware of an ESP32-S3 that runs the turnstiles, lights and doors of a
padel club. A server talks to it through an MQTT broker; people talk to it with cards (two RC522
readers, entry and exit) and QR codes (a GM861S reader). This directory holds TLA+ models of the
firmware, the configurations that check them with TLC, and proofs checked with TLAPS.

Everything is translated from `src/main/` and from the two vendored libraries it leans on, esp-mqtt
(`src/managed_components/espressif__mqtt/`) and cJSON (`src/managed_components/espressif__cjson/`). FreeRTOS, the Wi-Fi
driver, NVS, esp_https_ota, the broker, the server, the scanner and the cards are not in the repository: they are modelled
from how the code uses them and marked external in `PROJECT.json`.

## 1. Inventory

| component | state it keeps | operations |
|---|---|---|
| MQTT manager (`mqtt_manager.c`) | `s_mqtt_connected`, `mqtt_out_queue` (64) | event handler (CONNECTED, DISCONNECTED, DATA), `mqtt_enqueue` (waits 50 ms), `mqtt_out_task`, `status_task` |
| command task (`commands.c`) | the pins, `cmd_queue` (64) | `handle_command`: pulses, switches, getConfig, setConfig, writeCard, hasAccess |
| esp-mqtt (`mqtt_client.c`, `mqtt_outbox.c`, `mqtt_msg.c`, vendored) | client state, API lock (recursive mutex), outbox, input buffer | task loop, abort, dispatch of events, publish, resend, expire, receive |
| cJSON (`cJSON.c`, vendored) | items linked by pointers | parse, print, add, detach, replace, copy, delete |
| card task (`rc522_reader.c`) | the gate `s_access_in_flight`, debounce per reader | read a card, debounce, take the gate, ask for access; give the gate back |
| card writing, RC522 registers (`rc522_reader.c`) | SPI mutex, registers of a chip | request, anticollision, select, authenticate, read, write |
| QR reader (`gm861s_reader.c`) | receive buffer, debounce | parse frames, ask for access |
| Wi-Fi manager (`wifi_manager.c`) | `s_wifi_connected`, index of the network, retry count | handler of Wi-Fi and IP events, rotation of networks |
| LED (`led_status.c`) | `s_led_mode`, written by the two handlers | show the mode |
| configuration (`app_config.c`) | `g_app_config`, an NVS blob with a version | defaults, load, save |
| update (`ota_manager.c`) | one task per update | download, answer, reboot |
| boot (`main.c`), settings (`config.h`, `config.c`) | | creates queues and tasks |

How they interact:

    broker -> esp-mqtt task, lock held -> event handler -> cmd_queue -> command task -> pins
                                                                          |    `-> gives the gate back
      card task, QR task, status task, OTA task, event handler -----------+
                                                          v
    broker <- esp_mqtt_client_publish, lock taken <- mqtt_out_task <- mqtt_out_queue

    system event task -> wifi_event_handler -> s_wifi_connected, s_mqtt_connected, s_led_mode
    esp-mqtt task     -> event handler      -> s_mqtt_connected, s_led_mode

What is hard here:

* Blocking in a circle. The event handler waits without limit for `cmd_queue` while its task holds the
  API lock; the command task that empties the queue fills `mqtt_out_queue`; its reader needs the lock.
* Delivery. Commands come at QoS 1 over a persistent session: a lost acknowledgement repeats them, a
  reboot forgets those that were acknowledged. Answers at QoS 0 are lost with the connection.
* A flag read and used later. `mqtt_out_task` and the readers test `s_mqtt_connected` and act on it
  after it may have changed.
* Two tasks, no lock. The Wi-Fi handler and the MQTT handler write the same flag and the same LED mode.
* Time. The gate expires after 3 s although the answer may still come; answers do not say which request
  they answer; the debounce records cards that the gate then refuses.
* One chip, two conversations. `rc522_task` reads the exit reader while the command task writes a card there; the
  mutex covers one register access.
* Bytes in any pieces. The scanner's UART and the MQTT stream are cut anywhere; each parser goes on where it stopped.
* Restarts. A boot loop, a save that was interrupted, two updates at once, a report before its restart.
* Fixed sizes. A message is copied into 255 bytes and parsed again by another task; answers are cut to 255 bytes.

What makes each component correct, in a sentence: commands are executed in order and once per delivery; the gate lets one
question out at a time and locks nobody out; flags are right at rest; a card reported as written is written; codes come out
of the QR reader as they were shown; QoS 1 messages are kept until the broker has them or they are too old; the stream is cut
into the messages that were sent; an answer names its request; settings and images survive what was promised of them.

`PROJECT.json` lists each hazard at its line with the properties that watch it.

## 2. Modules

| module | models | composes |
|---|---|---|
| `CommandService` | the promise: accepted commands are executed in order, one at a time | abstract |
| `CommandPipeline` | handler, queues, command task, output task, lock, broker session | implements `CommandService` |
| `AccessGate` | card task, debounce, gate; time as ages, finite without a bound | |
| `AccessRequests` | the gate with the server, the answers, QR requests and the turnstiles | extends `AccessGate`, conjoins its actions |
| `CardBus` | two tasks, one RC522: reading and writing a card, exchange by exchange | |
| `QrReader` | bytes, the two parsers, the buffer, the debounce of codes | |
| `Connectivity` | the two event handlers, step by step, over driver and client | |
| `Maintenance` | boot, stored configuration, setConfig, updates, restarts | |
| `MqttOutbox` | what becomes of a QoS 1 message in esp-mqtt | |
| `MqttMsg` | MQTT 3.1.1 packets as bytes: building and reading them | functions |
| `MqttStream` | the reception of packets from a stream cut anywhere | extends `MqttMsg` |
| `JsonText` | cJSON: parsing, unformatted printing | functions |
| `CommandText` | every document of the command path, with the sizes of its fields | extends `JsonText` |
| `JsonLists` | the promise: an item holds a list of items, and is held once | abstract |
| `JsonItems` | cJSON: items, pointers, allocation that fails | implements `JsonLists` |
| `*Proofs` | inductive invariants and theorems | extend their module; `DeviceProofs` extends `Connectivity` and `Maintenance` |
| `MC*` | values for TLC | |

### CommandPipeline

Two queues, one lock, three program counters. `lock` is the esp-mqtt API lock while it is held *across*
actions, that is while an event handler runs: by the esp-mqtt task (`"mqtt"`) or by the output task, when
its own failed write aborts the connection (`"out"`, `esp_mqtt_abort_connection` dispatches the event in
the caller's context). An iteration of the client's loop that runs no handler only touches what the lock
guards, so it is one action.

| variable | code |
|---|---|
| `brokerQ`, `readPos`, `acks`, `published` | the broker's session and the TCP stream (external) |
| `clientState`, `lock`, `mqttPc`, `mqttMsg` | `client->state`, `MQTT_API_LOCK`, the esp-mqtt task and its message |
| `connected` | `s_mqtt_connected` |
| `cmdQ`, `cmdPc`, `cmd`, `handled` | `cmd_queue`, `gpio_command_task`, its command, history |
| `outQ`, `outPc`, `outMsg` | `mqtt_out_queue`, `mqtt_out_task`, its message |
| `drops`, `lostQos0`, `restarts`, `events` | counts for bounds and properties |
| `unparsed` | history: the commands the handler had no memory to parse (`mqtt_manager.c:179`) |

Messages are members of five sets, told apart by what the code does with them: answered at QoS 0
(`PulseCmds`), answered at QoS 1 (`JsonCmds`), dropped without an answer (`SilentCmds`: unknown action,
document that does not parse), `otaUpdate` (`OtaMsgs`), and payloads the handler consumes
without effect (`BadMsgs`). Any command may meet a parser without memory (`CannotParse`): it is acknowledged and gone, at most
`MaxUnparsed` commands are. `Enqueue` is `mqtt_enqueue`: the wait of 50 ms is every interleaving before it, and
what finds no room then is dropped. `ProducerPublishes` stands for the four tasks that publish on their own; it
leaves out their test of the flag, which only allows more.

### AccessGate and AccessRequests

`AccessGate` is the card task alone. The gate and each debounce keep the time since they were last set,
cut off where the code stops telling ages apart, so the state space is finite without bounding the
run and liveness can be checked. `AccessRequests` conjoins the same actions with a log of
requests, the server's answers in any order and at any time, QR requests that pass the gate by, and the
command task that gives the gate back for every `hasAccess`, whatever it answers. Here time is also a
bounded clock, because the properties speak of the age of each request.

`ReadNothing` covers every way in which a card is not read. `Sends(ok)` covers a full queue and a
document that could not be built: the gate is then kept with no answer to come. The answer to a QR gives the gate back while a
card request waits for its own; `foreign` counts these answers and `OneWaiting` allows for them.

### CardBus

A conversation is a sequence of exchanges (request, anticollision, select, authenticate, read or write), each with the
checks and early returns of `rc522_read_card_block8` and `rc522_write_card_block8`. An exchange is four steps, each
atomic: load the frame, start it, wait for its end and read the level of the FIFO, read the data. Between any two of them
the other task may do a step of its own on the same FIFO, framing register and Crypto1 bit. What finer interleavings
add is a frame the card does not take: `Start` allows that of every frame. And once the other task has used the chip, the interrupt
that ends a wait may be the other's, in the middle of a transmission: then any part of the answer may be in the FIFO (`Levels`), a part of
it may be read, and what comes behind is left to the other task (`Readings`, `Remains`). The card is a state machine that takes each frame
only in its place, framing and encryption. Two cards come and go at every step. The entry reader is left out: it is another
chip.

### QrReader

The two parsers are functions on byte sequences. `ReadBytes` returns any number of the bytes that are there, so frames are
cut everywhere; what the buffer has no room for is lost. The codes of the run are made of printable characters, so a byte of a code
that is taken for a length is between 32 and 126. A code of three letters, whose length byte is the byte that begins a
frame, is left out of what `WrongOnlyByLoss` bounds, and so is a code with a line break in it: with one, TLC finds texts that are no
code without any loss, when a read ends behind the break and the line parser takes the frame line by line. A code that ends in a blank is
left out too: as a line it loses the blank. `PlainCodes` in `QrReaderProofs` says so of any set of codes. What is found goes on as a C string
of 255 bytes at most (`CText`), so a text with a zero in it is cut there and one that begins with a zero is passed over.

### Connectivity

Each read and each write of a shared flag is an action. The driver posts events; `wifi_event_handler`
takes them in order; the MQTT handler runs whenever the client sees a connection come or go. `esp_wifi_connect`
without effect on a busy station, a failing one and a failing `esp_wifi_set_config` are all in. The handler looks at none of these
results, and nothing but a disconnection makes it try again: after a failing `esp_wifi_connect` (`wifi_manager.c:50` and `74`) the station may stay
idle for good. `refused` is the history of that, and `FindsNetwork` promises nothing behind it.

### Maintenance

`app_main` is a sequence of steps; a reader that is enabled and cannot be initialised aborts it (`Aborts`), and the device
restarts. NVS may fail in any call, and a power cut may come at any step (`PowerCut`). `kept` is the history of what a restart may
bring back: the value saved last and every value a failed or interrupted save left in doubt. Every update is a task; all write one partition
(`slot`); `overlap` records that two ran at once.

### MqttOutbox, MqttMsg, MqttStream

`MqttOutbox` has the list of `mqtt_outbox.c` and what publishing, one pass of the task, subscribing and expiry do to it. Every
public call and every pass hold the API lock, so each is one action. TCP keeps the order; a link may be dead before either end
knows (`alive`). `clash` is the history of two messages that went by one id.

`MqttMsg` builds and reads packets as sequences of bytes. `mqtt_msg_publish` makes the packets of the broker here, so a message that does not fit its
buffer, or goes out in fragments, is left out of it. `MqttStream` is `mqtt_message_receive` with one action for each
read that may return less than was asked for, `deliver_publish` with one action for each piece, and the acknowledgement. `inStep` is
the history of comparing every message taken with the one that was sent.

### JsonText, CommandText, JsonItems, JsonLists

A text is a sequence of symbols, where the names and numbers of the protocol are one symbol each with the bytes they have. Parsing and
printing are recursive functions with the nesting limit, the escapes, surrogate pairs, the NUL that ends a C string, and the
buffer that printing grows. White space is a space, a line feed and one more byte below 32; a byte order mark may come first, or anywhere else.
`CommandText` composes them: the handler parses the message and fills `command_t`, the command task
parses the copy of the message again, the answer is built with cJSON or with `snprintf` and cut on its way. An `otaUpdate` is
refused at once or given to `ota_task`, which answers later; all eight actions on pins are in, with the `estat` and `idPista` of their answers.

`JsonItems` has `next`, `prev` and `child` of every item, and every public function the firmware or cJSON itself uses to link, unlink,
copy and free them, each of which may find no memory. It is a check of the library: the firmware itself does not call the functions that detach,
insert and replace. The caller deletes and gives away only what it holds. What is freed is the
least set that follows `next` and `child`, and what a function builds from new items (`Parse`, `Duplicate`) is given by the lists it links
(`Linked`): a document or a copy that fails half way is deleted before the function returns, and leaves nothing. The list an item stands
for is read along `next` (`Chain`); `JsonLists` has these lists and no pointers, and one action for each kind of change. Its `Build`
says of a parsed or copied item only that it is made of memory that was free and has each new item in one place.

## 3. Runs

All but `mqtt_stream` keep TLC's deadlock check; there the last connection allowed may end. Times are for two workers.

| run | question | bounds | time |
|---|---|---|---|
| `pipeline_safety` | redelivery, reboots, flag against client, QoS 0 losses | 2 commands, 1 malformed message, queues of 1, 1 drop, 1 reboot, memory short for 1 command | 30 s |
| `pipeline_liveness` | refinement of `CommandService`; handler returns; everything published is executed; output drains | 2 commands, 1 OTA, queues of 2 and 1, 1 drop, 1 reboot, memory never short | 150 s |
| `gate_liveness` | no lockout of a lone card | 2 cards, timeout 10 ticks, debounce 3 | 40 s |
| `gate_requests` | one waiting request; refusals | 2 card requests, 1 QR, 1 repeated answer, clock to 3, timeout 1 | 60 s |
| `connectivity_networks` | rotation, flag at rest, flags come back | 3 networks, 2 retries, every driver call may fail, TCP dies with the Wi-Fi | 3 s |
| `card_writing` | two conversations on one chip | 2 cards, 1 text, 2 commands | 75 s |
| `qr_reader` | parsers over any cuts, losses, full buffer, debounce | codes of 9 and 35 letters, buffer of 37 and reads of 6, 39 bytes in the UART, 2 losses | 50 s |
| `outbox` | when messages leave the outbox | 2 messages, 2 connections, 5 ids, expiry after 2 retransmission times, 2 packets on the way | 40 s |
| `maintenance` | restarts against settings, images, commands | 2 updates, 1 command, 2 failures of NVS, 2 restarts | 75 s |
| `mqtt_stream` | framing over any cuts, long messages | buffer of 10, 2 messages out of 5, 2 connections | 45 s |
| `command_text` | documents in and out, cuts, escapes | over 2400 messages, fields and URL of 4, payload of 34, nesting of 3 | 20 s |
| `json_items` | pointers against lists | 4 items, 2 names | 70 s |

Why the bounds are enough. The circle of waits needs one command in hand, one in `cmd_queue`, one in the
handler, and `mqtt_out_queue` full with a message in the output task's hands: an OTA answer and two commands with an output queue of 1
reach it; longer queues only delay it. Repetition and the loss of an answer
need one lost connection; that more of them do not add up is proved (`LossBounded`). A rotation that
skips or repeats shows with three networks. The gate needs two requests, so that one can take it
while another waits; the third actor is the QR. With a timeout of 10 and a debounce of 3, a card is
refused three times within a timeout, as with 3000 ms and 900 ms. A second writeCard meets what the first one and the reader
left on the chip; a second card is what an exchange of cards needs. One of the two codes has a tab for its
length, so that the line parser cuts into an incomplete frame; the other is longer than its letter `!` read as a length (33), which is
what makes two wrong texts of one lost length byte. A frame of the longer one is two bytes more than the buffer holds. Two messages and five ids let an id
be drawn twice. The long PUBLISH has two length bytes and goes in pieces; an acknowledgement has an identifier whose first byte is over
127. A list of three items inside a fourth has a first, a middle and a last one.

What they show:

* `ExecutedTwiceOnlyByLoss`: a relay moves twice for one command only if a connection or the device went
  down, once each time. `LostOnlyByRestart`: only a reboot or a parser without memory loses commands, the reboot
  at most `cmd_queue` and the one in hand; what is blocked in the handler is not acknowledged yet and comes again. With the two commands of
  the run a reboot cannot take more than that anyway, so what the run shows is that nothing else loses one; that the bound holds with
  more commands is the theorem `LossByRestartBounded`.
* `FlagNotAhead`, `LossPerDrop`: testing the flag before publishing is not atomic with publishing, and that costs
  at most one QoS 0 answer per lost connection.
* `ServiceSpec`: the refinement, safety and liveness.
* `HandlerReturns`: no circular wait. It holds because `mqtt_enqueue` gives up after 50 ms; with `portMAX_DELAY`
  there TLC finds the circle (that is its mutant).
* `PublishedIsExecuted`, `OutputDrains`: once link and flag stay, all published commands are executed and the
  queue is drained. That the flag does stay is `Recovers`. A command without memory to parse is excused; the run has none.
* `LoneCardServed`: refusals restart a card's debounce and still never lock it out.
* `OneWaiting`, `RefusedOnlyWhileWaiting`: what the gate does guarantee although answers carry no
  name: one question at a time plus one for each answer that was not awaited, no refusal without a reason.
* `WifiFlagSettles`, `FindsNetwork`, `Recovers`: `s_wifi_connected` is right at rest, both flags come back whichever task wrote last, the network in
  range is found unless `esp_wifi_connect` failed.
* `ReportedIsWritten`, `WrittenInCommand`, `OneCardUnlessUnheard`: an `ok` of writeCard is never wrong about the text, a command writes
  nothing after its answer, and a second card only after an acknowledgement was lost. `UndisturbedNamesItsCard` and
  `UndisturbedReadsTruth` need that no step of the other task fell into the conversation: without that, TLC shows a UID or a text
  taken from the bytes of the other conversation.
* `WrongOnlyByLoss`: cuts never produce a wrong code, also where the line parser eats the beginning of a frame; a loss
  costs at most two: a frame without its length byte lends its first letter as a length, and what is behind that many bytes is a
  line. `HeldBackBriefly`: showing a code again does not prolong its debounce.
* `GoneOnlyIfDone`, `QueuedIsUnsent`: the outbox gives up on age alone, or if a random id was drawn twice.
* `SettingsKept`, `ReportedImageRuns`, `CommandsServed`: what was saved and what was reported hold after any restarts; with two
  updates at once the second claim is out. The device gets out of a boot loop only because the readers come to work.
* `InStepUnless`, `NothingHeldBack`, `AckedIsWhole`: the framing holds over any cuts but for two cases the code has: a receive resumed
  behind a byte over 127 (`mqtt_client.c:1284`), and a long PUBLISH whose rest is late (`mqtt_client.c:1161`), which is
  acknowledged although it was not delivered whole. Without the exceptions TLC finds both.
* `AnswerNamesRequest`, `CopyReadsAlike`: an answer is a document with the `idPeticion` of its request, unless it was cut or
  `snprintf` put a special character in it; the cut copy never parses to something else. `PrintsInside`, `ReadsWhatItPrints`:
  the two passes of the printer agree.
* `NothingLost`, `ListsSpec`: no order of calls and no failure of memory breaks the lists.

## 4. Fairness

* Tasks of FreeRTOS that are ready run: weak fairness of the command task, of a handler that has been
  entered, of the card task, of both event handlers, of `app_main`.
* `mqtt_out_task` competes with the esp-mqtt task for the API lock; that task waits for data up to a
  second without it between iterations, so the lock is free again and again: strong fairness of
  `OutPublishes \/ OutPublishFails`.
* Nothing obliges the broker, the server, people, losses or reboots. `PublishedIsExecuted` and `Recovers` assume a
  stable link in the property instead, `CommandsServed` readers that come to work. `LoneCardServed` assumes that a card left on a reader is
  read again and again (strong fairness of `ReadCard`) and that time passes.
* In `Connectivity` a network in range and a broker that can be reached accept in the end (strong), every association
  ends, and a configuration is not refused for ever. `Recovers` also assumes `TcpSurvives = FALSE`: when the station loses
  its access point the network interface loses its address and lwIP, as configured by default, drops the
  connection. If a build kept it (`TcpSurvives = TRUE`) the flag would stay cleared on a working connection, since only
  MQTT_EVENT_CONNECTED sets it: with that value TLC finds `Recovers` violated.

## 5. Proofs

Each proof module has an inductive invariant (`IInv`; two in `CardBusProofs`, `CommandPipelineProofs` and `DeviceProofs`), proved to hold initially and with one
lemma or step per action, and rests on the named assumptions of its module only: queues have room, bounds are naturals, kinds
of messages are disjoint, null values are no values. Three say more of the data: `CodesAssumption` (a code has 1 to 250 bytes: an empty one
is not sent, a longer one would not be taken for a frame), `MessagesAssumption` (the messages of the broker are bytes, ids are 1 to 65535, only a PUBLISH has a
payload, and none is longer than four length bytes can say) and `BufferAssumption` (the input buffer holds 10 bytes; `MQTT_BUFFER_SIZE_BYTE` is 1024).
One theorem has a hypothesis of its own, `WrongTextsArePaidFor`: without it the property is false (section 2).

`CommandPipelineProofs`, for any sets of commands and any queue lengths, drops and reboots: `TypeCorrect`, `FlagNeverAhead`
(`FlagNotAhead`), `LossBounded` (`LossPerDrop`), and `Implementation`: `SafeSpec => ServiceSafety`, the safety part of the refinement. None of the
three invariants is inductive. `IInv` adds:

* `WindowInv`: `0 =< acks =< readPos =< Len(brokerQ)`, and one read message is unacknowledged while it is being
  handled (needed for `Tail` and for the index of the message read);
* `LockInv`: the lock is held exactly while a handler runs; so no two handlers run at once;
* `HandInv`: the message or command in a task's hands is one of the kind its place says;
* `StateInv`: a handler of DISCONNECTED runs only with the client waiting to reconnect, and a flag ahead of the client
  has such a handler on its way (`FlagNotAhead` follows with `LockInv`);
* `LossAccounted`: an answer that may still be lost is already paid for by a drop. `LossPerDrop` alone breaks at the
  publication that loses the answer; the accounting says the drop came before.

`Implementation` uses `IInv` and one lemma for each kind of step: acceptance, taking a command in hand (a stutter), execution,
reboot, all others (stutter).

The counts are `ExecutionsBounded` (`ExecutedTwiceOnlyByLoss`) and `LossByRestartBounded` (`LostOnlyByRestart`), from a second invariant,
`DeliveryInv`, that follows a command through the device. `ReadInv` says that what has been acknowledged was taken over first; so a
command is missing only if a reboot emptied `cmd_queue` under it (`MissingInv`). `ExecutionsInv` counts, for each command, not only what was
executed but also what still will be: the copies in `cmd_queue`, the one in hand, and one more while the device is going to be given the
command again (`Due`). A lost connection makes a command due at most once more, and everything else only moves it along. It needs that
the broker's queue never has a command twice (`OnceInv`). Queues are counted as sets and as bags by lemmas of their own.

`AccessRequestsProofs`, for any cards, timeouts and bounds: `RequestsTypeCorrect`, `OneQuestionAtATime` (`OneWaiting`),
`RefusedForAReason` (`RefusedOnlyWhileWaiting`). `IInv` adds that the age of the gate is the age of the last request as far as the code
tells ages apart (`AgesOK`), that a taken gate means the last request is unheard (`HeldForLast`), and the count itself in a form that
survives steps: the young unanswered requests *but the last* never outnumber the foreign answers, and with the gate free not even
with the last (`CountOK`). `OneWaiting` alone says nothing of the request the gate is about to be given to.

`DeviceProofs` has two parts. For `Connectivity`, with any table of networks: `WifiTypeCorrect`, `WifiFlagRight` (`WifiFlagSettles`). `WifiInv` lists the eight
situations that station, event queue and handler can be in together (`Situations`); the flag is known in each of them, and it is wrong only
while an event that will correct it waits.

For `Maintenance`, with any updates and bounds: `MaintenanceTypeCorrect`, `SettingsAreKept` (`SettingsKept`), `ReportedImageIsRun`
(`ReportedImageRuns`). `StoredInv` adds two parts to the types. `KeptInv` relates flash, RAM and the history at every place of the boot and of a save, so that a power cut
between setting RAM and saving is covered. `OtaInv` says that, with no overlap, one update at most is under way,
the one that has selected its image still has it whole in the partition, and only that one can have been reported.

`CardBusProofs`, for any cards, texts and number of commands, proves every property of `card_writing` and the types: `BusTypes`,
`AnsweredOkIsWritten` (`ReportedIsWritten`), `SecondCardOnlyUnheard` (`OneCardUnlessUnheard`), `NothingWrittenLater`
(`WrittenInCommand`), `UndisturbedNames` (`UndisturbedNamesItsCard`), `UndisturbedReads` (`UndisturbedReadsTruth`). There are two
invariants. `WritingInv`: data in the FIFO is the command's text and not yet sent (`Frames`); an acknowledgement that the command may take for
its own means that something was written (`Writing`); what has been written was written in the conversation that is going on, or the
command has missed something (`OneCard`). `Undisturbed`: while nobody has touched a task's conversation, the FIFO holds its frame or the answer
of the card whose UID it has, the level it read is the length of that answer, all of it is read (`Parts`), and a card that came in between does not listen (`Conversing`).
The case of each action that ends an exchange goes through one lemma, `Ending`, that says where it can lead.

`QrReaderProofs`, for any codes and sizes: `TypeCorrect` (`TypeOK`: the buffer never holds more than it has room for) and `DebounceIsBrief`
(`HeldBackBriefly`). Lemmas say of each parser that what it leaves is the end of what it was given and that a text it finds is
made of its bytes. `AgeInv` relates the time the code keeps to the history: the remembered text is no younger than the last one that was not held
back. Nothing else would say so at the step that shows the code again.

The third theorem is `WrongTextsArePaidFor` (`WrongOnlyByLoss`), for any codes that are printable, not three letters long and do not end in a blank
(`PlainCodes`), and any buffer, reads and losses. `WrongOnlyByLoss` counts what was found and says nothing of what is still in the buffer and the UART,
so the invariant (`PaidInv`) does: what those bytes can still cost is no more than what the losses allow and the texts found have not used. Every byte keeps its place
in its frame (`Marked`). The cost (`Costs`) is two for each byte behind which something is missing (`Breaks`), and one more
if the first byte is in the middle of a frame where a text that is no code can begin (`Astray`). A loss adds one
break (`LossCosts`), a frame behind the rest none (`ScanCosts`), and a turn of the loop takes a code at no cost or pays for what
it takes (`TurnCosts`): a frame without a break inside is a code (`FrameCosts`), and a line without one is a code, or no text, or the end of a
code where the parsers were astray, and they are not afterwards (`WholeLine`, `LineCosts`). That the letters are never taken for what begins or ends a
frame is `ByteIs`.

`MqttOutboxProofs`, for any messages, ids and connections: `TypeCorrect`, `UnsentIsUnwritten` (`QueuedIsUnsent`) and `NothingGoneEarly`
(`GoneOnlyIfDone`). The code finds a message by its id alone, so the invariant is about ids: while none was drawn twice (`clash`), the items have
distinct ids (`Distinct`), and a packet on the way to the broker or back that goes by the id of an item carries its message (`NamesAgree`). Then
what an acknowledgement removes is what the broker has (`AcksReceived`), and what is marked as sent is what was written
(`Unwritten`). `UpTo` keeps a new message apart from all that are under way. The lemmas on `outbox_enqueue`, the lookups and the three ways
to remove say what each leaves of a list of any length.

`MqttStreamProofs`, for any messages, any input buffer and any cuts: `InStepWithBroker` (`InStepUnless`), `NothingIsHeldBack`
(`NothingHeldBack`), `AcknowledgedWhole` (`AckedIsWhole`). `InStepUnless` says nothing of the bytes, so the invariant does
(`Aligned`): what the client has in its buffer is the beginning of the message it waits for, and the stream has the rest of that
message and the following messages behind it, each at its place (`Ahead`, `Follows`), unless the client is delivering or about to acknowledge a
PUBLISH, and then the stream has the pieces of it that are missing (`Delivering`), or everything has been read (`Quiet`). `Place` says
what each program counter implies about how far the message has been read: this is what the many early returns of
`mqtt_message_receive` have to agree on when they are resumed. The proof rests on lemmas about the encoding: the length bytes written by `fini_message` read back as the
length, for all of the four sizes (`LengthBytesSay`), all messages of the broker are `WellFormed` (`Framed`), and a beginning of a message
that has its header gives the same header and length as the whole message (`PrefixHeader`). `AckInv` is the part about acknowledgements: one is due with bytes missing only if
the delivery gave up.

`JsonItemsProofs`, for any finite memory and any names: `NothingIsLost` (`NothingLost`), `ListsImplemented` (`Spec => ListsSpec`, the whole
refinement, since `JsonLists` has no fairness) and `PointersDrawForest`, the invariant both come from. `NothingLost` is not inductive: it counts
places and says nothing of circles, of the `prev` of a first item or of what freed memory holds. `IInv` (`Draws`) says

* what the lists are: every list is one of an item that exists, none has an item twice (`Once`), the held items are the ones in no list, and
  all that exists is held or in what is held (`Forest`). The last part is what excludes circles, and what deleting relies on;
* that the pointers draw these lists (`Points`, `Unlinked`): `child` is the first item, `next` and `prev` go to the neighbours, `prev` of the first is the
  last; a held item points nowhere, and so does memory that is free.

The proof follows that division. Lemmas on the forest alone say what becomes of it when an item is put into a list, taken out, put in
the place of another, cut with all that is in it, or built (`ForestWith`, `ForestDrop`, `ForestSwap`, `ForestCut`, `ForestGrown`), for trees
of any depth: what is in an item is the least closed set, so that no induction is needed. Lemmas on one list alone say that the assignments of
each function to `next`, `prev` and `child`, with their early returns and special cases for first, last and only items, draw the list that
was meant and touch no other (`RowAdd`, `RowInsert`, `RowDetach`, `RowReplace`). `FreedIsWithin` says that following the pointers
frees what is in the item, `ChainIs` that reading along `next` gives the list. Then each call is a step of `JsonLists` (`InsertStep`,
`DetachStep`, `DeleteFromStep`, `ReplaceStep`, `ParseStep`, `DuplicateStep` and so on), or changes nothing there. Assumed are that memory is
finite and that a null pointer points to none of it.

Only model-checked: everything under fairness (`ServiceSpec` as a whole, `HandlerReturns`, `PublishedIsExecuted`, `OutputDrains`,
`LoneCardServed`, `FindsNetwork`, `Recovers`, `CommandsServed`), which is out of the prover's reach, and `CommandText` (`AnswerNamesRequest`, `CopyReadsAlike`, `PrintsInside`,
`ReadsWhatItPrints`): parsing and printing are recursive over data, and `JsonText` writes them with RECURSIVE operators.
What they compute for every text is induction over data.

The type invariants of `MqttStream` and `CommandText` are stated in their modules and hold on the instances of the runs, but
the runs spend their properties on what could be wrong; that of `MqttOutbox` is proved, and that of `AccessGate` is part of `RequestsTypeOK`.

## 6. Not modelled

* MQTT 5 (`mqtt5_client.c`, `mqtt5_msg.c`): the firmware speaks 3.1.1. QoS 2, unsubscribe, stop, user-requested reconnection, TLS,
  websockets and the storage of the configuration of a client: not used.
* `cJSON_Utils.c`: compiled, never called. Of cJSON: formatted printing, `cJSON_Compare`, `cJSON_Minify`, references, raw items,
  arrays of numbers, and the conversion of numbers in general.
* The LED driver and `led_status_task`, pins and levels, the wording of answers and logs, topics, the values in `status`. `config.h` gives pin
  17 both to the reset line of the exit reader and to the transmit line of the QR reader, under "Elige pines libres"
  (`config.h:71`): nothing in a model of the tasks can tell.
* Liveness of the outbox: with expiry the only promise is that a message leaves it in the end, which is `Tick`.
* Single register accesses of the RC522 and its CRC, but for what they make of a frame or an answer: see `CardBus`.

Some hazards are caught in part only, because the code does what the property then has to excuse: `HeldBackBriefly` allows a code that was
recorded and not published; `SettingsKept` takes a value whose save failed for doubtful; `ReportedImageRuns` leaves out overlapping updates, and
`CommandsServed` the boot loop; `AckedIsWhole` excuses a delivery that gave up, `GoneOnlyIfDone` a message that became too old, and `AnswerNamesRequest` what was cut or
has a special character. `PROJECT.json` says so with each hazard.

What was seen and is no property:

* The Wi-Fi handler tests `s_mqtt_connected` at `wifi_manager.c:90` and writes the LED mode after it; overtaken by the MQTT handler it
  leaves the wrong mode, for as long as both stay up. The MQTT handler can set `s_mqtt_connected` just after `wifi_manager.c:55` has cleared it
  ("si no hay wifi, tampoco mqtt"); the client notices the dead connection later. Nothing but the LED and the tests before publishing reads them.
* The answer to a QR gives the gate back under a waiting card (`commands.c:270`), so a second question may be asked where the log says
  "ignorada, esperando respuesta hasAccess" (`rc522_reader.c:832`); `OneWaiting` counts it.
* An `ok` of setConfig does not depend on the save (`commands.c:180`); `app_config.c:17` calls the cards active by default and disables them.

What is left to do: the composition of `MqttOutbox` with `CommandPipeline`, so that
QoS 1 answers can be followed from `mqtt_enqueue` to the broker.
