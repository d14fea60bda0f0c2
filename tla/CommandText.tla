---------------------------- MODULE CommandText ----------------------------
(***************************************************************************)
(* The documents of the command path: what the event handler reads out of  *)
(* a message and puts into command_t, what handle_command reads again out  *)
(* of the copy of the message in it, and the documents of the answers,     *)
(* some built with cJSON and some with snprintf, on their way through the  *)
(* fixed sizes of command_t and mqtt_out_msg_t.                            *)
(***************************************************************************)
EXTENDS JsonText

CONSTANTS
  Texts,        \* messages that may arrive
  NameSize,     \* sizeof(cmd.action), sizeof(cmd.id_peticion)
  ShortSize,    \* sizeof(cmd.type)
  PayloadSize,  \* sizeof(cmd.payload)
  OutSize,      \* sizeof(out.payload), and of the payload of publish_resp
  UrlSize       \* sizeof(req->url); req->id_peticion has room for a whole cmd.id_peticion

ASSUME CommandTextAssumption ==
  {NameSize, ShortSize, PayloadSize, OutSize, UrlSize} \subseteq Nat \ {0}

VARIABLES
  doc,          \* the message that arrived last
  cmd,          \* command_t, once it is in cmd_queue
  ota,          \* ota_request_t, while ota_task has it
  enableCards,  \* g_app_config.enable_cards
  root,         \* what the event handler has parsed it to; a history after that
  answer,       \* the text put into mqtt_out_queue for it, if any
  whole,        \* history: that answer before it was cut
  asked         \* history: the idPeticion of the message

vars == <<doc, root, cmd, ota, enableCards, answer, whole, asked>>

NoText == << >>
NoCmd == [action |-> NoText]
NoRequest == [url |-> NoText]
Dash == <<"-">>
device_id == <<"d">>

Init ==
  /\ doc = NoText /\ root = NoItem /\ cmd = NoCmd /\ ota = NoRequest /\ enableCards = FALSE
  /\ answer = NoText /\ whole = NoText /\ asked = NoText

-----------------------------------------------------------------------------
(* Documents.                                                                  *)
Object(members) ==
  Item("object", << >>, [k \in DOMAIN members |-> Named(<<members[k][1]>>, members[k][2])])
Str(text) == Item("string", text, << >>)
Bool(b) == Item(IF b THEN "true" ELSE "false", << >>, << >>)

(* A document from a format of snprintf: strings go in as they are.            *)
Quoted(text) == <<Quote>> \o text \o <<Quote>>
Formatted(members) ==
  <<"{">> \o FlattenSeq([k \in DOMAIN members |->
       Quoted(<<members[k][1]>>) \o <<":">> \o members[k][2]
         \o (IF k < Len(members) THEN <<",">> ELSE << >>)]) \o <<"}">>

(* mqtt_enqueue copies what fits.                                              *)
mqtt_enqueue(text) ==
  \E t \in {text} : answer' = Cut(t, OutSize - 1) /\ whole' = t

-----------------------------------------------------------------------------
(* mqtt_event_handler_cb, MQTT_EVENT_DATA.                                     *)
TextOr(item, default) == IF IsString(item) THEN item.text ELSE default

(* The number at the beginning, without its exponent.                          *)
atoi(text) ==
  LET first == Min({k \in DOMAIN text : text[k] \notin {" ", "LF"}} \cup {Len(text) + 1})
      digits == SubSeq(text, first, first)
  IN IF digits = <<"1e99">> THEN 1 ELSE valueint(Item("number", digits, << >>))
NumberOf(item) ==
  CASE IsString(item) -> atoi(item.text)
    [] item.type = "number" -> valueint(item)
    [] OTHER -> 0

Fields(item, text) ==
  [action |-> Cut(TextOr(cJSON_GetObjectItem(item, "action"), NoText), NameSize - 1),
   pin |-> NumberOf(cJSON_GetObjectItem(item, "pin")),
   estat |-> NumberOf(cJSON_GetObjectItem(item, "estat")),
   id_pista |-> NumberOf(cJSON_GetObjectItem(item, "idPista")),
   id_peticion |-> Cut(TextOr(cJSON_GetObjectItem(item, "idPeticion"), Dash), NameSize - 1),
   type |-> Cut(TextOr(cJSON_GetObjectItem(item, "type"), NoText), ShortSize - 1),
   payload |-> Cut(text, PayloadSize - 1)]

IdIn(item) == TextOr(cJSON_GetObjectItem(item, "idPeticion"), Dash)

(* doc is free once its answer has been taken.                                 *)
Receives(text, item) ==
  /\ doc = NoText /\ cmd = NoCmd
  /\ doc' = text /\ root' = item /\ asked' = IdIn(item)
NoAnswer == answer' = NoText /\ whole' = NoText

(* Not JSON, or an otaUpdate without a URL: nothing.                           *)
IsOta(item) == TextOr(cJSON_GetObjectItem(item, "action"), NoText) = <<"otaUpdate">>
Refuses(text, item) ==
  /\ Receives(text, item)
  /\ item = NoItem \/ (IsOta(item) /\ ~IsString(cJSON_GetObjectItem(item, "url")))
  /\ NoAnswer
  /\ UNCHANGED <<cmd, ota, enableCards>>

(* ota_start_async gives an otaUpdate to a task, or has no memory for one; or  *)
(* the URL is empty.  The refusal is answered at once.                         *)
OtaId(item, text) ==
  LET id == Fields(item, text).id_peticion IN IF id = NoText THEN Dash ELSE id
AnswersOta(ok, id, url) ==
  mqtt_enqueue(cJSON_PrintUnformatted(Object(<<
    <<"action", Str(<<"retornoOta">>)>>, <<"ok", Bool(ok)>>, <<"id", Str(device_id)>>,
    <<"idPeticion", Str(id)>>, <<"url", Str(url)>> >>)))

HasUrl(item) == IsOta(item) /\ IsString(cJSON_GetObjectItem(item, "url"))
UrlOf(item) == cJSON_GetObjectItem(item, "url").text

StartsOta(text, item) ==
  /\ Receives(text, item)
  /\ HasUrl(item) /\ UrlOf(item) # NoText
  /\ ota' = [url |-> Cut(UrlOf(item), UrlSize - 1), id_peticion |-> OtaId(item, text)]
  /\ NoAnswer /\ UNCHANGED <<cmd, enableCards>>

RefusesOta(text, item) ==
  /\ Receives(text, item)
  /\ HasUrl(item)
  /\ AnswersOta(FALSE, OtaId(item, text), UrlOf(item))
  /\ UNCHANGED <<cmd, ota, enableCards>>

Queues(text, item) ==
  /\ Receives(text, item)
  /\ item # NoItem /\ ~IsOta(item)
  /\ cmd' = Fields(item, text)
  /\ NoAnswer /\ UNCHANGED <<ota, enableCards>>

mqtt_event_handler_cb(text) ==
  \E item \in {cJSON_ParseWithLength(text)} :
    \/ Refuses(text, item) \/ StartsOta(text, item) \/ RefusesOta(text, item)
    \/ Queues(text, item)

(* ota_task answers when the download has ended; Maintenance has the restart.  *)
FinishesOta(ok) ==
  /\ ota # NoRequest /\ ota' = NoRequest
  /\ AnswersOta(ok, ota.id_peticion, ota.url)
  /\ UNCHANGED <<doc, root, cmd, enableCards, asked>>

-----------------------------------------------------------------------------
(* handle_command.                                                             *)
Does(action) == cmd # NoCmd /\ cmd.action = <<action>> /\ cmd' = NoCmd
Keeps == UNCHANGED <<doc, root, ota, asked>>
Number(n) == <<ToString(n)>>

(* publish_resp: the payload of 256 bytes is cut by snprintf.                  *)
publish_resp(action, estat, pista) ==
  mqtt_enqueue(Formatted(
    << <<"action", Quoted(<<action>>)>>, <<"pin", Number(cmd.pin)>> >>
      \o (IF pista THEN << <<"estat", Quoted(Number(estat))>>,
                           <<"idPista", Quoted(Number(cmd.id_pista))>> >> ELSE << >>)
      \o << <<"idPeticion", Quoted(cmd.id_peticion)>> >>))

(* What answers the actions on a pin; those on a light name their court.       *)
PinAnswer ==
  [pulsadorLuz |-> "retornoLuz", interruptorLuz |-> "retornoLuz",
   pulsador |-> "retornoPulsador", pulsadorInverso |-> "retornoPulsador",
   interruptor |-> "retornoInterruptor", obrirPorta |-> "retornoObrirPorta",
   obrirPortaMaterial |-> "retornoObrirPortaMaterial", obrirPortaVenta |-> "retornoObrirPortaVenta"]
LightActions == {"pulsadorLuz", "interruptorLuz"}
Switched(estat) == IF estat = 2 THEN 1 ELSE estat

MovesPin(action) ==
  /\ Does(action)
  /\ publish_resp(PinAnswer[action],
                  IF action = "interruptorLuz" THEN Switched(cmd.estat) ELSE cmd.estat,
                  action \in LightActions)
  /\ UNCHANGED enableCards /\ Keeps

StatusNow ==
  /\ Does("status_now")
  /\ mqtt_enqueue(Formatted(<< <<"action", Quoted(<<"status">>)>>, <<"online", <<"true">> >>,
       <<"id", Quoted(device_id)>>, <<"idPeticion", Quoted(cmd.id_peticion)>> >>))
  /\ UNCHANGED enableCards /\ Keeps

GetConfig ==
  /\ Does("getConfig")
  /\ mqtt_enqueue(cJSON_PrintUnformatted(Object(<<
       <<"action", Str(<<"retornoConfig">>)>>, <<"enableCards", Bool(enableCards)>>,
       <<"id", Str(device_id)>>, <<"idPeticion", Str(cmd.id_peticion)>> >>)))
  /\ UNCHANGED enableCards /\ Keeps

(* setConfig and writeCard read their fields out of the copy of the message.   *)
SetConfig(payload) ==
  LET set == cJSON_GetObjectItem(cJSON_GetObjectItem(payload, "config"), "enableCards") IN
  /\ Does("setConfig")
  /\ payload # NoItem
  /\ enableCards' = IF IsBool(set) THEN set.type = "true" ELSE enableCards
  /\ mqtt_enqueue(cJSON_PrintUnformatted(Object(<<
       <<"action", Str(<<"retornoSetConfig">>)>>, <<"ok", Bool(TRUE)>>,
       <<"enableCards", Bool(enableCards')>>, <<"idPeticion", Str(IdIn(payload))>>,
       <<"id", Str(device_id)>> >>)))
  /\ Keeps

(* rc522_write_card_out_block8 (CardBus) has a UID or fails without one.       *)
WriteCard(payload, ok) ==
  LET user == cJSON_GetObjectItem(payload, "idUser") IN
  /\ Does("writeCard")
  /\ IsString(user) /\ IsString(cJSON_GetObjectItem(payload, "idPeticion"))
  /\ mqtt_enqueue(cJSON_PrintUnformatted(Object(<<
       <<"action", Str(<<"retornoWriteCard">>)>>, <<"ok", Bool(ok)>>, <<"lector", Str(<<"OUT">>)>>,
       <<"uid", Str(IF ok THEN <<"uid">> ELSE NoText)>>, <<"user", Str(user.text)>>,
       <<"idPeticion", Str(IdIn(payload))>> >>)))
  /\ UNCHANGED enableCards /\ Keeps

HasAccess ==
  /\ Does("hasAccess")
  /\ \E ok \in BOOLEAN : mqtt_enqueue(cJSON_PrintUnformatted(Object(<<
       <<"action", Str(<<"retornoAccessTorn">>)>>, <<"idPeticion", Str(cmd.id_peticion)>>,
       <<"ok", Bool(ok)>>, <<"type", Str(cmd.type)>> >>)))
  /\ UNCHANGED enableCards /\ Keeps

(* An unknown command, or one whose copy of the message lacks what it needs.   *)
Ignores(payload) ==
  /\ cmd # NoCmd /\ cmd' = NoCmd
  /\ CASE cmd.action = <<"setConfig">> -> payload = NoItem
       [] cmd.action = <<"writeCard">> ->
            ~IsString(cJSON_GetObjectItem(payload, "idUser"))
              \/ ~IsString(cJSON_GetObjectItem(payload, "idPeticion"))
       [] OTHER -> cmd.action \notin {<<a>> : a \in DOMAIN PinAnswer
                                                 \cup {"status_now", "getConfig", "hasAccess"}}
  /\ NoAnswer /\ UNCHANGED enableCards /\ Keeps

(* mqtt_out_task takes the answer, if any, before the next message comes.      *)
OutTaskTakes ==
  /\ doc # NoText /\ cmd = NoCmd /\ ota = NoRequest
  /\ doc' = NoText /\ root' = NoItem /\ asked' = NoText /\ NoAnswer
  /\ UNCHANGED <<cmd, ota, enableCards>>

handle_command ==
  \/ \E action \in DOMAIN PinAnswer : MovesPin(action)
  \/ StatusNow \/ GetConfig \/ HasAccess
  \/ \E payload \in {cJSON_Parse(c.payload) : c \in {cmd} \ {NoCmd}} :
       SetConfig(payload) \/ (\E ok \in BOOLEAN : WriteCard(payload, ok)) \/ Ignores(payload)

Next ==
  \/ handle_command
  \/ \E text \in Texts : mqtt_event_handler_cb(text)
  \/ \E ok \in BOOLEAN : FinishesOta(ok)
  \/ OutTaskTakes

Spec == Init /\ [][Next]_vars

-----------------------------------------------------------------------------
(* The state has its types, and command_t the sizes of its fields.             *)
TypeOK ==
  /\ doc \in Texts \cup {NoText} /\ enableCards \in BOOLEAN
  /\ ota = NoRequest \/ Bytes(ota.url) < UrlSize
  /\ cmd = NoCmd \/ (Bytes(cmd.id_peticion) < NameSize /\ Bytes(cmd.payload) < PayloadSize)
  /\ Bytes(answer) < OutSize

(* An answer, read by the server, is a document with the idPeticion of its     *)
(* request, or the beginning of it - but for two ways to spoil it: it is       *)
(* longer than mqtt_out_msg_t has room for (mqtt_manager.c:42), or snprintf    *)
(* has put a character in it that JSON wants escaped (commands.c:69-92).       *)
Special == {Quote, Backslash, "LF", "SOH"}
Raw == Range(PinAnswer) \cup {"status"}
Spoilt ==
  \/ answer # whole
  \/ \E k \in DOMAIN whole : whole[k] \in Raw /\ ToSet(asked) \cap Special # {}
AnswerNamesRequest ==
  (answer # NoText /\ cmd = NoCmd /\ ~Spoilt) =>
    LET id == cJSON_GetObjectItem(cJSON_ParseWithLength(answer), "idPeticion")
    IN IsString(id) /\ id.text \in {asked, Cut(asked, NameSize - 1), Dash}
                    /\ (id.text = Dash => asked \in {Dash, NoText})

(* handle_command reads the copy of the message, cut to 255 bytes and to its   *)
(* first NUL, as the event handler read the message, or not at all: half a     *)
(* document is never taken for a document (commands.c:155, 208).               *)
CopyReadsAlike ==
  (cmd # NoCmd /\ root.type = "object") => cJSON_Parse(cmd.payload) \in {NoItem, root}

(* Printing never writes beyond the room that ensure has made for it.          *)
PrintsInside == root = NoItem \/ ~print(root).over

(* What cJSON prints it reads again, whatever was escaped on the way in.       *)
ReadsWhatItPrints ==
  root = NoItem \/ cJSON_ParseWithLength(cJSON_PrintUnformatted(root)) = root
=============================================================================
