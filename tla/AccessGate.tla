----------------------------- MODULE AccessGate -----------------------------
(***************************************************************************)
(* rc522_task: the task that polls the entry and the exit card reader,     *)
(* debounces what it reads and asks the server for access, one question at *)
(* a time.  The gate (s_access_in_flight) is taken here and given back by  *)
(* the command task when it handles a hasAccess message.                   *)
(*                                                                         *)
(* Time is kept as ages: how long ago the gate was taken and how long ago  *)
(* each reader accepted its last card, in ticks, and no further than the   *)
(* code tells ages apart.  That leaves the state finite without a bound.   *)
(***************************************************************************)
EXTENDS Integers

CONSTANTS
  Cards,        \* UIDs
  NoCard,       \* nothing in the field, or nothing accepted yet
  GateTimeout,  \* ACCESS_IN_FLIGHT_TIMEOUT_MS, in ticks
  DebounceTime  \* CARD_DEBOUNCE_MS, in ticks

ASSUME GateAssumption == GateTimeout \in Nat \ {0} /\ DebounceTime \in Nat \ {0}
ASSUME CardAssumption == NoCard \notin Cards

Readers == {"IN", "OUT"}

VARIABLES
  present,    \* the card in the field of each reader
  connected,  \* s_mqtt_connected
  pc,         \* where rc522_task is
  reader,     \* the reader it is at
  uid,        \* the card it has read there
  lastUid,    \* s_db_in.last_uid and s_db_out.last_uid
  lastAge,    \* the age of their last_ts_us
  inFlight,   \* s_access_in_flight
  gateAge     \* the age of s_access_in_flight_ts_us

fieldVars == <<present, connected>>
taskVars == <<pc, reader, uid>>
debounceVars == <<lastUid, lastAge>>
gateVars == <<inFlight, gateAge>>
readerVars == <<present, connected, pc, reader, uid, lastUid, lastAge, inFlight, gateAge>>

Init ==
  /\ present = [r \in Readers |-> NoCard]
  /\ connected = FALSE
  /\ pc = "top" /\ reader = "IN" /\ uid = NoCard
  /\ lastUid = [r \in Readers |-> NoCard]
  /\ lastAge = [r \in Readers |-> DebounceTime]
  /\ inFlight = FALSE
  /\ gateAge = GateTimeout + 1

-----------------------------------------------------------------------------
(* After the entry reader comes the exit reader, after it the 60 ms pause.     *)
NextReader ==
  /\ uid' = NoCard
  /\ IF reader = "IN" THEN reader' = "OUT" /\ pc' = "read"
                      ELSE reader' = "IN" /\ pc' = "top"

StartRound ==
  /\ pc = "top"
  /\ connected
  /\ pc' = "read"
  /\ UNCHANGED <<reader, uid, fieldVars, debounceVars, gateVars>>

(* Mutation: the result of rc522_read_card_block8 is not looked at. *)
ReadCardUnchecked ==
  /\ pc = "read"
  /\ uid' = present[reader]
  /\ pc' = "debounce"
  /\ UNCHANGED <<reader, fieldVars, debounceVars, gateVars>>

ReadCard ==
  /\ pc = "read"
  /\ present[reader] # NoCard
  /\ uid' = present[reader]
  /\ pc' = "debounce"
  /\ UNCHANGED <<reader, fieldVars, debounceVars, gateVars>>

(* No card, or a card that cannot be selected, authenticated or read.          *)
ReadNothing ==
  /\ pc = "read"
  /\ NextReader
  /\ UNCHANGED <<fieldVars, debounceVars, gateVars>>

Repeated == lastUid[reader] = uid /\ lastAge[reader] < DebounceTime

(* should_publish: accepting a card restarts its age, whatever the gate says.  *)
DebounceAccepts ==
  /\ pc = "debounce"
  /\ ~Repeated
  /\ lastUid' = [lastUid EXCEPT ![reader] = uid]
  /\ lastAge' = [lastAge EXCEPT ![reader] = 0]
  /\ pc' = "gate"
  /\ UNCHANGED <<reader, uid, fieldVars, gateVars>>

DebounceRejects ==
  /\ pc = "debounce"
  /\ Repeated
  /\ NextReader
  /\ UNCHANGED <<fieldVars, debounceVars, gateVars>>

(* Mutation: >= for >. *)
GateOpenEarly == ~inFlight \/ gateAge >= GateTimeout

GateOpen == ~inFlight \/ gateAge > GateTimeout

(* access_gate_try_acquire, inside its critical section.                       *)
AcquireGate ==
  /\ pc = "gate"
  /\ GateOpen
  /\ inFlight' = TRUE
  /\ gateAge' = 0
  /\ pc' = "publish"
  /\ UNCHANGED <<reader, uid, fieldVars, debounceVars>>

(* Mutation: a refused attempt restarts the timeout. *)
GateRefusesAndRestarts ==
  /\ pc = "gate"
  /\ ~GateOpen
  /\ gateAge' = 0
  /\ NextReader
  /\ UNCHANGED <<inFlight, fieldVars, debounceVars>>

GateRefuses ==
  /\ pc = "gate"
  /\ ~GateOpen
  /\ NextReader
  /\ UNCHANGED <<fieldVars, debounceVars, gateVars>>

(* publish_access_event: when mqtt_enqueue drops the message the gate is kept. *)
PublishEvent ==
  /\ pc = "publish"
  /\ NextReader
  /\ UNCHANGED <<fieldVars, debounceVars, gateVars>>

-----------------------------------------------------------------------------
(* rc522_access_gate_release, called by the command task.                      *)
ReleaseGate ==
  /\ inFlight' = FALSE
  /\ UNCHANGED <<gateAge, fieldVars, taskVars, debounceVars>>

Older(age, limit) == IF age < limit THEN age + 1 ELSE age

(* esp_timer_get_time advances.                                                *)
Tick ==
  /\ gateAge' = Older(gateAge, GateTimeout + 1)
  /\ lastAge' = [r \in Readers |-> Older(lastAge[r], DebounceTime)]
  /\ UNCHANGED <<fieldVars, taskVars, lastUid, inFlight>>

(* People put cards on the readers and take them away.                         *)
MoveCard(r, c) ==
  /\ present[r] # c
  /\ present' = [present EXCEPT ![r] = c]
  /\ UNCHANGED <<connected, taskVars, debounceVars, gateVars>>

ToggleConnection ==
  /\ connected' = ~connected
  /\ UNCHANGED <<present, taskVars, debounceVars, gateVars>>

-----------------------------------------------------------------------------
Rc522Task ==
  \/ StartRound \/ ReadCard \/ ReadNothing \/ DebounceAccepts \/ DebounceRejects
  \/ AcquireGate \/ GateRefuses \/ PublishEvent
People == \E r \in Readers, c \in Cards \cup {NoCard} : MoveCard(r, c)

Next == Rc522Task \/ ReleaseGate \/ Tick \/ People \/ ToggleConnection

(* FreeRTOS runs the task and time goes on.  A card that stays in the field is *)
(* read again and again, if not in every round.                                *)
Spec ==
  /\ Init /\ [][Next]_readerVars
  /\ WF_readerVars(Rc522Task)
  /\ \A r \in Readers : SF_readerVars(ReadCard /\ reader = r)
  /\ WF_readerVars(Tick)

-----------------------------------------------------------------------------
(* Every variable has its type, no age goes past what the code tells apart,    *)
(* and no request is under way without a card that was really read.            *)
TypeOK ==
  /\ present \in [Readers -> Cards \cup {NoCard}]
  /\ connected \in BOOLEAN
  /\ pc \in {"top", "read", "debounce", "gate", "publish"}
  /\ reader \in Readers /\ uid \in Cards \cup {NoCard}
  /\ lastUid \in [Readers -> Cards \cup {NoCard}]
  /\ lastAge \in [Readers -> 0..DebounceTime]
  /\ inFlight \in BOOLEAN /\ gateAge \in 0..(GateTimeout + 1)
  /\ pc \in {"debounce", "gate", "publish"} => uid \in Cards

(* The gate cannot lock out a card that stays on one reader while the other is *)
(* free: with or without answers from the server, it gets the gate time and    *)
(* again, although every refused attempt restarts its debounce time.           *)
LoneCard(r) ==
  /\ connected
  /\ present[r] # NoCard
  /\ \A s \in Readers \ {r} : present[s] = NoCard
LoneCardServed ==
  \A r \in Readers : <>[]LoneCard(r) => []<><<AcquireGate /\ reader = r>>_readerVars
=============================================================================
