----------------------------- MODULE MqttOutbox -----------------------------
(***************************************************************************)
(* The outbox of the MQTT client: what becomes of a QoS 1 message after    *)
(* esp_mqtt_client_publish.  It is stored first and written second, once   *)
(* more from the task if that failed, again every second the oldest one    *)
(* that is not acknowledged, and it is dropped after 30 s whatever         *)
(* happened to it.  Messages are found by a random 16-bit id.              *)
(*                                                                         *)
(* Every public call and every pass of esp_mqtt_task holds the API lock,   *)
(* so each is one step.  The network and the broker are external: TCP      *)
(* keeps the order, and a link may die without either end noticing.        *)
(***************************************************************************)
EXTENDS Integers, Sequences, FiniteSetsExt

CONSTANTS
  Ids,         \* message ids append_message_id may draw
  Expire,      \* OUTBOX_EXPIRED_TIMEOUT_MS, in ticks of message_retransmit_timeout
  MaxPublish,  \* bound: messages published
  MaxConnects, \* bound: connections
  Window       \* bound: packets on their way; a write beyond it times out

ASSUME OutboxAssumption ==
  Expire \in Nat \ {0} /\ MaxPublish \in Nat /\ MaxConnects \in Nat /\ Window \in Nat

VARIABLES
  state,      \* client->state: connected or waiting to reconnect
  outbox,     \* the list of client->outbox
  lastQos,    \* mqtt_state.pending_publish_qos
  resendAge,  \* age of last_retransmit, up to the timeout of one tick; Unset before the first pass
  alive,      \* the link carries packets
  wire,       \* packets on their way to the broker
  acks,       \* acknowledgements on their way back
  published,  \* messages published so far; they are numbered
  connects,   \* connections so far
  received,   \* messages the broker has got; SUBSCRIBE, on this connection
  sent,       \* history: messages written to a connection without an error
  clash       \* history: an id was drawn that something else still goes by

netVars == <<alive, wire, acks>>
vars == <<state, outbox, lastQos, resendAge, netVars, published, connects, received, sent, clash>>

Unset == -1
SUBSCRIBE == 0    \* in place of a message number

Item == [msg : 0..MaxPublish, id : Ids, qos : 0..1, age : 0..(Expire + 1),
         pending : {"QUEUED", "TRANSMITTED"}]

Init ==
  /\ state = "wait" /\ outbox = << >> /\ lastQos = 0 /\ resendAge = Unset
  /\ alive = FALSE /\ wire = << >> /\ acks = << >>
  /\ published = 0 /\ connects = 0 /\ received = {} /\ sent = {} /\ clash = FALSE

-----------------------------------------------------------------------------
(* lib/mqtt_outbox.c.  Positions in the list; 0 is NULL.                       *)
FirstOf(positions) == IF positions = {} THEN 0 ELSE Min(positions)

Without(box, i) == SubSeq(box, 1, i - 1) \o SubSeq(box, i + 1, Len(box))

outbox_enqueue(box, m, id, qos) ==
  Append(box, [msg |-> m, id |-> id, qos |-> qos, age |-> 0, pending |-> "QUEUED"])

outbox_get(box, id) == FirstOf({i \in DOMAIN box : box[i].id = id})
outbox_dequeue(box, pending) == FirstOf({i \in DOMAIN box : box[i].pending = pending})

outbox_delete(box, ack) ==
  LET i == FirstOf({j \in DOMAIN box :
             box[j].id = ack.id /\ (box[j].msg = SUBSCRIBE) = (ack.msg = SUBSCRIBE)})
  IN IF i = 0 THEN box ELSE Without(box, i)

(* Mutation: the state of a message is not updated. *)
SetNothing(box, id, pending) == box

outbox_set_pending(box, id, pending) ==
  LET i == outbox_get(box, id) IN IF i = 0 THEN box ELSE [box EXCEPT ![i].pending = pending]

outbox_set_tick(box, id) ==
  LET i == outbox_get(box, id) IN IF i = 0 THEN box ELSE [box EXCEPT ![i].age = 0]

outbox_delete_expired(box) ==
  LET kept == {i \in DOMAIN box : box[i].age =< Expire}
      place(i) == Cardinality({j \in kept : j =< i})
  IN [n \in 1..Cardinality(kept) |-> box[CHOOSE i \in kept : place(i) = n]]

-----------------------------------------------------------------------------
(* mqtt_msg.c: a random id.  All those of nothing in the outbox or in flight   *)
(* are alike.                                                                  *)
InUse == {outbox[i].id : i \in DOMAIN outbox} \cup {wire[i].id : i \in DOMAIN wire}
           \cup {acks[i].id : i \in DOMAIN acks}
append_message_id(id) ==
  /\ id \in InUse \cup {CHOOSE free \in Ids : free \notin InUse}
  /\ clash' = (clash \/ id \in InUse)

(* esp_mqtt_write: the packet goes out, or into a link that has died.          *)
CanWrite == Len(wire) < Window
Sending(m, id) ==
  /\ CanWrite
  /\ wire' = IF alive THEN Append(wire, [msg |-> m, id |-> id]) ELSE wire
  /\ sent' = sent \cup {m}
  /\ UNCHANGED <<state, alive>>

(* esp_mqtt_abort_connection.                                                  *)
Abort == state' = "wait" /\ alive' = FALSE /\ wire' = << >> /\ acks' = << >>

-----------------------------------------------------------------------------
(* esp_mqtt_client_publish with QoS 1.  Not connected, it relies on the task;  *)
(* if the write fails it returns -1 and the message stays.                     *)
Publish(id) ==
  LET m == published + 1
      stored == outbox_enqueue(outbox, m, id, 1)
  IN /\ published < MaxPublish
     /\ published' = m
     /\ append_message_id(id)
     /\ lastQos' = 1
     /\ \/ state = "wait" /\ outbox' = stored /\ UNCHANGED <<state, netVars, sent>>
        \/ /\ state = "connected"
           /\ Sending(m, id)
           /\ outbox' = outbox_set_pending(outbox_set_tick(stored, id), id, "TRANSMITTED")
           /\ UNCHANGED acks
        \/ state = "connected" /\ outbox' = stored /\ Abort /\ UNCHANGED sent
     /\ UNCHANGED <<resendAge, connects, received>>

-----------------------------------------------------------------------------
(* Mutation: a message that is written is done with, whatever its QoS. *)
ResendForgets(box, i, after) ==
  /\ lastQos' = box[i].qos
  /\ \/ Sending(box[i].msg, box[i].id) /\ outbox' = Without(box, i)
     \/ Abort /\ outbox' = box /\ UNCHANGED sent

(* mqtt_resend_queued for the item at i of box, which becomes after if it is   *)
(* written; an error drops the connection.                                     *)
Resend(box, i, after) ==
  /\ lastQos' = box[i].qos
  /\ \/ Sending(box[i].msg, box[i].id) /\ outbox' = after
     \/ Abort /\ outbox' = box /\ UNCHANGED sent

(* Nothing to send.                                                            *)
NoResend(box) == outbox' = box /\ UNCHANGED <<state, lastQos, alive, wire, sent>>

(* What one pass sends: the first QUEUED message, else, once per timeout, the  *)
(* first TRANSMITTED one if it is older than the timeout.                      *)
Resends(box) ==
  LET q == outbox_dequeue(box, "QUEUED")
      t == outbox_dequeue(box, "TRANSMITTED")
      due == resendAge = 1
  IN \/ /\ q # 0
        /\ Resend(box, q, IF box[q].qos > 0 THEN outbox_set_pending(box, box[q].id, "TRANSMITTED") ELSE box)
        /\ resendAge' = IF resendAge = Unset THEN 0 ELSE resendAge
     \/ /\ q = 0
        /\ resendAge' = IF due \/ resendAge = Unset THEN 0 ELSE resendAge
        /\ IF due /\ t # 0 /\ box[t].age > 1 THEN Resend(box, t, box) ELSE NoResend(box)

(* One pass while connected: it expires messages, removes the one whose        *)
(* acknowledgement it receives, if any (remove_initiator_message), and sends.  *)
Pass ==
  /\ state = "connected"
  /\ LET kept == outbox_delete_expired(outbox) IN
     \/ Resends(kept) /\ (state' = "connected" => acks' = acks)
     \/ /\ acks # << >>
        /\ Resends(outbox_delete(kept, Head(acks)))
        /\ (state' = "connected" => acks' = Tail(acks))
  /\ UNCHANGED <<published, connects, received, clash>>

(* One pass that finds the connection lost: an error, or no answer to a ping.  *)
PassLoses ==
  /\ state = "connected"
  /\ ~alive
  /\ outbox' = outbox_delete_expired(outbox)
  /\ Abort
  /\ UNCHANGED <<lastQos, resendAge, published, connects, received, sent, clash>>

(* One pass while waiting to reconnect, or one that cannot connect.            *)
PassWaits ==
  /\ state = "wait"
  /\ outbox' = outbox_delete_expired(outbox)
  /\ UNCHANGED <<state, lastQos, resendAge, netVars, published, connects, received, sent, clash>>

(* esp_mqtt_client_subscribe: stored with the QoS of whatever was sent last    *)
(* and marked as transmitted before it is written.                             *)
Subscribes(id) ==
  LET stored == outbox_enqueue(outbox_delete_expired(outbox), SUBSCRIBE, id, lastQos) IN
  outbox' = outbox_set_pending(stored, id, "TRANSMITTED")

(* The client connects and OnConnected subscribes.                             *)
Connects(id) ==
  /\ state = "wait"
  /\ connects < MaxConnects
  /\ connects' = connects + 1
  /\ state' = "connected" /\ alive' = TRUE /\ acks' = << >>
  /\ append_message_id(id)
  /\ Subscribes(id)
  /\ wire' \in {<<[msg |-> SUBSCRIBE, id |-> id]>>, << >>}
  /\ received' = received \ {SUBSCRIBE}
  /\ UNCHANGED <<lastQos, resendAge, published, sent>>

-----------------------------------------------------------------------------
(* External: the broker takes a packet and answers it, the link dies, time     *)
(* passes.                                                                     *)
BrokerTakes ==
  /\ alive /\ wire # << >> /\ Len(acks) < Window
  /\ received' = received \cup {Head(wire).msg}
  /\ acks' = Append(acks, Head(wire))
  /\ wire' = Tail(wire)
  /\ UNCHANGED <<state, outbox, lastQos, resendAge, alive, published, connects, sent, clash>>

LinkDies ==
  /\ alive
  /\ alive' = FALSE /\ wire' = << >> /\ acks' = << >>
  /\ UNCHANGED <<state, outbox, lastQos, resendAge, published, connects, received, sent, clash>>

Older(age, limit) == IF age < limit THEN age + 1 ELSE age

Tick ==
  /\ outbox' = [i \in DOMAIN outbox |-> [outbox[i] EXCEPT !.age = Older(@, Expire + 1)]]
  /\ resendAge' = IF resendAge = Unset THEN Unset ELSE Older(resendAge, 1)
  /\ UNCHANGED <<state, lastQos, netVars, published, connects, received, sent, clash>>

TaskPass == Pass \/ PassLoses \/ PassWaits \/ \E id \in Ids : Connects(id)

Next ==
  \/ \E id \in Ids : Publish(id)
  \/ TaskPass
  \/ BrokerTakes \/ LinkDies \/ Tick

Spec == Init /\ [][Next]_vars

-----------------------------------------------------------------------------
InBox(m) == \E i \in DOMAIN outbox : outbox[i].msg = m
AgeOf(m) == outbox[FirstOf({i \in DOMAIN outbox : outbox[i].msg = m})].age

(* The state has its types.                                                    *)
TypeOK ==
  /\ state \in {"connected", "wait"} /\ outbox \in Seq(Item) /\ lastQos \in 0..1
  /\ resendAge \in {Unset, 0, 1} /\ alive \in BOOLEAN
  /\ wire \in Seq([msg : 0..MaxPublish, id : Ids]) /\ acks \in Seq([msg : 0..MaxPublish, id : Ids])
  /\ published \in 0..MaxPublish /\ connects \in 0..MaxConnects
  /\ received \subseteq 0..published /\ sent \subseteq 0..published /\ clash \in BOOLEAN

(* A message leaves the outbox when the broker has it or when it is too old,   *)
(* through any loss of the connection, unless two messages went by one id; the *)
(* broker has a SUBSCRIBE only if it took one on this connection.              *)
GoneOnlyIfDone ==
  [][\A m \in 0..published :
       InBox(m) /\ ~InBox(m)' => m \in received \/ AgeOf(m) > Expire \/ clash']_vars

(* What the task takes for not yet transmitted has never been written: no      *)
(* message is sent twice for want of having been marked.                       *)
QueuedIsUnsent ==
  \A i \in DOMAIN outbox : outbox[i].pending = "QUEUED" /\ outbox[i].msg \in sent => clash
=============================================================================
