---------------------------- MODULE MCMqttStream ----------------------------
(* Values for TLC: an acknowledgement with a high identifier, a SUBACK and two *)
(* commands, one of them with two length bytes and longer than the buffer.     *)
EXTENDS MqttStream
Puback == [type |-> Type.PUBACK, id |-> 49344, data |-> << >>]
Suback == [type |-> Type.SUBACK, id |-> 300, data |-> << >>]
Short == [type |-> Type.PUBLISH, id |-> 257, data |-> <<125>>]
Long == [type |-> Type.PUBLISH, id |-> 2, data |-> [i \in 1..125 |-> 97]]
Pingresp == [type |-> Type.PINGRESP, id |-> 0, data |-> << >>]
Mixed == {Puback, Suback, Short, Long, Pingresp}
=============================================================================
