--------------------------- MODULE AccessRequests ---------------------------
(***************************************************************************)
(* The conversation about access: the card requests of rc522_task behind   *)
(* their gate (AccessGate), the QR requests of gm861s_task, which have no  *)
(* gate, the server's hasAccess answers and the command task that handles  *)
(* them.  An answer says IN, OUT or QR and not which request it answers;   *)
(* whichever it is, handle_command gives the gate back first.              *)
(*                                                                         *)
(* The log of requests is history: the properties compare what the gate    *)
(* lets through with what has really been answered.                        *)
(***************************************************************************)
EXTENDS AccessGate, Sequences, FiniteSets

CONSTANTS
  MaxRequests,  \* bound: card requests that got the gate
  MaxQr,        \* bound: QR requests
  MaxRepeats,   \* bound: answers delivered once more by QoS 1
  MaxClock      \* bound: ticks

ASSUME RequestBounds ==
  MaxRequests \in Nat /\ MaxQr \in Nat /\ MaxRepeats \in Nat /\ MaxClock \in Nat

VARIABLES
  clock,     \* ticks since boot
  requests,  \* the card requests that got the gate, oldest first
  qrs,       \* QR requests made so far
  answers,   \* hasAccess messages on their way: the request, or a QR, and the verdict
  answered,  \* the card requests and QRs the server has answered
  relay,     \* what the command task is driving: a turnstile, the buzzer or nothing
  opened,    \* how often each turnstile has opened
  repeats,   \* answers delivered again so far
  foreign    \* answers handled that were not for the request that took the gate last

serverVars == <<answers, answered>>
relayVars == <<relay, opened>>
countVars == <<repeats, foreign>>
vars == <<readerVars, clock, requests, qrs, serverVars, relayVars, countVars>>

Request == [reader : Readers, at : Nat, sent : BOOLEAN, heard : BOOLEAN]

InitRequests ==
  /\ Init
  /\ clock = 0 /\ requests = << >> /\ qrs = 0
  /\ answers = {} /\ answered = {}
  /\ relay = "none" /\ opened = [r \in Readers |-> 0]
  /\ repeats = 0 /\ foreign = 0

-----------------------------------------------------------------------------
(* rc522_task: the steps of AccessGate, with the log kept.                     *)

Asks ==
  /\ AcquireGate
  /\ requests' = Append(requests, [reader |-> reader, at |-> clock, sent |-> FALSE, heard |-> FALSE])
  /\ UNCHANGED <<clock, qrs, serverVars, relayVars, countVars>>

(* mqtt_enqueue takes the message or finds mqtt_out_queue full.                *)
Sends(ok) ==
  /\ PublishEvent
  /\ requests' = [requests EXCEPT ![Len(requests)].sent = ok]
  /\ UNCHANGED <<clock, qrs, serverVars, relayVars, countVars>>

(* The bound on requests: no card is read once the log is full.                *)
OtherStep ==
  /\ \/ Len(requests) < MaxRequests /\ ReadCard
     \/ StartRound \/ ReadNothing \/ DebounceAccepts \/ DebounceRejects
     \/ GateRefuses
  /\ UNCHANGED <<clock, requests, qrs, serverVars, relayVars, countVars>>

(* gm861s_task: publish_qr_event asks whatever the state of the gate.          *)
QrAsks ==
  /\ qrs < MaxQr
  /\ connected
  /\ qrs' = qrs + 1
  /\ UNCHANGED <<readerVars, clock, requests, serverVars, relayVars, countVars>>

-----------------------------------------------------------------------------
(* The server (external) answers a request it has seen once, when it likes;    *)
(* a QR is numbered above the card requests.                                   *)
Asked == {i \in DOMAIN requests : requests[i].sent} \cup {MaxRequests + k : k \in 1..qrs}

TypeOf(q) == IF q > MaxRequests THEN "QR" ELSE requests[q].reader

ServerAnswers(q, granted) ==
  /\ q \in Asked \ answered
  /\ answered' = answered \cup {q}
  /\ answers' = answers \cup {[to |-> q, granted |-> granted]}
  /\ UNCHANGED <<readerVars, clock, requests, qrs, relayVars, countVars>>

-----------------------------------------------------------------------------
(* The command task.                                                           *)

(* Mutation: the gate is given back only when access is granted. *)
ReleaseIfGranted(a) ==
  IF a.granted THEN ReleaseGate ELSE UNCHANGED readerVars

(* hasAccess gives the gate back before anything else.                         *)
ReleaseOn(a) == ReleaseGate

Heard(a) ==
  requests' = [i \in DOMAIN requests |->
                 IF i = a.to THEN [requests[i] EXCEPT !.heard = TRUE] ELSE requests[i]]

(* The turnstile of the answer's type if access is granted, none for a QR; the *)
(* buzzer if it is denied.                                                     *)
RelayFor(a) ==
  IF ~a.granted THEN "buzzer" ELSE IF TypeOf(a.to) \in Readers THEN TypeOf(a.to) ELSE "none"

(* An answer is delivered, and once more if its acknowledgement was lost.      *)
HandlesAnswer(a) ==
  /\ a \in answers
  /\ relay = "none"
  /\ ReleaseOn(a)
  /\ Heard(a)
  /\ relay' = RelayFor(a)
  /\ opened' = [r \in Readers |-> IF RelayFor(a) = r THEN opened[r] + 1 ELSE opened[r]]
  /\ foreign' = IF a.to = Len(requests) /\ ~requests[a.to].heard THEN foreign ELSE foreign + 1
  /\ \/ answers' = answers \ {a} /\ UNCHANGED repeats
     \/ repeats < MaxRepeats /\ repeats' = repeats + 1 /\ UNCHANGED answers
  /\ UNCHANGED <<clock, qrs, answered>>

(* The end of the pulse.                                                       *)
PulseEnds ==
  /\ relay # "none"
  /\ relay' = "none"
  /\ UNCHANGED <<readerVars, clock, requests, qrs, serverVars, opened, countVars>>

-----------------------------------------------------------------------------
TimePasses ==
  /\ clock < MaxClock
  /\ clock' = clock + 1
  /\ Tick
  /\ UNCHANGED <<requests, qrs, serverVars, relayVars, countVars>>

(* The task looks at a field only when it reads there, and at the flag only    *)
(* between rounds: a card that comes and goes, or a flag that changes, at any  *)
(* other moment makes no difference to it.                                     *)
OutsideMoves ==
  /\ \/ pc = "read" /\ \E c \in Cards \cup {NoCard} : MoveCard(reader, c)
     \/ pc = "top" /\ ToggleConnection
  /\ UNCHANGED <<clock, requests, qrs, serverVars, relayVars, countVars>>

NextRequests ==
  \/ Asks \/ (\E ok \in BOOLEAN : Sends(ok)) \/ OtherStep
  \/ QrAsks
  \/ \E q \in Asked, granted \in BOOLEAN : ServerAnswers(q, granted)
  \/ \E a \in answers : HandlesAnswer(a)
  \/ PulseEnds
  \/ TimePasses \/ OutsideMoves

RequestsSpec == InitRequests /\ [][NextRequests]_vars

-----------------------------------------------------------------------------
(* The log and the counters have their types.                                  *)
RequestsTypeOK ==
  /\ TypeOK
  /\ clock \in Nat /\ requests \in Seq(Request) /\ qrs \in Nat
  /\ answered \subseteq 1..(MaxRequests + MaxQr)
  /\ answers \subseteq [to : answered, granted : BOOLEAN]
  /\ relay \in Readers \cup {"buzzer", "none"}
  /\ opened \in [Readers -> Nat] /\ repeats \in Nat /\ foreign \in Nat

(* Card requests younger than the timeout whose answer has not been handled.   *)
Waiting ==
  {i \in DOMAIN requests : ~requests[i].heard /\ clock - requests[i].at =< GateTimeout}

(* One card question at a time: more than one young request can be without its *)
(* answer only because answers were handled that were not the one awaited: of  *)
(* a QR, too late, or delivered again.  Each of them lets one more through.    *)
OneWaiting == Cardinality(Waiting) =< 1 + foreign

(* rc522_reader.c:832 and 853 log "ignored, waiting for the hasAccess answer": *)
(* when a card is refused, the last request is indeed young and its answer has *)
(* not been handled, unless the request never left the device.                 *)
RefusedOnlyWhileWaiting == [][GateRefuses => Len(requests) \in Waiting]_vars
=============================================================================
