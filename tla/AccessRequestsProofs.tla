------------------------ MODULE AccessRequestsProofs ------------------------
(***************************************************************************)
(* Proofs about AccessRequests, for any set of cards, any timeout and any  *)
(* number of requests, answers and repetitions.  The age of the gate is    *)
(* the age of the last request, no request is younger than the last, and   *)
(* every young request but the last is paid for by an answer that was not  *)
(* the one awaited.                                                        *)
(***************************************************************************)
EXTENDS AccessRequests, FiniteSetTheorems, SequenceTheorems, TLAPS

Last == Len(requests)

(* What the bounds on cards and codes say of the log. *)
LogOK ==
  /\ Last =< MaxRequests /\ qrs =< MaxQr
  /\ pc \in {"debounce", "gate"} => Last < MaxRequests
  /\ pc = "publish" => Last > 0

(* The age of the gate, as far as the code tells ages apart, is the age of the *)
(* last request, which is the youngest.                                        *)
AgesOK ==
  /\ \A i \in 1..Last : requests[i].at =< requests[Last].at /\ requests[Last].at =< clock
  /\ Last > 0 =>
       gateAge = IF clock - requests[Last].at =< GateTimeout
                 THEN clock - requests[Last].at ELSE GateTimeout + 1

(* While the gate is taken, the last request has not had its answer handled. *)
HeldForLast == inFlight => Last > 0 /\ ~requests[Last].heard

Earlier == Waiting \ {Last}

(* Each young request but the one the gate is held for has been let go by an   *)
(* answer that was not its own.                                                *)
CountOK ==
  /\ Cardinality(Earlier) =< foreign
  /\ ~inFlight => Cardinality(Waiting) =< foreign

IInv == RequestsTypeOK /\ LogOK /\ AgesOK /\ HeldForLast /\ CountOK

-----------------------------------------------------------------------------
LEMMA Shrinks ==
  ASSUME NEW S, NEW T, IsFiniteSet(T), S \subseteq T
  PROVE  IsFiniteSet(S) /\ Cardinality(S) \in Nat /\ Cardinality(T) \in Nat
         /\ Cardinality(S) =< Cardinality(T)
  BY FS_Subset, FS_CardinalityType

(* The log: its domain, and that what waits in it is finite. *)
LEMMA TheLog ==
  ASSUME RequestsTypeOK
  PROVE  /\ Last \in Nat /\ DOMAIN requests = 1..Last
         /\ \A i \in 1..Last : requests[i] \in Request
         /\ IsFiniteSet(Waiting) /\ Waiting \subseteq 1..Last
         /\ IsFiniteSet(Earlier)
         /\ Cardinality(Waiting) \in Nat /\ Cardinality(Earlier) \in Nat
  <1>1. Last \in Nat /\ DOMAIN requests = 1..Last
    BY LenProperties DEF RequestsTypeOK, Last
  <1>2. \A i \in 1..Last : requests[i] \in Request
    BY <1>1, ElementOfSeq DEF RequestsTypeOK, Last
  <1>3. IsFiniteSet(1..Last)
    BY <1>1, FS_Interval
  <1>4. Waiting \subseteq 1..Last /\ Earlier \subseteq 1..Last
    BY <1>1 DEF Waiting, Earlier
  <1> QED
    BY <1>1, <1>2, <1>3, <1>4, Shrinks

LEMMA OneWaitingFollows == IInv => OneWaiting
  <1> SUFFICES ASSUME IInv PROVE Cardinality(Waiting) =< 1 + foreign
    BY DEF OneWaiting
  <1>1. IsFiniteSet(Waiting) /\ IsFiniteSet(Earlier) /\ Cardinality(Waiting) \in Nat
    BY TheLog DEF IInv
  <1>2. Cardinality(Earlier) = IF Last \in Waiting THEN Cardinality(Waiting) - 1 ELSE Cardinality(Waiting)
    BY <1>1, FS_RemoveElement DEF Earlier
  <1>3. foreign \in Nat /\ Cardinality(Earlier) =< foreign
    BY DEF IInv, CountOK, RequestsTypeOK
  <1> QED
    BY <1>1, <1>2, <1>3

LEMMA InitIInv == InitRequests => IInv
  <1> SUFFICES ASSUME InitRequests PROVE IInv
    OBVIOUS
  <1>1. requests \in Seq(Request) /\ Last = 0
    BY EmptySeq DEF InitRequests, Last
  <1>2. 0 \in Nat /\ DebounceTime \in 0..DebounceTime /\ GateTimeout + 1 \in 0..(GateTimeout + 1)
    BY GateAssumption
  <1>3. TypeOK
    BY <1>2 DEF InitRequests, Init, TypeOK, Readers
  <1>4. RequestsTypeOK
    BY <1>1, <1>2, <1>3 DEF InitRequests, RequestsTypeOK
  <1>5. LogOK /\ AgesOK /\ HeldForLast
    BY <1>1, RequestBounds DEF InitRequests, Init, LogOK, AgesOK, HeldForLast
  <1>6. Waiting = {} /\ Earlier = {}
    BY DEF InitRequests, Waiting, Earlier
  <1>7. CountOK
    BY <1>6, FS_EmptySet DEF InitRequests, CountOK
  <1> QED
    BY <1>4, <1>5, <1>7 DEF IInv

-----------------------------------------------------------------------------
(* The type of the reader task's variables.                                    *)
LEMMA Ages ==
  ASSUME NEW n \in Nat, NEW k \in 0..n
  PROVE  Older(k, n) \in 0..n
  BY DEF Older

LEMMA TypeStep ==
  ASSUME TypeOK, Next \/ UNCHANGED readerVars
  PROVE  TypeOK'
  <1> USE DEF fieldVars, debounceVars, gateVars, taskVars
  <1>1. CASE StartRound
    BY <1>1 DEF StartRound, TypeOK
  <1>2. CASE ReadCard
    BY <1>2 DEF ReadCard, TypeOK
  <1>3. CASE ReadNothing
    BY <1>3 DEF ReadNothing, NextReader, TypeOK, Readers
  <1>4. CASE DebounceAccepts
    <2>1. 0 \in 0..DebounceTime
      BY GateAssumption
    <2> QED
      BY <1>4, <2>1 DEF DebounceAccepts, TypeOK
  <1>5. CASE DebounceRejects
    BY <1>5 DEF DebounceRejects, NextReader, TypeOK, Readers
  <1>6. CASE AcquireGate
    <2>1. 0 \in 0..(GateTimeout + 1)
      BY GateAssumption
    <2> QED
      BY <1>6, <2>1 DEF AcquireGate, TypeOK
  <1>7. CASE GateRefuses
    BY <1>7 DEF GateRefuses, NextReader, TypeOK, Readers
  <1>8. CASE PublishEvent
    BY <1>8 DEF PublishEvent, NextReader, TypeOK, Readers
  <1>9. CASE ReleaseGate
    BY <1>9 DEF ReleaseGate, TypeOK
  <1>10. CASE Tick
    <2>1. gateAge' \in 0..(GateTimeout + 1)
      <3>1. GateTimeout + 1 \in Nat /\ gateAge \in 0..(GateTimeout + 1)
        BY GateAssumption DEF TypeOK
      <3> QED
        BY <1>10, <3>1, Ages DEF Tick
    <2>2. \A r \in Readers : Older(lastAge[r], DebounceTime) \in 0..DebounceTime
      <3>1. DebounceTime \in Nat /\ \A r \in Readers : lastAge[r] \in 0..DebounceTime
        BY GateAssumption DEF TypeOK
      <3> QED
        BY <3>1, Ages
    <2>3. lastAge' \in [Readers -> 0..DebounceTime]
      BY <1>10, <2>2 DEF Tick
    <2> QED
      BY <1>10, <2>1, <2>3 DEF Tick, TypeOK
  <1>11. CASE \E r \in Readers, c \in Cards \cup {NoCard} : MoveCard(r, c)
    BY <1>11 DEF MoveCard, TypeOK
  <1>12. CASE ToggleConnection
    BY <1>12 DEF ToggleConnection, TypeOK
  <1>13. CASE UNCHANGED readerVars
    BY <1>13 DEF readerVars, TypeOK
  <1> QED
    BY <1>1, <1>2, <1>3, <1>4, <1>5, <1>6, <1>7, <1>8, <1>9, <1>10, <1>11, <1>12, <1>13
       DEF Next, Rc522Task, People

-----------------------------------------------------------------------------
(* What every step does to the reader task is a step of AccessGate.            *)
LEMMA StepOfGate ==
  ASSUME RequestsTypeOK, NextRequests \/ UNCHANGED vars
  PROVE  TypeOK'
  <1>1. Asks \/ (\E ok \in BOOLEAN : Sends(ok)) \/ OtherStep => Next
    BY DEF Asks, Sends, OtherStep, Next, Rc522Task
  <1>2. QrAsks \/ PulseEnds \/ UNCHANGED vars => UNCHANGED readerVars
    BY DEF QrAsks, PulseEnds, vars, readerVars
  <1>3. (\E q \in Asked, granted \in BOOLEAN : ServerAnswers(q, granted)) => UNCHANGED readerVars
    BY DEF ServerAnswers, readerVars
  <1>4. (\E a \in answers : HandlesAnswer(a)) \/ TimePasses => Next
    BY DEF HandlesAnswer, ReleaseOn, TimePasses, Next
  <1>5. OutsideMoves => Next \/ UNCHANGED readerVars
    <2>1. reader \in Readers
      BY DEF RequestsTypeOK, TypeOK
    <2> QED
      BY <2>1 DEF OutsideMoves, Next, People
  <1> QED
    BY <1>1, <1>2, <1>3, <1>4, <1>5, TypeStep DEF NextRequests, RequestsTypeOK

(* A step that leaves the log, the clock and the gate alone. *)
LEMMA QuietStep ==
  ASSUME IInv, UNCHANGED <<requests, clock, foreign, gateVars>>
  PROVE  AgesOK' /\ HeldForLast' /\ CountOK'
  <1>1. Waiting' = Waiting /\ Last' = Last
    BY DEF Waiting, Last
  <1>2. CountOK'
    BY <1>1 DEF IInv, CountOK, Earlier, gateVars
  <1>3. AgesOK'
    BY <1>1 DEF IInv, AgesOK, gateVars, Last
  <1>4. HeldForLast'
    BY <1>1 DEF IInv, HeldForLast, gateVars, Last
  <1> QED
    BY <1>2, <1>3, <1>4

LEMMA OtherSteps ==
  ASSUME IInv, OtherStep \/ QrAsks \/ PulseEnds \/ OutsideMoves \/ UNCHANGED vars
  PROVE  IInv'
  <1>1. UNCHANGED <<requests, clock, foreign, gateVars, answers, answered>>
    BY DEF OtherStep, QrAsks, PulseEnds, OutsideMoves, vars, readerVars, serverVars, relayVars,
           countVars, ReadCard, StartRound, ReadNothing, DebounceAccepts, DebounceRejects,
           GateRefuses, MoveCard, ToggleConnection, gateVars
  <1>2. TypeOK'
    BY StepOfGate DEF IInv, NextRequests
  <1>3. RequestsTypeOK'
    <2>1. qrs' \in Nat
      BY DEF IInv, RequestsTypeOK, OtherStep, QrAsks, PulseEnds, OutsideMoves, vars
    <2>2. relay' \in Readers \cup {"buzzer", "none"} /\ opened' \in [Readers -> Nat] /\ repeats' \in Nat
      BY DEF IInv, RequestsTypeOK, OtherStep, QrAsks, PulseEnds, OutsideMoves, vars, relayVars, countVars
    <2> QED
      BY <1>1, <1>2, <2>1, <2>2 DEF IInv, RequestsTypeOK
  <1>4. LogOK'
    <2>1. Last' = Last /\ Last \in Nat
      BY <1>1, TheLog DEF Last, IInv
    <2>2. qrs' =< MaxQr
      BY RequestBounds DEF IInv, RequestsTypeOK, LogOK, OtherStep, QrAsks, PulseEnds, OutsideMoves, vars
    <2>3. CASE ReadCard /\ Last < MaxRequests
      BY <2>1, <2>2, <2>3 DEF ReadCard, IInv, LogOK
    <2>4. CASE DebounceAccepts
      BY <2>1, <2>2, <2>4 DEF DebounceAccepts, IInv, LogOK
    <2>5. CASE StartRound \/ ReadNothing \/ DebounceRejects \/ GateRefuses
      <3>1. pc' \in {"read", "top"}
        BY <2>5 DEF StartRound, ReadNothing, DebounceRejects, GateRefuses, NextReader
      <3> QED
        BY <2>1, <2>2, <3>1 DEF IInv, LogOK
    <2>6. CASE QrAsks \/ PulseEnds \/ OutsideMoves \/ UNCHANGED vars
      <3>1. pc' = pc
        BY <2>6 DEF QrAsks, PulseEnds, OutsideMoves, vars, readerVars, MoveCard, ToggleConnection, taskVars
      <3> QED
        BY <2>1, <2>2, <3>1 DEF IInv, LogOK
    <2> QED
      BY <2>3, <2>4, <2>5, <2>6 DEF OtherStep, Last
  <1> QED
    BY <1>1, <1>3, <1>4, QuietStep DEF IInv

LEMMA AnswerStep ==
  ASSUME IInv, NEW q \in Asked, NEW granted \in BOOLEAN, ServerAnswers(q, granted)
  PROVE  IInv'
  <1>1. UNCHANGED <<requests, clock, foreign, gateVars, pc, qrs>>
    BY DEF ServerAnswers, readerVars, gateVars, countVars
  <1>2. TypeOK'
    BY DEF IInv, RequestsTypeOK, TypeOK, ServerAnswers, readerVars
  <1>3. q \in 1..(MaxRequests + MaxQr)
    <2>1. Last \in Nat /\ DOMAIN requests = 1..Last /\ Last =< MaxRequests /\ qrs \in Nat /\ qrs =< MaxQr
      BY TheLog DEF IInv, LogOK, RequestsTypeOK
    <2>2. \A i \in 1..Last : i \in 1..(MaxRequests + MaxQr)
      BY <2>1, RequestBounds
    <2>3. \A k \in 1..qrs : MaxRequests + k \in 1..(MaxRequests + MaxQr)
      BY <2>1, RequestBounds
    <2> QED
      BY <2>1, <2>2, <2>3 DEF Asked
  <1>4. answered' \subseteq 1..(MaxRequests + MaxQr)
    BY <1>3 DEF ServerAnswers, IInv, RequestsTypeOK
  <1>5. answers' \subseteq [to : answered', granted : BOOLEAN]
    BY DEF ServerAnswers, IInv, RequestsTypeOK
  <1>6. RequestsTypeOK'
    BY <1>1, <1>2, <1>4, <1>5 DEF ServerAnswers, IInv, RequestsTypeOK, relayVars, countVars
  <1>7. LogOK'
    BY <1>1 DEF IInv, LogOK, Last
  <1> QED
    BY <1>1, <1>6, <1>7, QuietStep DEF IInv

-----------------------------------------------------------------------------
(* Asks: the new request is the youngest, and it finds either nobody waiting   *)
(* that is not paid for, or every request before it too old to be waiting.     *)
LEMMA AsksStep == ASSUME IInv, Asks PROVE IInv'
  <1> DEFINE new == [reader |-> reader, at |-> clock, sent |-> FALSE, heard |-> FALSE]
  <1>1. Last \in Nat /\ requests \in Seq(Request) /\ new \in Request /\ clock \in Nat
    BY TheLog DEF IInv, RequestsTypeOK, TypeOK, Request
  <1>2. /\ requests' \in Seq(Request) /\ Last' = Last + 1 /\ requests'[Last + 1] = new
        /\ \A i \in 1..Last : requests'[i] = requests[i]
    <2>1. requests' = Append(requests, new)
      BY DEF Asks
    <2> QED
      BY <1>1, <2>1, AppendProperties DEF Last
  <1>3. /\ UNCHANGED <<clock, qrs, answered, answers, relay, opened, repeats, foreign>>
        /\ pc = "gate" /\ pc' = "publish" /\ inFlight' /\ gateAge' = 0
    BY DEF Asks, serverVars, relayVars, countVars, AcquireGate
  <1>4. RequestsTypeOK'
    BY <1>2, <1>3, StepOfGate DEF IInv, RequestsTypeOK, NextRequests
  <1>5. LogOK'
    BY <1>1, <1>2, <1>3, RequestBounds DEF IInv, LogOK
  <1>6. AgesOK' /\ HeldForLast'
    <2>1. clock - requests'[Last'].at = 0 /\ ~requests'[Last'].heard /\ Last' > 0
      BY <1>1, <1>2
    <2>2. \A i \in 1..Last' : requests'[i].at =< clock
      <3>1. \A i \in 1..Last : requests[i].at \in Nat /\ requests[i].at =< clock
        BY <1>1, TheLog DEF IInv, AgesOK, Request
      <3>2. \A i \in 1..(Last + 1) : i \in 1..Last \/ i = Last + 1
        BY <1>1
      <3> QED
        BY <1>1, <1>2, <3>1, <3>2
    <2> QED
      BY <1>1, <1>2, <1>3, <2>1, <2>2, GateAssumption DEF AgesOK, HeldForLast
  <1>7. CountOK'
    <2>1. Earlier' \subseteq Waiting
      <3>1. DOMAIN requests = 1..Last /\ DOMAIN requests' = 1..(Last + 1)
        BY <1>1, <1>2, LenProperties DEF Last
      <3> QED
        BY <1>1, <1>2, <1>3, <3>1 DEF Earlier, Waiting
    <2>2. Cardinality(Waiting) =< foreign
      <3>1. CASE ~inFlight
        BY <3>1 DEF IInv, CountOK
      <3>2. CASE gateAge > GateTimeout
        <4>1. \A i \in 1..Last : clock - requests[i].at > GateTimeout
          <5>1. \A i \in 1..Last : requests[i].at \in Nat /\ requests[i].at =< requests[Last].at
            BY TheLog DEF IInv, AgesOK, Request
          <5>2. Last > 0 => requests[Last].at \in Nat
            BY <5>1, <1>1
          <5>3. Last > 0 => clock - requests[Last].at > GateTimeout
            BY <1>1, <3>2, <5>2, GateAssumption DEF IInv, AgesOK
          <5> QED
            BY <1>1, <5>1, <5>2, <5>3, GateAssumption
        <4>2. Waiting = {}
          <5>1. \A i \in 1..Last : requests[i].at \in Nat
            BY TheLog DEF IInv, Request
          <5> QED
            BY <1>1, <4>1, <5>1, TheLog, GateAssumption DEF Waiting, IInv
        <4> QED
          BY <4>2, FS_EmptySet DEF IInv, RequestsTypeOK
      <3> QED
        BY <3>1, <3>2 DEF Asks, AcquireGate, GateOpen
    <2>3. Cardinality(Earlier') =< Cardinality(Waiting) /\ Cardinality(Earlier') \in Nat /\ Cardinality(Waiting) \in Nat
      BY <2>1, Shrinks, TheLog DEF IInv
    <2> QED
      BY <1>3, <2>2, <2>3 DEF CountOK, IInv, RequestsTypeOK
  <1> QED
    BY <1>4, <1>5, <1>6, <1>7 DEF IInv

(* Sends says of the last request that it has left, and nothing more. *)
LEMMA SendsStep == ASSUME IInv, NEW ok \in BOOLEAN, Sends(ok) PROVE IInv'
  <1>1. /\ UNCHANGED <<clock, qrs, answered, answers, relay, opened, repeats, foreign, gateVars>>
        /\ pc = "publish" /\ pc' \in {"read", "top"}
    BY DEF Sends, serverVars, relayVars, countVars, PublishEvent, NextReader
  <1>2. Last \in 1..Last /\ Last \in Nat
    BY <1>1, TheLog DEF IInv, LogOK
  <1> DEFINE e == [requests[Last] EXCEPT !.sent = ok]
  <1>3. e \in Request /\ e.at = requests[Last].at /\ e.heard = requests[Last].heard
    BY <1>2, TheLog DEF IInv, Request
  <1>4. requests' = [requests EXCEPT ![Last] = e]
    BY DEF Sends, Last
  <1>5. /\ requests' \in Seq(Request) /\ Last' = Last
        /\ \A i \in 1..Last : requests'[i].at = requests[i].at /\ requests'[i].heard = requests[i].heard
    <2>1. requests \in Seq(Request)
      BY DEF IInv, RequestsTypeOK
    <2> QED
      BY <1>2, <1>3, <1>4, <2>1, ExceptSeq DEF Last
  <1>6. Waiting' = Waiting
    <2>1. DOMAIN requests = 1..Last /\ DOMAIN requests' = 1..Last
      BY <1>5, TheLog, LenProperties DEF IInv, Last
    <2> QED
      BY <1>1, <1>5, <2>1 DEF Waiting
  <1>7. RequestsTypeOK'
    BY <1>1, <1>5, StepOfGate DEF IInv, RequestsTypeOK, NextRequests
  <1>8. LogOK'
    BY <1>1, <1>5 DEF IInv, LogOK
  <1>9. AgesOK' /\ HeldForLast'
    BY <1>1, <1>2, <1>5 DEF IInv, AgesOK, HeldForLast, gateVars
  <1>10. CountOK'
    BY <1>1, <1>5, <1>6 DEF IInv, CountOK, Earlier, gateVars
  <1> QED
    BY <1>7, <1>8, <1>9, <1>10 DEF IInv

(* An older clock leaves fewer requests young. *)
LEMMA TimeStep == ASSUME IInv, TimePasses PROVE IInv'
  <1>1. /\ UNCHANGED <<requests, qrs, answered, answers, relay, opened, repeats, foreign, inFlight, pc>>
        /\ clock' = clock + 1 /\ gateAge' = Older(gateAge, GateTimeout + 1)
    BY DEF TimePasses, serverVars, relayVars, countVars, Tick, taskVars
  <1>2. clock \in Nat /\ Last' = Last /\ Last \in Nat
        /\ \A i \in 1..Last : requests[i].at \in Nat
    BY <1>1, TheLog DEF IInv, RequestsTypeOK, Last, Request
  <1>3. RequestsTypeOK'
    BY <1>1, <1>2, StepOfGate DEF IInv, RequestsTypeOK, NextRequests
  <1>4. LogOK' /\ HeldForLast'
    BY <1>1, <1>2 DEF IInv, LogOK, HeldForLast
  <1>5. AgesOK'
    <2>1. \A i \in 1..Last : requests[i].at =< requests[Last].at /\ requests[Last].at =< clock'
      BY <1>1, <1>2 DEF IInv, AgesOK
    <2>2. CASE Last > 0
      <3>1. requests[Last].at \in Nat /\ requests[Last].at =< clock
        BY <1>2, <2>2 DEF IInv, AgesOK
      <3> DEFINE age == clock - requests[Last].at
      <3>2. age \in Nat /\ clock' - requests[Last].at = age + 1
        BY <1>1, <1>2, <3>1
      <3>3. gateAge = IF age =< GateTimeout THEN age ELSE GateTimeout + 1
        BY <2>2 DEF IInv, AgesOK
      <3>4. gateAge' = IF age + 1 =< GateTimeout THEN age + 1 ELSE GateTimeout + 1
        <4> HIDE DEF age
        <4> QED
          BY <1>1, <3>2, <3>3, GateAssumption DEF Older
      <3> QED
        BY <1>1, <1>2, <2>1, <3>2, <3>4 DEF AgesOK
    <2>3. CASE ~(Last > 0)
      BY <1>1, <1>2, <2>1, <2>3 DEF AgesOK
    <2> QED
      BY <2>2, <2>3
  <1>6. CountOK'
    <2>1. Waiting' \subseteq Waiting
      BY <1>1, <1>2, TheLog, GateAssumption DEF Waiting, IInv
    <2>2. Earlier' \subseteq Earlier
      BY <1>2, <2>1 DEF Earlier
    <2>3. /\ Cardinality(Waiting') \in Nat /\ Cardinality(Waiting) \in Nat
          /\ Cardinality(Waiting') =< Cardinality(Waiting)
      BY <2>1, Shrinks, TheLog DEF IInv
    <2>4. /\ Cardinality(Earlier') \in Nat /\ Cardinality(Earlier) \in Nat
          /\ Cardinality(Earlier') =< Cardinality(Earlier)
      BY <2>2, Shrinks, TheLog DEF IInv
    <2> QED
      BY <1>1, <2>3, <2>4 DEF IInv, CountOK, RequestsTypeOK
  <1> QED
    BY <1>3, <1>4, <1>5, <1>6 DEF IInv

(* A handled answer gives the gate back.  If it is the one awaited, the last   *)
(* request waits no more; if not, it pays for one more.                        *)
LEMMA HandlesStep == ASSUME IInv, NEW a \in answers, HandlesAnswer(a) PROVE IInv'
  <1>1. /\ UNCHANGED <<clock, qrs, answered, gateAge, pc>>
        /\ ~inFlight' /\ answers' \subseteq answers
    BY DEF HandlesAnswer, ReleaseOn, ReleaseGate, taskVars
  <1>2. Last \in Nat /\ DOMAIN requests = 1..Last /\ \A i \in 1..Last : requests[i] \in Request
    BY TheLog DEF IInv
  <1>3. /\ requests' \in Seq(Request) /\ Last' = Last /\ DOMAIN requests' = 1..Last
        /\ \A i \in 1..Last : /\ requests'[i].at = requests[i].at
                              /\ requests'[i].heard = (i = a.to \/ requests[i].heard)
    <2>1. requests' = [i \in 1..Last |-> IF i = a.to THEN [requests[i] EXCEPT !.heard = TRUE] ELSE requests[i]]
      BY <1>2 DEF HandlesAnswer, Heard
    <2>2. \A i \in 1..Last :
            /\ requests'[i] \in Request /\ requests'[i].at = requests[i].at
            /\ requests'[i].heard = (i = a.to \/ requests[i].heard)
      BY <1>2, <2>1 DEF Request
    <2>3. requests' \in [1..Last -> Request]
      BY <2>1, <2>2
    <2>4. requests' \in Seq(Request) /\ Len(requests') = Last
      BY <1>2, <2>3
    <2> QED
      BY <2>1, <2>2, <2>4 DEF Last
  <1>4. /\ relay' \in Readers \cup {"buzzer", "none"} /\ opened' \in [Readers -> Nat]
        /\ repeats' \in Nat /\ foreign' \in Nat
    <2>1. relay' \in Readers \cup {"buzzer", "none"}
      BY DEF HandlesAnswer, RelayFor
    <2>2. opened' \in [Readers -> Nat]
      BY DEF HandlesAnswer, IInv, RequestsTypeOK
    <2>3. repeats' \in Nat /\ foreign' \in Nat
      BY DEF HandlesAnswer, IInv, RequestsTypeOK
    <2> QED
      BY <2>1, <2>2, <2>3
  <1>5. RequestsTypeOK'
    BY <1>1, <1>3, <1>4, StepOfGate DEF IInv, RequestsTypeOK, NextRequests
  <1>6. LogOK' /\ AgesOK' /\ HeldForLast'
    <2>1. LogOK' /\ HeldForLast'
      BY <1>1, <1>3 DEF IInv, LogOK, HeldForLast
    <2>2. Last > 0 => requests'[Last].at = requests[Last].at
      BY <1>2, <1>3
    <2>3. \A i \in 1..Last : Last > 0
      BY <1>2
    <2>4. \A i \in 1..Last : requests'[i].at =< requests'[Last].at /\ requests'[Last].at =< clock
      BY <1>3, <2>2, <2>3 DEF IInv, AgesOK
    <2>5. Last > 0 =>
            gateAge = IF clock - requests'[Last].at =< GateTimeout
                      THEN clock - requests'[Last].at ELSE GateTimeout + 1
      BY <2>2 DEF IInv, AgesOK
    <2>6. AgesOK'
      BY <1>1, <1>3, <2>4, <2>5 DEF AgesOK
    <2> QED
      BY <2>1, <2>6
  <1>7. Waiting' = Waiting \ {a.to}
    <2>1. Waiting = {i \in 1..Last : ~requests[i].heard /\ clock - requests[i].at =< GateTimeout}
      BY <1>2 DEF Waiting
    <2>2. Waiting' = {i \in 1..Last : ~requests'[i].heard /\ clock - requests'[i].at =< GateTimeout}
      BY <1>1, <1>3 DEF Waiting
    <2>3. \A i \in 1..Last : i \in Waiting' <=> i \in Waiting /\ i # a.to
      BY <1>3, <2>1, <2>2
    <2> QED
      BY <2>1, <2>2, <2>3
  <1>8. /\ Cardinality(Waiting') \in Nat /\ Cardinality(Earlier') \in Nat
        /\ Cardinality(Earlier') =< Cardinality(Waiting')
    <2>1. Waiting' \subseteq Waiting /\ Earlier' \subseteq Waiting'
      BY <1>7 DEF Earlier
    <2>2. IsFiniteSet(Waiting')
      BY <2>1, TheLog, Shrinks DEF IInv
    <2> QED
      BY <2>1, <2>2, Shrinks
  <1>9. Cardinality(Waiting') =< foreign'
    <2>1. CASE a.to = Last
      <3>1. Waiting' = Earlier
        BY <1>7, <2>1 DEF Earlier
      <3>2. foreign' >= foreign
        BY DEF HandlesAnswer, IInv, RequestsTypeOK
      <3> QED
        BY <1>4, <1>8, <3>1, <3>2 DEF IInv, CountOK, RequestsTypeOK
    <2>2. CASE a.to # Last
      <3>1. foreign' = foreign + 1
        BY <2>2 DEF HandlesAnswer, Last
      <3>2. Cardinality(Waiting) =< 1 + foreign
        BY OneWaitingFollows DEF OneWaiting
      <3>3. Cardinality(Waiting) \in Nat /\ Cardinality(Waiting') =< Cardinality(Waiting)
        BY <1>7, Shrinks, TheLog DEF IInv
      <3> QED
        BY <1>8, <3>1, <3>2, <3>3 DEF IInv, RequestsTypeOK
    <2> QED
      BY <2>1, <2>2
  <1>10. CountOK'
    BY <1>4, <1>8, <1>9 DEF CountOK
  <1> QED
    BY <1>5, <1>6, <1>10 DEF IInv

-----------------------------------------------------------------------------
LEMMA Invariance == RequestsSpec => []IInv
  <1>1. IInv /\ [NextRequests]_vars => IInv'
    <2> SUFFICES ASSUME IInv, NextRequests \/ UNCHANGED vars PROVE IInv'
      OBVIOUS
    <2>1. CASE Asks
      BY <2>1, AsksStep
    <2>2. CASE \E ok \in BOOLEAN : Sends(ok)
      BY <2>2, SendsStep
    <2>3. CASE OtherStep \/ QrAsks \/ PulseEnds \/ OutsideMoves \/ UNCHANGED vars
      BY <2>3, OtherSteps
    <2>4. CASE \E q \in Asked, granted \in BOOLEAN : ServerAnswers(q, granted)
      BY <2>4, AnswerStep
    <2>5. CASE \E a \in answers : HandlesAnswer(a)
      BY <2>5, HandlesStep
    <2>6. CASE TimePasses
      BY <2>6, TimeStep
    <2> QED
      BY <2>1, <2>2, <2>3, <2>4, <2>5, <2>6 DEF NextRequests
  <1> QED
    BY InitIInv, <1>1, PTL DEF RequestsSpec

(* The variables of the gate, of the reader task and of the conversation have  *)
(* their types whatever the cards, the timeouts and the bounds.                *)
THEOREM RequestsTypeCorrect == RequestsSpec => []RequestsTypeOK
  <1>1. IInv => RequestsTypeOK
    BY DEF IInv
  <1> QED
    BY <1>1, Invariance, PTL

(* At most one young card request waits for its answer, and one more for each  *)
(* answer handled that was not the one awaited.                                *)
THEOREM OneQuestionAtATime == RequestsSpec => []OneWaiting
  BY OneWaitingFollows, Invariance, PTL

(* A card refused at the gate (rc522_reader.c:832, :853) is refused because    *)
(* the last request is young and its answer has not been handled.              *)
THEOREM RefusedForAReason == RequestsSpec => RefusedOnlyWhileWaiting
  <1>1. IInv /\ [NextRequests]_vars => [GateRefuses => Len(requests) \in Waiting]_vars
    <2> SUFFICES ASSUME IInv, GateRefuses PROVE Last \in Waiting
      BY DEF Last
    <2>1. inFlight /\ ~(gateAge > GateTimeout) /\ gateAge \in Nat
      BY GateAssumption DEF GateRefuses, GateOpen, IInv, RequestsTypeOK, TypeOK
    <2>2. Last > 0 /\ ~requests[Last].heard /\ Last \in Nat /\ DOMAIN requests = 1..Last
      BY <2>1, TheLog DEF IInv, HeldForLast
    <2>3. clock - requests[Last].at =< GateTimeout
      BY <2>1, <2>2, GateAssumption DEF IInv, AgesOK
    <2> QED
      BY <2>2, <2>3 DEF Waiting
  <1> QED
    BY <1>1, Invariance, PTL DEF RequestsSpec, RefusedOnlyWhileWaiting
=============================================================================
