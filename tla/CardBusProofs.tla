--------------------------- MODULE CardBusProofs ---------------------------
(***************************************************************************)
(* Proofs about CardBus, for any cards, texts and number of commands.      *)
(*                                                                         *)
(* WritingInv is the inductive invariant of the command: the text in the   *)
(* FIFO is the command's own and not yet sent (Frames), what has been      *)
(* written is the text (Writing), and it was written in the last           *)
(* conversation of a command that has missed nothing (OneCard).            *)
(* Undisturbed says, of a task whose conversation nobody touched, that the *)
(* FIFO holds its own frame or the answer of the card whose UID it has.    *)
(***************************************************************************)
EXTENDS CardBus, FiniteSetTheorems, TLAPS

Steps == {"load", "start", "wait", "data"}
Kinds == Exchanges \cup Answers \cup {"nothing", "rest"}
Rest == {<<"none", "pause">>, <<"none", "idle">>}

(* The types; and only rc522_task reads, only the command task writes. *)
Types ==
  /\ field \in Cards \cup {NoCard} /\ block \in [Cards -> Texts \cup {Blank}]
  /\ cardState \in {"idle", "ready", "selected", "authed", "writing"}
  /\ fifo.kind \in Kinds /\ (fifo.kind = "uid" => fifo.arg \in Cards)
  /\ lastBits \in {0, 4} /\ framing \in {0, 7} /\ crypto \in BOOLEAN
  /\ at \in [Tasks -> (Exchanges \X Steps) \cup Rest]
  /\ Exchange("reader") \notin {"write", "data"} /\ Exchange("writer") # "read"
  /\ \A t \in Tasks : Exchange(t) \in Auths => Step(t) # "data"
  /\ uid \in [Tasks -> Cards \cup {NoCard, Foreign}]
  /\ level \in [Tasks -> 0..18] /\ alone \in [Tasks -> BOOLEAN]
  /\ text \in Texts \cup {Blank} /\ commands \in 0..MaxWrites
  /\ written \subseteq Cards /\ unheard \in BOOLEAN

(* A frame that writes is the one it is about to *)
(* send, and the data is the text of its command.                              *)
Frames ==
  /\ fifo.kind \in {"write", "data"} => at["writer"] = <<fifo.kind, "start">>
  /\ fifo.kind = "data" => fifo.arg = text

(* What has been written in this command, and what tells that something was.   *)
Writing ==
  /\ \A c \in written : block[c] = text
  /\ Exchange("writer") = "data" /\ fifo.kind = "ack" => written # {}
  /\ result.ok => written # {}

(* The card of a command that has missed no acknowledgement: it was written in *)
(* the conversation that is going on, or in the one that ended the command.    *)
OneCard ==
  ~unheard =>
    /\ \A c, d \in written : c = d
    /\ written # {} =>
         at["writer"] = <<"none", "idle">> \/ (Exchange("writer") = "data" /\ Step("writer") # "load" /\ fifo.kind # "data")

-----------------------------------------------------------------------------
LEMMA Lengths ==
  /\ DOMAIN Length = Kinds
  /\ \A k \in Kinds : Length[k] \in 0..18
  /\ Length["nothing"] = 0 /\ Length["atqa"] = 2 /\ Length["uid"] = 5 /\ Length["sak"] = 3
  /\ Length["block"] = 18 /\ Length["ack"] = 1 /\ Length["rest"] = 17
  BY DEF Length, Kinds, Exchanges, Answers, Auths

LEMMA Places ==
  ASSUME Types, NEW t \in Tasks
  PROVE  /\ at[t] = <<Exchange(t), Step(t)>>
         /\ Step(t) \in Steps => Exchange(t) \in Exchanges
         /\ Step(t) \notin Steps => Exchange(t) = "none" /\ Step(t) \in {"pause", "idle"}
  BY DEF Types, Exchange, Step, Steps, Rest, Exchanges, Auths

(* Where a task goes after the exchange x. *)
After(t, x) ==
  CASE x = "request" -> {"anticoll"} [] x = "anticoll" -> {"select"} [] x = "select" -> {"authA"}
    [] x = "authA" -> {"authB", IF t = "reader" THEN "read" ELSE "write"}
    [] x = "authB" -> {IF t = "reader" THEN "read" ELSE "write"}
    [] x = "write" -> {"data"} [] OTHER -> {}

(* What the end of an exchange does to the place of its task and the outcome:  *)
(* the task reads the data, goes on, breaks off or returns.                    *)
Stays(t) ==
  /\ Step(t) = "wait" /\ Exchange(t) \notin Auths
  /\ at' = [at EXCEPT ![t] = <<Exchange(t), "data">>]
  /\ UNCHANGED <<result, event, unheard>>

GoesOn(t) ==
  /\ \E y \in After(t, Exchange(t)) : at' = [at EXCEPT ![t] = <<y, "load">>]
  /\ Exchange(t) = "write" => fifo' = Nothing
  /\ UNCHANGED <<result, event, unheard>>

Breaks(t) ==
  /\ at' = [at EXCEPT ![t] = <<"none", "pause">>]
  /\ result' = result
  /\ unheard' \in BOOLEAN
  /\ unheard => unheard'
  /\ t = "writer" /\ Exchange(t) = "data" => unheard'

Returns(t) ==
  /\ t = "writer" /\ Exchange(t) = "data" /\ fifo.kind = "ack" /\ unheard' = unheard
  /\ at' = [at EXCEPT !["writer"] = <<"none", "idle">>]
  /\ result' = [ok |-> TRUE, uid |-> uid["writer"], alone |-> alone["writer"]]

Ended(t) ==
  /\ Step(t) \in {"wait", "data"}
  /\ UNCHANGED <<field, cardState, block, written, lastBits, framing, text, commands>>
  /\ alone' = [alone EXCEPT ![Other(t)] = FALSE]
  /\ fifo' \in {fifo, Nothing, Remains}

LEMMA Failing ==
  ASSUME Types, NEW t \in Tasks, Fails(t)
  PROVE  /\ GoesOn(t) \/ Breaks(t)
         /\ crypto' \in BOOLEAN
  <1>1. CASE Exchange(t) = "authA"
    BY <1>1 DEF Fails, GoOn, GoTo, GoesOn, After, outcomeVars, Types
  <1>2. CASE Exchange(t) # "authA" /\ t = "reader" /\ Exchange(t) \in {"authB", "read"}
    <2>1. ReturnsCard(NoUser) /\ crypto' = FALSE
      BY <1>2 DEF Fails
    <2>2. at' = [at EXCEPT ![t] = <<"none", "pause">>] /\ result' = result /\ unheard' = unheard
      BY <2>1, <1>2 DEF ReturnsCard, GoTo
    <2> QED
      BY <1>2, <2>1, <2>2 DEF Breaks, Types
  <1>3. CASE Exchange(t) # "authA" /\ ~(t = "reader" /\ Exchange(t) \in {"authB", "read"})
    <2>1. GiveUp(t) /\ crypto' = (crypto /\ Exchange(t) \in {"request", "anticoll", "select"})
      BY <1>3 DEF Fails
    <2>2. at' = [at EXCEPT ![t] = <<"none", "pause">>] /\ result' = result
      BY <2>1 DEF GiveUp, GoTo
    <2>3. unheard' \in BOOLEAN /\ (unheard => unheard') /\ (Exchange(t) = "data" => unheard')
      BY <2>1, Zenon DEF GiveUp, Types
    <2>4. crypto' \in BOOLEAN
      BY <2>1, Zenon DEF Types
    <2> QED
      BY <2>2, <2>3, <2>4 DEF Breaks
  <1> QED
    BY <1>1, <1>2, <1>3

Outcome(t) == Stays(t) \/ GoesOn(t) \/ Breaks(t) \/ Returns(t)

LEMMA Waiting ==
  ASSUME Types, NEW t \in Tasks, Wait(t)
  PROVE  /\ Ended(t) /\ Outcome(t) /\ uid' = uid
         /\ level' \in [Tasks -> 0..18] /\ crypto' \in BOOLEAN
  <1>1. Ended(t) /\ uid' = uid
    BY DEF Wait, Ended, Touch, cardVars, commandVars
  <1>2. CASE /\ \E n \in Levels(t) : level' = [level EXCEPT ![t] = n]
             /\ GoTo(t, Exchange(t), "data")
             /\ UNCHANGED <<crypto, outcomeVars>>
    <2>1. PICK n \in Levels(t) : level' = [level EXCEPT ![t] = n]
      BY <1>2
    <2>2. n \in 0..18
      <3>1. fifo.kind \in Kinds
        BY DEF Types
      <3>2. Length[fifo.kind] \in 0..18
        BY <3>1, Lengths
      <3> QED
        BY <2>1, <3>2 DEF Levels, ToldApart
    <2>3. level' \in [Tasks -> 0..18]
      BY <2>1, <2>2 DEF Types
    <2>4. crypto' \in BOOLEAN
      BY <1>2 DEF Types
    <2>5. Stays(t)
      BY <1>2 DEF Stays, GoTo, outcomeVars, Wait
    <2> QED
      BY <1>1, <2>3, <2>4, <2>5 DEF Outcome
  <1>3. CASE Fails(t) /\ UNCHANGED level
    BY <1>1, <1>3, Failing DEF Outcome, Types
  <1> QED
    BY <1>2, <1>3 DEF Wait

LEMMA Authenticating ==
  ASSUME Types, NEW t \in Tasks, WaitAuth(t)
  PROVE  /\ Ended(t) /\ Outcome(t) /\ uid' = uid
         /\ level' = level /\ crypto' \in BOOLEAN
  <1>1. Ended(t) /\ uid' = uid /\ level' = level
    BY DEF WaitAuth, Ended, Touch, cardVars, commandVars
  <1>2. CASE crypto /\ GoOn(t, IF t = "reader" THEN "read" ELSE "write")
    <2>1. GoesOn(t)
      BY <1>2 DEF WaitAuth, GoesOn, GoOn, GoTo, After, Auths, outcomeVars
    <2>2. crypto' \in BOOLEAN
      BY <1>2 DEF GoOn, Types
    <2> QED
      BY <1>1, <2>1, <2>2 DEF Outcome
  <1>3. CASE Fails(t)
    BY <1>1, <1>3, Failing DEF Outcome
  <1> QED
    BY <1>2, <1>3 DEF WaitAuth

(* A reading takes some or all of what the FIFO holds.                         *)
LEMMA Parts ==
  ASSUME NEW t \in Tasks, NEW r \in Readings(t)
  PROVE  /\ r.left \in {fifo, Nothing, Remains}
         /\ r.seen = fifo \/ (~alone[t] /\ r.seen = Remains)
         /\ level[t] # 0 /\ r.seen = fifo /\ r.seen # Remains => r.left = Nothing
  <1>1. CASE level[t] = 0
    BY <1>1 DEF Readings
  <1>2. CASE level[t] # 0 /\ r = [seen |-> fifo, left |-> Nothing]
    BY <1>2
  <1>3. CASE r \in [seen : {Remains}, left : {Nothing, Remains, fifo}] /\ ~alone[t]
    BY <1>3
  <1> QED
    BY <1>1, <1>2, <1>3 DEF Readings

(* What the reading of the data decides: to go on, to fail or to return. *)
LEMMA Deciding ==
  ASSUME Types, NEW t \in Tasks, ReadData(t)
  PROVE  /\ fifo' \in {fifo, Nothing, Remains}
         /\ uid' \in [Tasks -> Cards \cup {NoCard, Foreign}]
         /\ \/ GoesOn(t) /\ crypto' = crypto
            \/ Fails(t)
            \/ /\ t = "reader" /\ Exchange(t) = "read" /\ IsBlock(t) /\ crypto' = FALSE
               /\ \E seen \in {fifo, Remains} : ReturnsCard(TextRead(seen)) /\ (alone[t] => seen = fifo)
            \/ /\ t = "writer" /\ Exchange(t) = "data" /\ IsAck(t, fifo) /\ ReturnsWritten /\ crypto' = FALSE
  <1>1. Step(t) = "data" /\ Exchange(t) \in Exchanges \ Auths
    BY Places DEF ReadData, Steps, Types
  <1>2. PICK r \in Readings(t) :
          /\ fifo' = r.left
          /\ uid' = IF Exchange(t) = "anticoll" /\ level[t] >= 5
                    THEN [uid EXCEPT ![t] = UidRead(r.seen)] ELSE uid
          /\ Exchange(t) = "request" => IF level[t] >= 2 THEN GoOn(t, "anticoll") ELSE Fails(t)
          /\ Exchange(t) = "anticoll" => IF level[t] >= 5 THEN GoOn(t, "select") ELSE Fails(t)
          /\ Exchange(t) = "select" => IF level[t] >= 1 THEN GoOn(t, "authA") ELSE Fails(t)
          /\ Exchange(t) = "read" =>
               IF IsBlock(t) THEN ReturnsCard(TextRead(r.seen)) /\ crypto' = FALSE ELSE Fails(t)
          /\ Exchange(t) = "write" => IF IsAck(t, r.seen) THEN GoOn(t, "data") ELSE Fails(t)
          /\ Exchange(t) = "data" =>
               IF IsAck(t, r.seen) THEN ReturnsWritten /\ crypto' = FALSE ELSE Fails(t)
    BY <1>1 DEF ReadData, Exchanges, Auths
  <1>3. /\ r.left \in {fifo, Nothing, Remains}
        /\ r.seen = fifo \/ (~alone[t] /\ r.seen = Remains)
        /\ level[t] # 0 /\ r.seen = fifo /\ r.seen # Remains => r.left = Nothing
    BY <1>2, Parts
  <1>4. uid' \in [Tasks -> Cards \cup {NoCard, Foreign}]
    <2>1. UidRead(r.seen) \in Cards \cup {NoCard, Foreign}
      BY <1>3 DEF UidRead, Types, Remains
    <2> QED
      BY <1>2, <2>1 DEF Types
  <1>5. IsAck(t, r.seen) => r.seen = fifo /\ r.left = Nothing /\ fifo' = Nothing
    BY <1>2, <1>3 DEF IsAck, Remains
  <1>6. CASE Exchange(t) \in {"request", "anticoll", "select"}
    <2>1. Fails(t) \/ \E y \in After(t, Exchange(t)) : GoOn(t, y)
      BY <1>2, <1>6 DEF After
    <2>2. Fails(t) \/ (GoesOn(t) /\ crypto' = crypto)
      BY <1>6, <2>1 DEF GoOn, GoTo, GoesOn, outcomeVars
    <2> QED
      BY <1>2, <1>3, <1>4, <2>2
  <1>7. CASE Exchange(t) = "read"
    <2>1. t = "reader"
      BY <1>7 DEF Types, Tasks
    <2>2. r.seen \in {fifo, Remains} /\ (alone[t] => r.seen = fifo)
      BY <1>3
    <2> QED
      BY <1>2, <1>3, <1>4, <1>7, <2>1, <2>2
  <1>8. CASE Exchange(t) = "write"
    <2>1. Fails(t) \/ (GoOn(t, "data") /\ fifo' = Nothing)
      BY <1>2, <1>5, <1>8
    <2>2. Fails(t) \/ (GoesOn(t) /\ crypto' = crypto)
      BY <1>8, <2>1 DEF GoOn, GoTo, GoesOn, After, outcomeVars
    <2> QED
      BY <1>2, <1>3, <1>4, <2>2
  <1>9. CASE Exchange(t) = "data"
    <2>1. t = "writer"
      BY <1>9 DEF Types, Tasks
    <2>2. Fails(t) \/ (IsAck(t, fifo) /\ ReturnsWritten /\ crypto' = FALSE)
      BY <1>2, <1>5, <1>9
    <2> QED
      BY <1>2, <1>3, <1>4, <1>9, <2>1, <2>2
  <1> QED
    BY <1>1, <1>6, <1>7, <1>8, <1>9 DEF Exchanges

LEMMA Reading ==
  ASSUME Types, NEW t \in Tasks, ReadData(t)
  PROVE  /\ Ended(t) /\ Outcome(t)
         /\ uid' \in [Tasks -> Cards \cup {NoCard, Foreign}]
         /\ level' \in [Tasks -> 0..18] /\ crypto' \in BOOLEAN
  <1>1. Ended(t)
    BY Deciding DEF ReadData, Ended, Touch, cardVars, commandVars
  <1>2. uid' \in [Tasks -> Cards \cup {NoCard, Foreign}]
    BY Deciding
  <1>3. level' \in [Tasks -> 0..18]
    BY DEF ReadData, Types
  <1>4. CASE GoesOn(t) /\ crypto' = crypto
    BY <1>1, <1>2, <1>3, <1>4 DEF Outcome, Types
  <1>5. CASE Fails(t)
    BY <1>1, <1>2, <1>3, <1>5, Failing DEF Outcome
  <1>6. CASE /\ t = "reader" /\ Exchange(t) = "read" /\ IsBlock(t) /\ crypto' = FALSE
             /\ \E seen \in {fifo, Remains} : ReturnsCard(TextRead(seen)) /\ (alone[t] => seen = fifo)
    <2>1. Breaks(t)
      BY <1>6 DEF ReturnsCard, GoTo, Breaks, Types
    <2> QED
      BY <1>1, <1>2, <1>3, <1>6, <2>1 DEF Outcome
  <1>7. CASE t = "writer" /\ Exchange(t) = "data" /\ IsAck(t, fifo) /\ ReturnsWritten /\ crypto' = FALSE
    <2>1. Returns(t)
      BY <1>7 DEF ReturnsWritten, GoTo, Returns, IsAck
    <2> QED
      BY <1>1, <1>2, <1>3, <1>7, <2>1 DEF Outcome
  <1> QED
    BY <1>4, <1>5, <1>6, <1>7, Deciding

LEMMA Ending ==
  ASSUME Types, NEW t \in Tasks, Wait(t) \/ WaitAuth(t) \/ ReadData(t)
  PROVE  /\ Ended(t) /\ Outcome(t)
         /\ uid' \in [Tasks -> Cards \cup {NoCard, Foreign}]
         /\ level' \in [Tasks -> 0..18] /\ crypto' \in BOOLEAN
  <1>1. CASE Wait(t)
    BY <1>1, Waiting DEF Types
  <1>2. CASE WaitAuth(t)
    BY <1>2, Authenticating DEF Types
  <1>3. CASE ReadData(t)
    BY <1>3, Reading
  <1> QED
    BY <1>1, <1>2, <1>3

-----------------------------------------------------------------------------
(* The places of the tasks after the end of an exchange. *)
LEMMA Placing ==
  ASSUME Types, NEW t \in Tasks, Ended(t), Outcome(t)
  PROVE  /\ at' \in [Tasks -> (Exchanges \X Steps) \cup Rest]
         /\ Exchange("reader")' \notin {"write", "data"} /\ Exchange("writer")' # "read"
         /\ \A s \in Tasks : Exchange(s)' \in Auths => Step(s)' # "data"
  <1>1. at \in [Tasks -> (Exchanges \X Steps) \cup Rest]
    BY DEF Types
  <1>2. Exchange(t) \in Exchanges
    BY Places DEF Ended, Steps
  <1>3. CASE Stays(t)
    BY <1>1, <1>2, <1>3 DEF Stays, Steps, Types, Exchange, Step, Tasks, Ended
  <1>4. CASE GoesOn(t)
    <2>1. PICK y \in After(t, Exchange(t)) : at' = [at EXCEPT ![t] = <<y, "load">>]
      BY <1>4 DEF GoesOn
    <2>2. y \in Exchanges /\ (t = "reader" => y \notin {"write", "data"}) /\ (t = "writer" => y # "read")
      BY <2>1 DEF After, Exchanges, Auths, Types, Tasks
    <2> QED
      BY <1>1, <2>1, <2>2 DEF Steps, Types, Exchange, Step, Tasks
  <1>5. CASE Breaks(t)
    BY <1>1, <1>5 DEF Breaks, Rest, Types, Exchange, Step, Tasks, Auths
  <1>6. CASE Returns(t)
    BY <1>1, <1>6 DEF Returns, Rest, Types, Exchange, Step, Tasks, Auths
  <1> QED
    BY <1>3, <1>4, <1>5, <1>6 DEF Outcome

-----------------------------------------------------------------------------
(* What a start does: nothing but taking the frame away, or what the card does. *)
Sent(t) ==
  /\ fifo.kind \in Exchanges /\ field \in Cards /\ Takes(fifo.kind) /\ Taken
  /\ (fifo.kind \in Auths) = (Exchange(t) \in Auths)

LEMMA Starting ==
  ASSUME Types, NEW t \in Tasks, Start(t)
  PROVE  /\ Ignored \/ Sent(t)
         /\ Step(t) = "start" /\ Exchange(t) \in Exchanges
         /\ at' = [at EXCEPT ![t] = <<Exchange(t), "wait">>]
         /\ alone' = [alone EXCEPT ![Other(t)] = FALSE]
         /\ UNCHANGED <<field, framing, uid, level, text, commands, result, event, unheard>>
  <1>1. Step(t) = "start" /\ Exchange(t) \in Exchanges
    BY Places DEF Start, Steps
  <1>2. /\ at' = [at EXCEPT ![t] = <<Exchange(t), "wait">>]
        /\ alone' = [alone EXCEPT ![Other(t)] = FALSE]
        /\ UNCHANGED <<field, framing, uid, level, text, commands, result, event, unheard>>
    BY DEF Start, GoTo, Touch, commandVars, outcomeVars
  <1>3. Ignored \/ Sent(t)
    <2>1. CASE Ignored
      BY <2>1
    <2>2. CASE /\ fifo.kind \in Exchanges /\ Takes(fifo.kind)
               /\ (fifo.kind \in Auths) = (Exchange(t) \in Auths) /\ Taken
      <3>1. field \in Cards
        BY <2>2 DEF Takes, Types
      <3> QED
        BY <2>2, <3>1, Zenon DEF Sent
    <2> QED
      BY <2>1, <2>2, Zenon DEF Start
  <1> QED
    BY <1>1, <1>2, <1>3

(* The FIFO after a start. *)
LEMMA Answering ==
  ASSUME Types, NEW t \in Tasks, Ignored \/ Sent(t)
  PROVE  /\ fifo'.kind \in Answers \cup {"nothing"} /\ (fifo'.kind = "uid" => fifo'.arg \in Cards)
         /\ fifo'.kind = "ack" => fifo.kind \in {"write", "data"}
         /\ lastBits' \in {0, 4}
  <1>1. CASE fifo' = Nothing /\ lastBits' = lastBits
    BY <1>1 DEF Nothing, Types
  <1>2. CASE /\ fifo' = AnswerTo(fifo.kind) /\ fifo.kind \in Exchanges /\ field \in Cards
             /\ lastBits' = CASE fifo'.kind = "ack" -> 4 [] fifo' = Nothing -> lastBits [] OTHER -> 0
    BY <1>2 DEF AnswerTo, Nothing, Types, Answers, Exchanges, Auths
  <1> QED
    BY <1>1, <1>2 DEF Ignored, Sent, Taken

LEMMA Encrypting ==
  ASSUME Types, NEW t \in Tasks, Ignored \/ Sent(t)
  PROVE  crypto' \in BOOLEAN
  <1>1. CASE crypto' = crypto
    BY <1>1 DEF Types
  <1>2. CASE crypto' = (crypto \/ fifo.kind \in Auths)
    BY <1>2, Zenon
  <1> QED
    BY <1>1, <1>2, Zenon DEF Ignored, Sent, Taken

(* The card after a start. *)
LEMMA Taking ==
  ASSUME Types, Frames, NEW t \in Tasks, Ignored \/ Sent(t)
  PROVE  /\ cardState' \in {"idle", "ready", "selected", "authed", "writing"}
         /\ \/ UNCHANGED <<block, written>>
            \/ /\ fifo.kind = "data" /\ at["writer"] = <<"data", "start">> /\ field \in Cards
               /\ block' = [block EXCEPT ![field] = text] /\ written' = written \cup {field}
  <1>1. cardState' \in {"idle", "ready", "selected", "authed", "writing"}
    BY DEF Ignored, Sent, Taken, StateAfter, Types
  <1> QED
    BY <1>1 DEF Ignored, Sent, Taken, Frames

(* A frame that is loaded. *)
LEMMA Loading ==
  ASSUME Types, NEW t \in Tasks, Load(t)
  PROVE  /\ Exchange(t) \in Exchanges /\ Step(t) = "load"
         /\ fifo'.kind = Exchange(t) /\ (fifo'.kind = "data" => fifo'.arg = text)
         /\ at' = [at EXCEPT ![t] = <<Exchange(t), "start">>]
         /\ framing' \in {0, 7} /\ alone' = [alone EXCEPT ![Other(t)] = FALSE]
         /\ UNCHANGED <<cardVars, lastBits, crypto, uid, level, commandVars, outcomeVars>>
  <1>1. Exchange(t) \in Exchanges /\ Step(t) = "load"
    BY Places DEF Load, Steps
  <1>2. fifo'.kind = Exchange(t) /\ (fifo'.kind = "data" => fifo'.arg = text)
    BY <1>1 DEF Load, FrameOf, Auths
  <1>3. framing' \in {0, 7}
    BY DEF Load, Types
  <1> QED
    BY <1>1, <1>2, <1>3 DEF Load, GoTo, Touch

LEMMA TypesStep ==
  ASSUME Types, Frames, [Next]_vars
  PROVE  Types'
  <1>1. ASSUME NEW t \in Tasks, Load(t) PROVE Types'
    <2>1. /\ at' \in [Tasks -> (Exchanges \X Steps) \cup Rest]
          /\ Exchange("reader")' \notin {"write", "data"} /\ Exchange("writer")' # "read"
          /\ \A s \in Tasks : Exchange(s)' \in Auths => Step(s)' # "data"
      BY <1>1, Loading DEF Types, Steps, Exchange, Step, Tasks
    <2>2. fifo'.kind \in Kinds /\ (fifo'.kind = "uid" => fifo'.arg \in Cards)
      BY <1>1, Loading DEF Kinds, Exchanges, Auths
    <2> QED
      BY <1>1, <2>1, <2>2, Loading DEF Types, cardVars, commandVars, outcomeVars
  <1>2. ASSUME NEW t \in Tasks, Start(t) PROVE Types'
    <2>1. /\ at' \in [Tasks -> (Exchanges \X Steps) \cup Rest]
          /\ Exchange("reader")' \notin {"write", "data"} /\ Exchange("writer")' # "read"
          /\ \A s \in Tasks : Exchange(s)' \in Auths => Step(s)' # "data"
      BY <1>2, Starting DEF Types, Steps, Exchange, Step, Tasks
    <2>2. fifo'.kind \in Kinds /\ (fifo'.kind = "uid" => fifo'.arg \in Cards) /\ lastBits' \in {0, 4}
      BY <1>2, Starting, Answering DEF Kinds
    <2>3. crypto' \in BOOLEAN
      BY <1>2, Starting, Encrypting
    <2>4. /\ cardState' \in {"idle", "ready", "selected", "authed", "writing"}
          /\ block' \in [Cards -> Texts \cup {Blank}] /\ written' \subseteq Cards
      BY <1>2, Starting, Taking DEF Types
    <2> QED
      BY <1>2, <2>1, <2>2, <2>3, <2>4, Starting DEF Types
  <1>3. ASSUME NEW t \in Tasks, Wait(t) \/ WaitAuth(t) \/ ReadData(t) PROVE Types'
    <2>1. Ended(t) /\ Outcome(t) /\ uid' \in [Tasks -> Cards \cup {NoCard, Foreign}]
          /\ level' \in [Tasks -> 0..18] /\ crypto' \in BOOLEAN
      BY <1>3, Ending
    <2>2. /\ at' \in [Tasks -> (Exchanges \X Steps) \cup Rest]
          /\ Exchange("reader")' \notin {"write", "data"} /\ Exchange("writer")' # "read"
          /\ \A s \in Tasks : Exchange(s)' \in Auths => Step(s)' # "data"
      BY <2>1, Placing
    <2>3. fifo'.kind \in Kinds /\ (fifo'.kind = "uid" => fifo'.arg \in Cards)
      BY <2>1 DEF Ended, Types, Nothing, Remains, Kinds
    <2>4. unheard' \in BOOLEAN
      BY <2>1 DEF Outcome, Stays, GoesOn, Breaks, Returns, Types
    <2> QED
      BY <2>1, <2>2, <2>3, <2>4 DEF Types, Ended
  <1>4. ASSUME NEW t \in Tasks, Begin(t) PROVE Types'
    <2>1. /\ at' \in [Tasks -> (Exchanges \X Steps) \cup Rest]
          /\ Exchange("reader")' \notin {"write", "data"} /\ Exchange("writer")' # "read"
          /\ \A s \in Tasks : Exchange(s)' \in Auths => Step(s)' # "data"
      BY <1>4 DEF Begin, GoTo, Types, Exchanges, Auths, Steps, Exchange, Step, Tasks
    <2>2. uid' \in [Tasks -> Cards \cup {NoCard, Foreign}] /\ alone' \in [Tasks -> BOOLEAN]
      BY <1>4 DEF Begin, Types
    <2> QED
      BY <1>4, <2>1, <2>2 DEF Begin, Types, cardVars, chipVars, commandVars
  <1>5. ASSUME NEW x \in Texts, WriteCard(x) PROVE Types'
    <2>1. /\ at' \in [Tasks -> (Exchanges \X Steps) \cup Rest]
          /\ Exchange("reader")' \notin {"write", "data"} /\ Exchange("writer")' # "read"
          /\ \A s \in Tasks : Exchange(s)' \in Auths => Step(s)' # "data"
      BY <1>5 DEF WriteCard, GoTo, Types, Auths, Rest, Exchange, Step, Tasks
    <2>2. commands' \in 0..MaxWrites
      BY <1>5, CardBusAssumption DEF WriteCard, Types
    <2> QED
      BY <1>5, <2>1, <2>2 DEF WriteCard, Types, chipVars
  <1>6. ASSUME TimesOut PROVE Types'
    BY <1>6 DEF TimesOut, GoTo, Types, Auths, Rest, Exchange, Step, Tasks, cardVars, chipVars, commandVars, outcomeVars
  <1>7. ASSUME NEW c \in Cards \cup {NoCard}, MoveCard(c) PROVE Types'
    BY <1>7 DEF MoveCard, Types, Exchange, Step, chipVars, taskVars, commandVars, outcomeVars
  <1>8. ASSUME UNCHANGED vars PROVE Types'
    BY <1>8 DEF Types, Exchange, Step, vars, cardVars, chipVars, taskVars, commandVars, outcomeVars
  <1> QED
    BY <1>1, <1>2, <1>3, <1>4, <1>5, <1>6, <1>7, <1>8 DEF Next, Exchanging

LEMMA FramesStep ==
  ASSUME Types, Frames, [Next]_vars
  PROVE  Frames'
  <1>0. at \in [Tasks -> (Exchanges \X Steps) \cup Rest]
    BY DEF Types
  <1>1. ASSUME NEW t \in Tasks, Load(t) PROVE Frames'
    <2>1. fifo'.kind \in {"write", "data"} => t = "writer"
      BY <1>1, Loading DEF Types, Tasks
    <2> QED
      BY <1>0, <1>1, <2>1, Loading DEF Frames, commandVars
  <1>2. ASSUME NEW t \in Tasks, Start(t) PROVE Frames'
    BY <1>2, Starting, Answering DEF Frames, Answers
  <1>3. ASSUME NEW t \in Tasks, Wait(t) \/ WaitAuth(t) \/ ReadData(t) PROVE Frames'
    <2>1. Ended(t) /\ Outcome(t)
      BY <1>3, Ending
    <2>2. CASE fifo' \in {Nothing, Remains}
      BY <2>2 DEF Frames, Nothing, Remains
    <2>3. CASE fifo' = fifo
      <3>1. fifo.kind \in {"write", "data"} => t # "writer"
        BY <2>1 DEF Ended, Frames, Step
      <3>2. t # "writer" => at'["writer"] = at["writer"]
        BY <1>0, <2>1 DEF Outcome, Stays, GoesOn, Breaks, Returns, Tasks
      <3> QED
        BY <2>1, <2>3, <3>1, <3>2 DEF Frames, Ended
    <2> QED
      BY <2>1, <2>2, <2>3 DEF Ended
  <1>4. ASSUME NEW t \in Tasks, Begin(t) PROVE Frames'
    BY <1>0, <1>4 DEF Begin, GoTo, Frames, Step, chipVars, commandVars, Tasks
  <1>5. ASSUME NEW x \in Texts, WriteCard(x) PROVE Frames'
    BY <1>5 DEF WriteCard, Frames, Step, chipVars
  <1>6. ASSUME TimesOut PROVE Frames'
    BY <1>6 DEF TimesOut, Frames, Step, chipVars, commandVars
  <1>7. ASSUME NEW c \in Cards \cup {NoCard}, MoveCard(c) PROVE Frames'
    BY <1>7 DEF MoveCard, Frames, chipVars, taskVars, commandVars
  <1>8. ASSUME UNCHANGED vars PROVE Frames'
    BY <1>8 DEF Frames, vars, chipVars, taskVars, commandVars
  <1> QED
    BY <1>1, <1>2, <1>3, <1>4, <1>5, <1>6, <1>7, <1>8 DEF Next, Exchanging

LEMMA WritingStep ==
  ASSUME Types, Frames, Writing, [Next]_vars
  PROVE  Writing'
  <1>0. at \in [Tasks -> (Exchanges \X Steps) \cup Rest]
    BY DEF Types
  <1>1. ASSUME NEW t \in Tasks, Load(t) PROVE Writing'
    <2>1. fifo'.kind # "ack"
      BY <1>1, Loading DEF Exchanges, Auths
    <2> QED
      BY <1>1, <2>1, Loading DEF Writing, cardVars, commandVars, outcomeVars
  <1>2. ASSUME NEW t \in Tasks, Start(t) PROVE Writing'
    <2>1. /\ \A c \in written' : block'[c] = text
          /\ written # {} => written' # {}
          /\ fifo.kind = "data" /\ fifo'.kind = "ack" => written' # {}
      <3>1. CASE Ignored
        BY <3>1 DEF Ignored, Nothing, Writing
      <3>2. CASE Sent(t)
        BY <3>2, Taking DEF Writing, Types, Sent, Taken
      <3> QED
        BY <1>2, <3>1, <3>2, Starting
    <2>2. ASSUME Exchange("writer")' = "data", fifo'.kind = "ack" PROVE written' # {}
      <3>1. fifo.kind \in {"write", "data"} /\ at["writer"] = <<fifo.kind, "start">>
        BY <1>2, <2>2, Starting, Answering DEF Frames
      <3>2. Exchange("writer") = "data"
        BY <1>0, <1>2, <2>2, Starting DEF Exchange, Tasks
      <3> QED
        BY <2>1, <2>2, <3>1, <3>2 DEF Exchange
    <2> QED
      BY <1>2, <2>1, <2>2, Starting DEF Writing
  <1>3. ASSUME NEW t \in Tasks, Wait(t) \/ WaitAuth(t) \/ ReadData(t) PROVE Writing'
    <2>1. Ended(t) /\ Outcome(t)
      BY <1>3, Ending
    <2>2. fifo'.kind = "ack" => fifo'.kind = fifo.kind
      BY <2>1 DEF Ended, Nothing, Remains
    <2>3. Exchange("writer")' = "data" /\ fifo'.kind = "ack" => Exchange("writer") = "data"
      BY <1>0, <2>1 DEF Outcome, Stays, GoesOn, After, Breaks, Returns, Exchange, Tasks, Nothing
    <2>4. result'.ok => written # {}
      BY <2>1 DEF Outcome, Stays, GoesOn, Breaks, Returns, Writing
    <2> QED
      BY <2>1, <2>2, <2>3, <2>4 DEF Writing, Ended
  <1>4. ASSUME NEW t \in Tasks, Begin(t) PROVE Writing'
    BY <1>0, <1>4 DEF Begin, GoTo, Writing, Exchange, cardVars, chipVars, commandVars, Tasks
  <1>5. ASSUME NEW x \in Texts, WriteCard(x) PROVE Writing'
    BY <1>0, <1>5 DEF WriteCard, GoTo, Writing, Exchange, Tasks
  <1>6. ASSUME TimesOut PROVE Writing'
    BY <1>0, <1>6 DEF TimesOut, GoTo, Writing, Exchange, Tasks, cardVars, chipVars, commandVars, outcomeVars
  <1>7. ASSUME NEW c \in Cards \cup {NoCard}, MoveCard(c) PROVE Writing'
    BY <1>7 DEF MoveCard, Writing, Exchange, chipVars, taskVars, commandVars, outcomeVars
  <1>8. ASSUME UNCHANGED vars PROVE Writing'
    BY <1>8 DEF Writing, Exchange, vars, cardVars, chipVars, taskVars, commandVars, outcomeVars
  <1> QED
    BY <1>1, <1>2, <1>3, <1>4, <1>5, <1>6, <1>7, <1>8 DEF Next, Exchanging

LEMMA OneCardStep ==
  ASSUME Types, Frames, Writing, OneCard, [Next]_vars
  PROVE  OneCard'
  <1>0. at \in [Tasks -> (Exchanges \X Steps) \cup Rest]
    BY DEF Types
  <1>1. ASSUME NEW t \in Tasks, Load(t) PROVE OneCard'
    <2>1. CASE t = "writer"
      BY <1>0, <1>1, <2>1, Loading DEF OneCard, Exchange, Step, cardVars, outcomeVars, Exchanges, Auths
    <2>2. CASE t = "reader"
      BY <1>0, <1>1, <2>2, Loading DEF OneCard, Exchange, Step, cardVars, outcomeVars, Types, Tasks
    <2> QED
      BY <2>1, <2>2 DEF Tasks
  <1>2. ASSUME NEW t \in Tasks, Start(t) PROVE OneCard'
    <2>1. unheard' = unheard /\ fifo'.kind # "data" /\ Step(t) = "start"
          /\ at' = [at EXCEPT ![t] = <<Exchange(t), "wait">>]
      BY <1>2, Starting, Answering DEF Answers
    <2>2. Exchange("writer")' = Exchange("writer") /\ (Step("writer")' = Step("writer") \/ Step("writer")' = "wait")
      BY <1>0, <2>1 DEF Exchange, Step, Tasks
    <2>3. at["writer"] = <<"none", "idle">> => at'["writer"] = at["writer"]
      BY <1>0, <2>1 DEF Step, Tasks
    <2>4. CASE UNCHANGED <<block, written>>
      BY <2>1, <2>2, <2>3, <2>4 DEF OneCard
    <2>5. CASE /\ fifo.kind = "data" /\ at["writer"] = <<"data", "start">>
               /\ written' = written \cup {field}
      <3>1. ~unheard => written = {}
        BY <2>5 DEF OneCard
      <3>2. Exchange("writer")' = "data" /\ Step("writer")' # "load"
        BY <2>2, <2>5 DEF Exchange, Step
      <3> QED
        BY <2>1, <2>5, <3>1, <3>2 DEF OneCard
    <2> QED
      BY <1>2, <2>4, <2>5, Starting, Taking
  <1>3. ASSUME NEW t \in Tasks, Wait(t) \/ WaitAuth(t) \/ ReadData(t) PROVE OneCard'
    <2>1. Ended(t) /\ Outcome(t)
      BY <1>3, Ending
    <2>2. fifo'.kind = "data" => fifo.kind = "data"
      BY <2>1 DEF Ended, Nothing, Remains
    <2>3. written' = written /\ (unheard => unheard')
      BY <2>1 DEF Ended, Outcome, Stays, GoesOn, Breaks, Returns
    <2>4. CASE t = "reader"
      <3>1. at'["writer"] = at["writer"]
        BY <1>0, <2>1, <2>4 DEF Outcome, Stays, GoesOn, Breaks, Returns, Tasks
      <3> QED
        BY <2>2, <2>3, <3>1 DEF OneCard, Exchange, Step
    <2>5. CASE t = "writer" /\ Exchange("writer") # "data"
      <3>1. at["writer"] # <<"none", "idle">>
        BY <2>1, <2>5 DEF Ended, Step
      <3> QED
        BY <2>3, <2>5, <3>1 DEF OneCard
    <2>6. CASE t = "writer" /\ Exchange("writer") = "data"
      <3>1. unheard' \/ at'["writer"] = <<"data", "data">> \/ at'["writer"] = <<"none", "idle">>
        BY <1>0, <2>1, <2>6 DEF Outcome, Stays, GoesOn, After, Breaks, Returns, Tasks
      <3>2. at["writer"] # <<"none", "idle">>
        BY <2>1, <2>6 DEF Ended, Step
      <3> QED
        BY <2>2, <2>3, <3>1, <3>2 DEF OneCard, Exchange, Step
    <2> QED
      BY <2>4, <2>5, <2>6 DEF Tasks
  <1>4. ASSUME NEW t \in Tasks, Begin(t) PROVE OneCard'
    <2>1. CASE t = "writer"
      BY <1>0, <1>4, <2>1, Places DEF Begin, GoTo, OneCard, Exchange, Step, Steps, cardVars
    <2>2. CASE t = "reader"
      BY <1>0, <1>4, <2>2 DEF Begin, GoTo, OneCard, Exchange, Step, cardVars, chipVars, Tasks
    <2> QED
      BY <2>1, <2>2 DEF Tasks
  <1>5. ASSUME NEW x \in Texts, WriteCard(x) PROVE OneCard'
    BY <1>5 DEF WriteCard, OneCard
  <1>6. ASSUME TimesOut PROVE OneCard'
    BY <1>0, <1>6 DEF TimesOut, GoTo, OneCard, Tasks, cardVars, outcomeVars
  <1>7. ASSUME NEW c \in Cards \cup {NoCard}, MoveCard(c) PROVE OneCard'
    BY <1>7 DEF MoveCard, OneCard, Exchange, Step, chipVars, taskVars, outcomeVars
  <1>8. ASSUME UNCHANGED vars PROVE OneCard'
    BY <1>8 DEF OneCard, Exchange, Step, vars, cardVars, chipVars, taskVars, outcomeVars
  <1> QED
    BY <1>1, <1>2, <1>3, <1>4, <1>5, <1>6, <1>7, <1>8 DEF Next, Exchanging

-----------------------------------------------------------------------------
WritingInv == Types /\ Frames /\ Writing /\ OneCard

LEMMA WritingInvariant == Spec => []WritingInv
  <1>1. Init => WritingInv
    <2>1. Init => Types
      <3> SUFFICES ASSUME Init PROVE Types
        OBVIOUS
      <3>1. /\ at \in [Tasks -> (Exchanges \X Steps) \cup Rest]
            /\ Exchange("reader") \notin {"write", "data"} /\ Exchange("writer") # "read"
            /\ \A t \in Tasks : Exchange(t) \in Auths => Step(t) # "data"
        BY DEF Init, Rest, Tasks, Exchange, Step, Auths
      <3>2. fifo.kind \in Kinds /\ (fifo.kind = "uid" => fifo.arg \in Cards) /\ commands \in 0..MaxWrites
        BY CardBusAssumption DEF Init, Nothing, Kinds
      <3>3. uid \in [Tasks -> Cards \cup {NoCard, Foreign}] /\ level \in [Tasks -> 0..18]
        BY DEF Init
      <3>4. alone \in [Tasks -> BOOLEAN] /\ crypto \in BOOLEAN /\ unheard \in BOOLEAN
        BY DEF Init
      <3> QED
        BY <3>1, <3>2, <3>3, <3>4 DEF Init, Types
    <2>2. Init => Frames /\ Writing /\ OneCard
      BY DEF Init, Frames, Writing, OneCard, Nothing, Exchange
    <2> QED
      BY <2>1, <2>2 DEF WritingInv
  <1>2. WritingInv /\ [Next]_vars => WritingInv'
    BY TypesStep, FramesStep, WritingStep, OneCardStep DEF WritingInv
  <1> QED
    BY <1>1, <1>2, PTL DEF Spec

(* The state keeps its types, whatever the cards, the texts and the number of  *)
(* commands (rc522_reader.c).                                                  *)
THEOREM BusTypes == Spec => []TypeOK
  <1>1. Types => TypeOK
    BY Lengths DEF Types, TypeOK, Rest, Steps, Tasks
  <1> QED
    BY <1>1, WritingInvariant, PTL DEF WritingInv

(* A writeCard answered OK has its text on a card, however the two tasks mix   *)
(* on the chip (rc522_reader.c:958-1053, commands.c:206-264).                  *)
THEOREM AnsweredOkIsWritten == Spec => []ReportedIsWritten
  <1>1. Writing => ReportedIsWritten
    BY DEF Writing, ReportedIsWritten
  <1> QED
    BY <1>1, WritingInvariant, PTL DEF WritingInv

(* A command writes a second card only after it has missed an acknowledgement  *)
(* (rc522_reader.c:1016).                                                      *)
THEOREM SecondCardOnlyUnheard == Spec => []OneCardUnlessUnheard
  <1>1. OneCard => OneCardUnlessUnheard
    <2> SUFFICES ASSUME OneCard, ~unheard PROVE Cardinality(written) =< 1
      BY DEF OneCardUnlessUnheard
    <2>1. CASE written = {}
      BY <2>1, FS_EmptySet
    <2>2. CASE written # {}
      <3>1. PICK c \in written : written = {c}
        BY <2>2 DEF OneCard
      <3>2. Cardinality({c}) = 1
        BY FS_Singleton, Zenon
      <3> QED
        BY <3>1, <3>2
    <2> QED
      BY <2>1, <2>2
  <1> QED
    BY <1>1, WritingInvariant, PTL DEF WritingInv

(* No card is written once the command has returned, whatever rc522_task sends *)
(* (rc522_reader.c:958-1053): data in the FIFO is the command's, not yet sent. *)
THEOREM NothingWrittenLater == Spec => WrittenInCommand
  <1>1. WritingInv /\ [Next]_vars => [block' # block => Step("writer") # "idle"]_vars
    <2> SUFFICES ASSUME Types, Frames, Next, block' # block PROVE Step("writer") # "idle"
      BY DEF WritingInv
    <2>1. ASSUME NEW t \in Tasks, Start(t) PROVE Step("writer") # "idle"
      BY <2>1, Starting, Taking DEF Step
    <2>2. ASSUME NEW t \in Tasks, Wait(t) \/ WaitAuth(t) \/ ReadData(t) PROVE FALSE
      BY <2>2, Ending DEF Ended
    <2> QED
      BY <2>1, <2>2 DEF Next, Exchanging, Load, Begin, WriteCard, TimesOut, MoveCard, cardVars
  <1> QED
    BY <1>1, WritingInvariant, PTL DEF Spec, WrittenInCommand

-----------------------------------------------------------------------------
(* A conversation that nobody disturbs.                                        *)
AnswerKind(x) ==
  CASE x = "request" -> "atqa" [] x = "anticoll" -> "uid" [] x = "select" -> "sak"
    [] x = "read" -> "block" [] x \in {"write", "data"} -> "ack" [] OTHER -> "nothing"

(* What the FIFO holds after the start: nothing, or the answer of the card     *)
(* whose UID the task has.                                                     *)
Heard(t) ==
  \/ fifo = Nothing
  \/ /\ fifo.kind = AnswerKind(Exchange(t))
     /\ fifo.kind = "block" => fifo.arg = block[uid[t]]
     /\ Exchange(t) = "data" => uid[t] \in written

(* The card in the field is the one of the conversation, or does not take part. *)
Met(t) ==
  /\ Exchange(t) = "request" /\ Step(t) \in {"wait", "data"} /\ fifo.kind = "atqa" => cardState \in {"idle", "ready"}
  /\ Exchange(t) = "anticoll" => cardState \in {"idle", "ready"}
  /\ Exchange(t) \notin {"request", "anticoll"} =>
       uid[t] \in Cards /\ (cardState \in {"idle", "ready"} \/ field = uid[t])

Conversing(t) ==
  /\ Step(t) = "start" => fifo = FrameOf(t, Exchange(t))
  /\ Step(t) \in {"wait", "data"} => Heard(t)
  /\ Step(t) = "data" => level[t] = Length[fifo.kind]
  /\ Met(t)

Undisturbed ==
  /\ \A t \in Tasks : alone[t] /\ Exchange(t) \in Exchanges => Conversing(t)
  /\ result.ok /\ result.alone => result.uid \in written

(* The card takes a frame of the conversation, or does not. *)
LEMMA Telling ==
  ASSUME Types, NEW t \in Tasks, Start(t), Conversing(t)
  PROVE  Conversing(t)'
  <1>0. at \in [Tasks -> (Exchanges \X Steps) \cup Rest]
    BY DEF Types
  <1>1. /\ fifo = FrameOf(t, Exchange(t)) /\ Met(t) /\ Exchange(t) \in Exchanges
        /\ Exchange(t)' = Exchange(t) /\ Step(t)' = "wait" /\ UNCHANGED <<field, uid>>
    BY <1>0, Starting DEF Conversing, Exchange, Step
  <1>2. CASE Ignored
    <2>1. fifo' = Nothing /\ Nothing.kind # "atqa" /\ UNCHANGED <<block, written>> /\ cardState' \in {cardState, "idle"}
      BY <1>2 DEF Ignored, Nothing
    <2> QED
      BY <1>1, <2>1 DEF Conversing, Heard, Met
  <1>3. CASE Sent(t)
    <2>1. /\ fifo.kind = Exchange(t) /\ Takes(Exchange(t)) /\ field \in Cards
          /\ cardState' = StateAfter(Exchange(t))
          /\ fifo' = Nothing \/ fifo' = AnswerTo(Exchange(t))
          /\ Exchange(t) = "data" => field \in written'
          /\ Exchange(t) # "data" => block' = block
      BY <1>1, <1>3 DEF Sent, Taken, FrameOf
    <2>2. Exchange(t) \notin {"request", "anticoll"} => uid[t] \in Cards /\ field = uid[t]
      <3>1. CASE Exchange(t) \in {"select"} \cup Auths
        BY <1>1, <2>1, <3>1 DEF Takes, FrameOf, Met, Auths
      <3>2. CASE Exchange(t) \in {"read", "write", "data"}
        BY <1>1, <2>1, <3>2 DEF Takes, Met, Auths
      <3> QED
        BY <1>1, <3>1, <3>2 DEF Exchanges
    <2>3. Met(t)'
      BY <1>1, <2>1, <2>2 DEF Met, StateAfter
    <2>4. Heard(t)'
      <3>1. CASE fifo' = Nothing
        BY <3>1 DEF Heard, Nothing
      <3>2. CASE fifo' = AnswerTo(Exchange(t))
        <4>1. fifo'.kind = AnswerKind(Exchange(t)) \/ fifo' = Nothing
          BY <1>1, <3>2 DEF AnswerTo, AnswerKind, Exchanges, Auths, Nothing
        <4>2. fifo'.kind = "block" => Exchange(t) = "read" /\ fifo'.arg = block[field]
          BY <1>1, <3>2 DEF AnswerTo, Exchanges, Auths, Nothing
        <4> QED
          BY <1>1, <2>1, <2>2, <4>1, <4>2 DEF Heard, Nothing
      <3> QED
        BY <2>1, <3>1, <3>2
    <2> QED
      BY <1>1, <2>3, <2>4 DEF Conversing
  <1> QED
    BY <1>2, <1>3, Starting

(* A task that goes on has heard an answer. *)
LEMMA Heeding ==
  ASSUME Types, NEW t \in Tasks, ReadData(t), GoesOn(t), Heard(t), level[t] = Length[fifo.kind], alone[t]
  PROVE  /\ Exchange(t) = "request" => fifo.kind = "atqa"
         /\ Exchange(t) = "anticoll" => fifo.kind = "uid" /\ level[t] = 5
  <1>1. fifo = Nothing => level[t] = 0
    BY Lengths DEF Nothing
  <1>2. PICK y \in After(t, Exchange(t)) : at' = [at EXCEPT ![t] = <<y, "load">>]
    BY DEF GoesOn
  <1>3. Exchange(t) \in {"request", "anticoll"} => ~Fails(t)
    BY <1>2 DEF Fails, GiveUp, GoTo, Types
  <1>4. Exchange(t) = "request" => level[t] # 0
    <2>1. Exchange(t) = "request" => IF level[t] >= 2 THEN GoOn(t, "anticoll") ELSE Fails(t)
      BY DEF ReadData
    <2> QED
      BY <1>3, <2>1
  <1>5. Exchange(t) = "anticoll" => level[t] # 0
    <2>1. Exchange(t) = "anticoll" => IF level[t] >= 5 THEN GoOn(t, "select") ELSE Fails(t)
      BY DEF ReadData
    <2> QED
      BY <1>3, <2>1
  <1> QED
    BY <1>1, <1>4, <1>5, Lengths DEF Heard, AnswerKind

(* The UID that an undisturbed task reads is the card's.                       *)
LEMMA Identifying ==
  ASSUME Types, NEW t \in Tasks, ReadData(t), Exchange(t) = "anticoll", level[t] = 5,
         alone[t], fifo.kind = "uid"
  PROVE  uid'[t] \in Cards
  <1>1. PICK r \in Readings(t) : uid' = [uid EXCEPT ![t] = UidRead(r.seen)]
    <2>1. PICK r \in Readings(t) :
            uid' = IF Exchange(t) = "anticoll" /\ level[t] >= 5
                   THEN [uid EXCEPT ![t] = UidRead(r.seen)] ELSE uid
      BY DEF ReadData
    <2>2. level[t] >= 5
      OBVIOUS
    <2> QED
      BY <2>1, <2>2
  <1>2. UidRead(r.seen) \in Cards
    BY <1>1, Parts DEF UidRead, Types
  <1> QED
    BY <1>1, <1>2 DEF Types

(* What the task has read is what was heard, so it goes on with the card it met. *)
LEMMA Learning ==
  ASSUME Types, NEW t \in Tasks, ReadData(t), Conversing(t), GoesOn(t), alone[t]
  PROVE  Conversing(t)'
  <1>0. at \in [Tasks -> (Exchanges \X Steps) \cup Rest] /\ uid \in [Tasks -> Cards \cup {NoCard, Foreign}]
    BY DEF Types
  <1>1. PICK y \in After(t, Exchange(t)) : at' = [at EXCEPT ![t] = <<y, "load">>]
    BY DEF GoesOn
  <1>2. Exchange(t)' = y /\ Step(t)' = "load"
    BY <1>0, <1>1 DEF Exchange, Step
  <1>3. Step(t) = "data" /\ Heard(t) /\ level[t] = Length[fifo.kind] /\ Met(t) /\ Exchange(t) \in Exchanges \ Auths
    BY Places DEF Conversing, ReadData, Steps, Types
  <1>4. UNCHANGED <<field, cardState>> /\ (Exchange(t) # "anticoll" => uid' = uid)
    BY DEF ReadData, cardVars
  <1>5. Met(t)'
    <2>1. CASE Exchange(t) = "request"
      <3>1. fifo.kind = "atqa"
        BY <1>2, <1>3, <2>1, Heeding
      <3> QED
        BY <1>1, <1>2, <1>3, <1>4, <2>1, <3>1 DEF Met, After
    <2>2. CASE Exchange(t) = "anticoll"
      <3>1. fifo.kind = "uid" /\ level[t] = 5
        BY <1>2, <1>3, <2>2, Heeding
      <3>2. uid'[t] \in Cards
        BY <2>2, <3>1, Identifying
      <3> QED
        BY <1>1, <1>2, <1>3, <1>4, <2>2, <3>2 DEF Met, After
    <2>3. CASE Exchange(t) \notin {"request", "anticoll"}
      <3>1. y \notin {"request", "anticoll"}
        BY <1>1, <2>3 DEF After
      <3> QED
        BY <1>2, <1>3, <1>4, <2>3, <3>1 DEF Met
    <2> QED
      BY <2>1, <2>2, <2>3
  <1> QED
    BY <1>2, <1>5 DEF Conversing

(* A task that waits reads the level of what was heard, or goes on to key B or *)
(* past the authentication.                                                    *)
LEMMA Expecting ==
  ASSUME Types, NEW t \in Tasks, Wait(t) \/ WaitAuth(t), Conversing(t), alone[t], Exchange(t)' \in Exchanges
  PROVE  Conversing(t)'
  <1>0. at \in [Tasks -> (Exchanges \X Steps) \cup Rest] /\ level \in [Tasks -> 0..18]
    BY DEF Types
  <1>1. /\ UNCHANGED <<field, cardState, block, written, fifo, uid>>
        /\ Step(t) = "wait" /\ Heard(t) /\ Met(t) /\ Exchange(t) \in Exchanges
    BY Places DEF Conversing, Wait, WaitAuth, cardVars, Steps
  <1>2. CASE Wait(t)
    <2>1. CASE Fails(t)
      <3>1. Exchange(t)' = "none" \/ Exchange(t) = "authA"
        BY <1>0, <2>1, Failing DEF GoesOn, Breaks, Fails, GoOn, GiveUp, ReturnsCard, GoTo, Exchange
      <3> QED
        BY <1>2, <3>1 DEF Wait, Exchanges, Auths
    <2>2. CASE GoTo(t, Exchange(t), "data") /\ \E n \in Levels(t) : level' = [level EXCEPT ![t] = n]
      <3>1. Exchange(t)' = Exchange(t) /\ Step(t)' = "data"
        BY <1>0, <2>2 DEF GoTo, Exchange, Step
      <3>2. Levels(t) = {Length[fifo.kind]}
        BY <1>1 DEF Heard, Levels, AnswerKind, Nothing, Exchanges, Auths
      <3>3. level'[t] = Length[fifo.kind]
        BY <1>0, <2>2, <3>2
      <3> QED
        BY <1>1, <3>1, <3>3 DEF Conversing, Heard, Met
    <2> QED
      BY <1>2, <2>1, <2>2 DEF Wait
  <1>3. CASE WaitAuth(t)
    <2>1. GoesOn(t) \/ Breaks(t) \/ Returns(t)
      BY <1>3, Authenticating DEF Outcome, Stays, WaitAuth
    <2>2. GoesOn(t)
      BY <1>0, <2>1 DEF Breaks, Returns, Exchange, Exchanges, Auths
    <2>3. PICK y \in After(t, Exchange(t)) : at' = [at EXCEPT ![t] = <<y, "load">>]
      BY <2>2 DEF GoesOn
    <2>4. y \notin {"request", "anticoll"} /\ Exchange(t) \notin {"request", "anticoll"}
      BY <1>3, <2>3 DEF After, WaitAuth, Auths
    <2>5. Exchange(t)' = y /\ Step(t)' = "load"
      BY <1>0, <2>3 DEF Exchange, Step
    <2> QED
      BY <1>1, <2>4, <2>5 DEF Conversing, Met
  <1> QED
    BY <1>2, <1>3

LEMMA ConversingStep ==
  ASSUME Types, Frames, Undisturbed, [Next]_vars, NEW t \in Tasks, alone'[t], Exchange(t)' \in Exchanges
  PROVE  Conversing(t)'
  <1>0. at \in [Tasks -> (Exchanges \X Steps) \cup Rest] /\ alone \in [Tasks -> BOOLEAN]
    BY DEF Types
  <1>1. ASSUME NEW s \in Tasks, Exchanging(s) PROVE Conversing(t)'
    <2>1. alone' = [alone EXCEPT ![Other(s)] = FALSE]
      BY <1>1 DEF Exchanging, Load, Start, Wait, WaitAuth, ReadData, Touch
    <2>2. s = t /\ alone[t]
      BY <1>0, <2>1 DEF Other, Tasks
    <2>3. Step(t) \in Steps /\ Conversing(t)
      BY <1>1, <2>2, Places DEF Exchanging, Load, Start, Wait, WaitAuth, ReadData, Steps, Undisturbed
    <2>4. CASE Load(t)
      <3>1. Exchange(t)' = Exchange(t) /\ Step(t)' = "start"
        BY <1>0, <2>4, Loading DEF Exchange, Step
      <3>2. fifo' = FrameOf(t, Exchange(t)) /\ UNCHANGED <<field, cardState, uid, text>>
        BY <2>4 DEF Load, cardVars, commandVars
      <3> QED
        BY <2>3, <3>1, <3>2 DEF Conversing, Met, FrameOf
    <2>5. CASE Start(t)
      BY <2>3, <2>5, Telling
    <2>6. CASE Wait(t) \/ WaitAuth(t)
      BY <2>2, <2>3, <2>6, Expecting
    <2>7. CASE ReadData(t)
      <3>1. Outcome(t) /\ Step(t) = "data"
        BY <2>7, Reading DEF ReadData
      <3>2. ~Breaks(t) /\ ~Returns(t)
        BY <1>0 DEF Breaks, Returns, Exchange, Exchanges, Auths
      <3>3. GoesOn(t)
        BY <3>1, <3>2 DEF Outcome, Stays
      <3> QED
        BY <2>2, <2>3, <2>7, <3>3, Learning
    <2> QED
      BY <1>1, <2>2, <2>4, <2>5, <2>6, <2>7 DEF Exchanging
  <1>2. ASSUME NEW s \in Tasks, Begin(s) PROVE Conversing(t)'
    <2>1. UNCHANGED <<field, cardState, block, written, fifo, level, text>>
      BY <1>2 DEF Begin, cardVars, chipVars, commandVars
    <2>2. CASE s = t
      BY <1>0, <1>2, <2>2 DEF Begin, GoTo, Conversing, Met, Exchange, Step
    <2>3. CASE s # t
      <3>1. at'[t] = at[t] /\ uid'[t] = uid[t] /\ alone'[t] = alone[t]
        BY <1>0, <1>2, <2>3 DEF Begin, GoTo, Types
      <3>2. Conversing(t)
        BY <3>1 DEF Undisturbed, Exchange
      <3> QED
        BY <2>1, <3>1, <3>2 DEF Conversing, Heard, Met, FrameOf, Exchange, Step
    <2> QED
      BY <2>2, <2>3
  <1>3. ASSUME NEW x \in Texts, WriteCard(x) PROVE Conversing(t)'
    <2>1. t = "reader"
      BY <1>0, <1>3 DEF WriteCard, GoTo, Exchange, Exchanges, Auths, Tasks
    <2>2. at'[t] = at[t] /\ UNCHANGED <<field, cardState, block, fifo, uid, level, alone>>
      BY <1>0, <1>3, <2>1 DEF WriteCard, GoTo, chipVars
    <2>3. Conversing(t) /\ Exchange(t) # "data"
      BY <2>1, <2>2 DEF Undisturbed, Exchange, Types
    <2> QED
      BY <2>2, <2>3 DEF Conversing, Heard, Met, FrameOf, Exchange, Step
  <1>4. ASSUME TimesOut PROVE Conversing(t)'
    <2>1. t = "reader"
      BY <1>0, <1>4 DEF TimesOut, GoTo, Exchange, Exchanges, Auths, Tasks
    <2>2. at'[t] = at[t] /\ UNCHANGED <<cardVars, chipVars, uid, level, alone, commandVars>>
      BY <1>0, <1>4, <2>1 DEF TimesOut, GoTo
    <2>3. Conversing(t)
      BY <2>2 DEF Undisturbed, Exchange
    <2> QED
      BY <2>2, <2>3 DEF Conversing, Heard, Met, FrameOf, Exchange, Step, cardVars, chipVars, commandVars
  <1>5. ASSUME NEW c \in Cards \cup {NoCard}, MoveCard(c) PROVE Conversing(t)'
    <2>1. cardState' = "idle" /\ UNCHANGED <<block, written, chipVars, taskVars, commandVars>>
      BY <1>5 DEF MoveCard
    <2>2. Conversing(t)
      BY <2>1 DEF Undisturbed, Exchange, taskVars
    <2> QED
      BY <2>1, <2>2 DEF Conversing, Heard, Met, FrameOf, Exchange, Step, chipVars, taskVars, commandVars
  <1>6. ASSUME UNCHANGED vars PROVE Conversing(t)'
    <2>1. Conversing(t)
      BY <1>6 DEF Undisturbed, Exchange, vars, taskVars
    <2> QED
      BY <1>6, <2>1 DEF Conversing, Heard, Met, FrameOf, Exchange, Step, vars, cardVars, chipVars, taskVars, commandVars
  <1> QED
    BY <1>1, <1>2, <1>3, <1>4, <1>5, <1>6 DEF Next

(* What the task that returns says is what it heard. *)
LEMMA UndisturbedStep ==
  ASSUME Types, Frames, Undisturbed, [Next]_vars
  PROVE  Undisturbed'
  <1>1. \A t \in Tasks : alone'[t] /\ Exchange(t)' \in Exchanges => Conversing(t)'
    BY ConversingStep
  <1>2. result'.ok /\ result'.alone => result'.uid \in written'
    <2>1. ASSUME NEW t \in Tasks, Load(t) PROVE result' = result /\ written' = written
      BY <2>1 DEF Load, cardVars, outcomeVars
    <2>2. ASSUME NEW t \in Tasks, Start(t) PROVE result' = result /\ written \subseteq written'
      BY <2>2, Starting, Taking
    <2>3. ASSUME NEW t \in Tasks, Wait(t) \/ WaitAuth(t) \/ ReadData(t), result' # result
          PROVE  result'.ok /\ result'.alone => result'.uid \in written'
      <3>1. Ended(t) /\ Outcome(t)
        BY <2>3, Ending
      <3>2. Returns(t)
        BY <2>3, <3>1 DEF Outcome, Stays, GoesOn, Breaks
      <3>3. /\ Exchange("writer") = "data" /\ fifo.kind = "ack"
            /\ result'.uid = uid["writer"] /\ result'.alone = alone["writer"]
            /\ written' = written /\ Step("writer") \in {"wait", "data"}
        BY <3>1, <3>2 DEF Returns, Ended
      <3>4. alone["writer"] => uid["writer"] \in written
        BY <3>3 DEF Undisturbed, Conversing, Heard, Nothing, Tasks, Exchanges
      <3> QED
        BY <3>3, <3>4
    <2>4. ASSUME NEW t \in Tasks, Begin(t) PROVE result' = result /\ written' = written
      BY <2>4 DEF Begin, cardVars
    <2>5. ASSUME NEW x \in Texts, WriteCard(x) PROVE ~result'.ok
      BY <2>5 DEF WriteCard
    <2>6. CASE TimesOut \/ \E c \in Cards \cup {NoCard} : MoveCard(c)
      BY <2>6 DEF TimesOut, MoveCard, Undisturbed, cardVars, outcomeVars
    <2>7. CASE UNCHANGED vars
      BY <2>7 DEF Undisturbed, vars, cardVars, outcomeVars
    <2>8. CASE result' = result /\ written \subseteq written'
      BY <2>8 DEF Undisturbed
    <2> QED
      <3>1. ASSUME NEW t \in Tasks, Wait(t) \/ WaitAuth(t) \/ ReadData(t) PROVE written' = written
        BY <3>1, Ending DEF Ended
      <3> QED
        BY <3>1, <2>1, <2>2, <2>3, <2>4, <2>5, <2>6, <2>7, <2>8 DEF Next, Exchanging
  <1> QED
    BY <1>1, <1>2 DEF Undisturbed

LEMMA UndisturbedInvariant == Spec => []Undisturbed
  <1>1. Init => Undisturbed
    BY DEF Init, Undisturbed, Exchange, Exchanges, Auths, Tasks
  <1>2. Types /\ Frames /\ Undisturbed /\ [Next]_vars => Undisturbed'
    BY UndisturbedStep
  <1> QED
    BY <1>1, <1>2, WritingInvariant, PTL DEF Spec, WritingInv

(* An undisturbed writeCard answers with the UID of a card it wrote, also when *)
(* cards are exchanged under the reader (rc522_reader.c:958-1053).             *)
THEOREM UndisturbedNames == Spec => []UndisturbedNamesItsCard
  <1>1. Undisturbed => UndisturbedNamesItsCard
    BY DEF Undisturbed, UndisturbedNamesItsCard
  <1> QED
    BY <1>1, UndisturbedInvariant, PTL

(* What a conversation that ends reports: the card without a text, or the text  *)
(* that was read with the length of a block.                                   *)
LEMMA Reporting ==
  ASSUME Types, NEW t \in Tasks, Wait(t) \/ WaitAuth(t) \/ ReadData(t), event' # event
  PROVE  \E user \in {NoUser, TextRead(fifo), TextRead(Remains)} :
           /\ t = "reader" /\ Exchange(t) \in {"authB", "read"} /\ ReturnsCard(user)
           /\ user # NoUser =>
                /\ Step(t) = "data" /\ Exchange(t) = "read" /\ IsBlock(t)
                /\ alone[t] => user = TextRead(fifo)
  <1>1. CASE Fails(t)
    <2>1. ~GiveUp(t) /\ ~GoOn(t, "authB")
      BY DEF GiveUp, GoOn, outcomeVars
    <2>2. t = "reader" /\ Exchange(t) \in {"authB", "read"} /\ ReturnsCard(NoUser)
      BY <1>1, <2>1 DEF Fails
    <2> QED
      BY <2>2
  <1>2. CASE ReadData(t) /\ ~Fails(t)
    <2>1. ~GoesOn(t) /\ ~ReturnsWritten
      BY DEF GoesOn, ReturnsWritten
    <2>2. /\ t = "reader" /\ Step(t) = "data" /\ Exchange(t) = "read" /\ IsBlock(t)
          /\ \E seen \in {fifo, Remains} : ReturnsCard(TextRead(seen)) /\ (alone[t] => seen = fifo)
      BY <1>2, <2>1, Deciding DEF ReadData
    <2> QED
      BY <2>2
  <1>3. CASE ~Fails(t) /\ (Wait(t) \/ WaitAuth(t))
    BY <1>3 DEF Wait, WaitAuth, GoOn, outcomeVars
  <1> QED
    BY <1>1, <1>2, <1>3

(* An undisturbed report names a card and has the text of that card, or none   *)
(* (rc522_reader.c:868-956).                                                   *)
THEOREM UndisturbedReads == Spec => UndisturbedReadsTruth
  <1>1. ASSUME Types, Undisturbed, [Next]_vars, event' # event, event'.alone
        PROVE  event'.uid \in Cards /\ event'.user \in {NoUser, block[event'.uid]}
    <2>1. ASSUME NEW t \in Tasks, Wait(t) \/ WaitAuth(t) \/ ReadData(t)
          PROVE  event'.uid \in Cards /\ event'.user \in {NoUser, block[event'.uid]}
      <3>1. PICK user \in {NoUser, TextRead(fifo), TextRead(Remains)} :
              /\ t = "reader" /\ Exchange(t) \in {"authB", "read"} /\ ReturnsCard(user)
              /\ user # NoUser =>
                   /\ Step(t) = "data" /\ Exchange(t) = "read" /\ IsBlock(t)
                   /\ alone[t] => user = TextRead(fifo)
        BY <1>1, <2>1, Reporting
      <3>2. event'.uid = uid["reader"] /\ event'.user = user /\ event'.alone = alone["reader"]
        BY <3>1 DEF ReturnsCard
      <3>3. Conversing("reader")
        BY <1>1, <3>1, <3>2 DEF Undisturbed, Tasks, Exchanges, Auths
      <3>4. uid["reader"] \in Cards
        BY <3>1, <3>3 DEF Conversing, Met
      <3>5. user = NoUser \/ user = block[uid["reader"]]
        <4>1. CASE user # NoUser
          <5>1. Heard("reader") /\ Length[fifo.kind] = 18 /\ Exchange("reader") = "read"
            BY <3>1, <3>3, <4>1 DEF Conversing, IsBlock
          <5>2. fifo.kind = "block" /\ fifo.arg = block[uid["reader"]]
            BY <5>1, Lengths DEF Heard, AnswerKind, Nothing
          <5> QED
            BY <1>1, <3>1, <3>2, <4>1, <5>2 DEF TextRead
        <4> QED
          BY <4>1
      <3> QED
        BY <3>2, <3>4, <3>5
    <2>2. ASSUME NEW t \in Tasks, Begin(t) PROVE FALSE
      BY <1>1, <2>2 DEF Begin, NoEvent
    <2> QED
      BY <1>1, <2>1, <2>2 DEF Next, Exchanging, Load, Start, WriteCard, TimesOut, MoveCard, outcomeVars, vars
  <1>2. Types /\ Undisturbed /\ [Next]_vars =>
          [event' # event /\ event'.alone =>
             event'.uid \in Cards /\ event'.user \in {NoUser, block[event'.uid]}]_vars
    BY <1>1
  <1> QED
    BY <1>2, WritingInvariant, UndisturbedInvariant, PTL DEF Spec, WritingInv, UndisturbedReadsTruth
=============================================================================
