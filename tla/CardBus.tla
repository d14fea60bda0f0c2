------------------------------ MODULE CardBus ------------------------------
(***************************************************************************)
(* The exit card reader and the two tasks that use it: rc522_task, which   *)
(* reads block 8 of whatever card it finds, and the command task, which    *)
(* writes block 8 for writeCard.  s_rc522_mutex covers one register access *)
(* and not a conversation with the card, so the two conversations          *)
(* interleave on one chip: one FIFO, one framing register, one Crypto1 bit.*)
(*                                                                         *)
(* An exchange is four steps: load the frame, start the command, wait for  *)
(* its end and read the FIFO level, read the data.  What the other task    *)
(* can do in between decides the cut; its damage to a CRC calculation or   *)
(* to a frame half loaded is a frame the card does not take, which Start   *)
(* allows of any frame.  While a transmission goes on, the other task may  *)
(* find a part of the answer and take it out.  The card is external.       *)
(***************************************************************************)
EXTENDS Integers, FiniteSets

CONSTANTS
  Cards,      \* UIDs
  NoCard,     \* nothing in the field
  Texts,      \* texts for block 8, cut to 16 bytes and padded with spaces
  Blank,      \* what block 8 of a new card holds
  MaxWrites   \* bound: writeCard commands

ASSUME CardBusAssumption ==
  NoCard \notin Cards /\ Blank \notin Texts /\ MaxWrites \in Nat

VARIABLES
  field,      \* the card at the exit reader
  cardState,  \* what the card expects next
  block,      \* block 8 of every card
  fifo,       \* what the chip's FIFO holds: a frame, an answer or nothing
  lastBits,   \* RxLastBits of ControlReg: 4 after an ACK, else 0
  framing,    \* TxLastBits of BitFramingReg: 7 for a request, else 0
  crypto,     \* MFCrypto1On of Status2Reg
  at,         \* where each task is: the exchange and the step of it
  uid,        \* uid4 of each task
  level,      \* FIFOLevelReg as each task read it
  alone,      \* no step of the other task on the chip since the conversation began
  text,       \* user_text of the writeCard command
  commands,   \* writeCard commands so far
  result,     \* what the last command returned
  event,      \* the card rc522_task read last
  written,    \* history: the cards this command has written
  unheard     \* history: a conversation of this command failed while writing

cardVars == <<field, cardState, block, written>>
chipVars == <<fifo, lastBits, framing, crypto>>
taskVars == <<at, uid, level, alone>>
commandVars == <<text, commands>>
outcomeVars == <<result, event, unheard>>
vars == <<cardVars, chipVars, taskVars, commandVars, outcomeVars>>

Tasks == {"reader", "writer"}
Other(t) == IF t = "reader" THEN "writer" ELSE "reader"

Foreign == "foreign"   \* bytes that are not what they are taken for
NoUser == "no user"    \* user = "": block 8 could not be read
NoEvent == [uid |-> NoCard, user |-> NoUser, alone |-> FALSE]

-----------------------------------------------------------------------------
(* Frames and answers, with their length in bytes.                             *)
Length ==
  [nothing |-> 0, request |-> 1, anticoll |-> 2, select |-> 9, authA |-> 12, authB |-> 12,
   read |-> 4, write |-> 4, data |-> 18,
   atqa |-> 2, uid |-> 5, sak |-> 3, block |-> 18, ack |-> 1,
   rest |-> 17]

(* Of a part of an answer the code tells these lengths apart, and no others.   *)
ToldApart == {0, 1, 2, 5, 18}

Auths == {"authA", "authB"}
Exchanges == {"request", "anticoll", "select", "read", "write", "data"} \cup Auths
Answers == {"atqa", "uid", "sak", "block", "ack"}

Nothing == [kind |-> "nothing", arg |-> Blank]
Remains == [kind |-> "rest", arg |-> Blank]   \* of what was read in part

(* The frame of an exchange: UID for select and auth, text for the data.       *)
FrameOf(t, x) ==
  [kind |-> x, arg |-> CASE x \in {"select"} \cup Auths -> uid[t] [] x = "data" -> text [] OTHER -> Blank]

Init ==
  /\ field = NoCard /\ cardState = "idle" /\ block = [c \in Cards |-> Blank]
  /\ fifo = Nothing /\ lastBits = 0 /\ framing = 0 /\ crypto = FALSE
  /\ at = [reader |-> <<"none", "pause">>, writer |-> <<"none", "idle">>]
  /\ uid = [t \in Tasks |-> NoCard] /\ level = [t \in Tasks |-> 0]
  /\ alone = [t \in Tasks |-> TRUE]
  /\ text = Blank /\ commands = 0
  /\ result = [ok |-> FALSE, uid |-> NoCard, alone |-> TRUE]
  /\ event = NoEvent
  /\ written = {} /\ unheard = FALSE

-----------------------------------------------------------------------------
Exchange(t) == at[t][1]
Step(t) == at[t][2]
GoTo(t, x, step) == at' = [at EXCEPT ![t] = <<x, step>>]

(* An access to the chip disturbs the other task's conversation.               *)
Touch(t) == alone' = [alone EXCEPT ![Other(t)] = FALSE]

(* rc522_transceive and rc522_to_card: interrupts, flush, frame.  Request and  *)
(* anticollision set the framing first, the others leave it as it is.          *)
Load(t) ==
  /\ Step(t) = "load"
  /\ fifo' = FrameOf(t, Exchange(t))
  /\ framing' = CASE Exchange(t) = "request" -> 7 [] Exchange(t) = "anticoll" -> 0 [] OTHER -> framing
  /\ GoTo(t, Exchange(t), "start")
  /\ Touch(t)
  /\ UNCHANGED <<cardVars, lastBits, crypto, uid, level, commandVars, outcomeVars>>

-----------------------------------------------------------------------------
(* The card (external): the frames it takes in each state, with the framing    *)
(* and the encryption they need.                                               *)
Takes(x) ==
  /\ field # NoCard
  /\ framing = IF x = "request" THEN 7 ELSE 0
  /\ crypto = (cardState \in {"authed", "writing"})
  /\ x \in CASE cardState = "idle" -> {"request"}
             [] cardState = "ready" -> {"anticoll", "select"}
             [] cardState = "selected" -> Auths
             [] cardState = "authed" -> {"read", "write"}
             [] cardState = "writing" -> {"data"}
  /\ x \in {"select"} \cup Auths => fifo.arg = field

StateAfter(x) ==
  CASE x \in {"request", "anticoll"} -> "ready" [] x = "select" -> "selected"
    [] x = "write" -> "writing" [] OTHER -> "authed"

AnswerTo(x) ==
  CASE x = "request" -> [kind |-> "atqa", arg |-> Blank]
    [] x = "anticoll" -> [kind |-> "uid", arg |-> field]
    [] x = "select" -> [kind |-> "sak", arg |-> Blank]
    [] x = "read" -> [kind |-> "block", arg |-> block[field]]
    [] x \in {"write", "data"} -> [kind |-> "ack", arg |-> Blank]
    [] OTHER -> Nothing

(* A frame the card does not take makes it fall back to idle without a word.   *)
Ignored ==
  /\ fifo' = Nothing
  /\ cardState' \in {cardState, "idle"}
  /\ UNCHANGED <<block, written, lastBits, crypto>>

(* A frame the card takes; its answer may be lost on the air.                  *)
Taken ==
  /\ cardState' = StateAfter(fifo.kind)
  /\ IF fifo.kind = "data"
     THEN block' = [block EXCEPT ![field] = fifo.arg] /\ written' = written \cup {field}
     ELSE UNCHANGED <<block, written>>
  /\ \/ /\ fifo' = AnswerTo(fifo.kind)
        /\ lastBits' = CASE fifo'.kind = "ack" -> 4 [] fifo' = Nothing -> lastBits [] OTHER -> 0
        /\ crypto' = (crypto \/ fifo.kind \in Auths)
     \/ fifo' = Nothing /\ UNCHANGED <<lastBits, crypto>>

(* The command starts: the chip sends what the FIFO holds, whoever put it      *)
(* there.  Only MFAuthent authenticates, and it sends nothing else.            *)
Start(t) ==
  /\ Step(t) = "start"
  /\ \/ Ignored
     \/ /\ fifo.kind \in Exchanges /\ Takes(fifo.kind)
        /\ (fifo.kind \in Auths) = (Exchange(t) \in Auths)
        /\ Taken
  /\ GoTo(t, Exchange(t), "wait")
  /\ Touch(t)
  /\ UNCHANGED <<field, framing, uid, level, commandVars, outcomeVars>>

-----------------------------------------------------------------------------
(* How a conversation goes on, and how it ends.                                *)
GoOn(t, x) == GoTo(t, x, "load") /\ UNCHANGED <<crypto, outcomeVars>>

GiveUp(t) ==
  /\ GoTo(t, "none", "pause")
  /\ unheard' = (unheard \/ Exchange(t) = "data")
  /\ UNCHANGED <<result, event>>

(* rc522_read_card_block8 returns true, with or without the text.              *)
ReturnsCard(user) ==
  /\ GoTo("reader", "none", "pause")
  /\ event' = [uid |-> uid["reader"], user |-> user, alone |-> alone["reader"]]
  /\ UNCHANGED <<result, unheard>>

(* Mutation: the command looks for another card after it has written one. *)
ReturnsLate ==
  /\ GoTo("writer", "none", "pause")
  /\ result' = [ok |-> TRUE, uid |-> uid["writer"], alone |-> alone["writer"]]
  /\ UNCHANGED <<event, unheard>>

(* Mutation: the UID is asked for once more when the card is written. *)
ReturnsField ==
  /\ GoTo("writer", "none", "idle")
  /\ result' = [ok |-> TRUE, uid |-> field, alone |-> alone["writer"]]
  /\ UNCHANGED <<event, unheard>>

(* rc522_write_card_out_block8 returns true with the UID.                      *)
ReturnsWritten ==
  /\ GoTo("writer", "none", "idle")
  /\ result' = [ok |-> TRUE, uid |-> uid["writer"], alone |-> alone["writer"]]
  /\ UNCHANGED <<event, unheard>>

(* What follows a failed exchange.  Key A is followed by key B, key B and what *)
(* comes after it by rc522_stop_crypto; a card whose block cannot be read is   *)
(* still a card.                                                               *)
Fails(t) ==
  LET x == Exchange(t) IN
  IF x = "authA" THEN GoOn(t, "authB")
  ELSE /\ crypto' = (crypto /\ x \in {"request", "anticoll", "select"})
       /\ IF t = "reader" /\ x \in {"authB", "read"} THEN ReturnsCard(NoUser) ELSE GiveUp(t)

(* The wait ends with an answer or with the chip's timer: the level is read,   *)
(* which may catch a frame of the other task half loaded.  Once the other task *)
(* has used the chip, the interrupt may be one of its own, in the middle of a  *)
(* transmission.  Or it fails: 2000 polls without either, or an error bit.     *)
Levels(t) ==
  {Length[fifo.kind]} \cup
  {n \in ToldApart : n < Length[fifo.kind] /\ (fifo.kind \in Exchanges \/ ~alone[t])}

Wait(t) ==
  /\ Step(t) = "wait"
  /\ Exchange(t) \notin Auths
  /\ \/ /\ \E n \in Levels(t) : level' = [level EXCEPT ![t] = n]
        /\ GoTo(t, Exchange(t), "data")
        /\ UNCHANGED <<crypto, outcomeVars>>
     \/ Fails(t) /\ UNCHANGED level
  /\ Touch(t)
  /\ UNCHANGED <<cardVars, fifo, lastBits, framing, uid, commandVars>>

(* rc522_auth believes Status2Reg.                                             *)
WaitAuth(t) ==
  /\ Step(t) = "wait"
  /\ Exchange(t) \in Auths
  /\ \/ crypto /\ GoOn(t, IF t = "reader" THEN "read" ELSE "write")
     \/ Fails(t)
  /\ Touch(t)
  /\ UNCHANGED <<cardVars, fifo, lastBits, framing, uid, level, commandVars>>

-----------------------------------------------------------------------------
(* The bytes read, taken as a UID and as the text of block 8.                  *)
UidRead(seen) == IF seen.kind = "uid" THEN seen.arg ELSE Foreign
TextRead(seen) == IF seen.kind \in {"block", "data"} THEN seen.arg ELSE Foreign

(* Mutation: any answer is an acknowledgement. *)
IsAnswer(t, seen) == level[t] >= 1

(* 4 bits of 0xA are an ACK.                                                   *)
IsAck(t, seen) == level[t] = 1 /\ lastBits = 4 /\ seen.kind = "ack"

(* Mutation: the length of the block is not checked. *)
IsAnyBlock(t) == level[t] >= 0

(* 0x90 bits are a block.                                                      *)
IsBlock(t) == level[t] = 18 /\ lastBits = 0

(* What is read, and what is left of it in the FIFO: in the middle of a        *)
(* transmission a part is read, and the rest comes behind.                     *)
Readings(t) ==
  IF level[t] = 0 THEN {[seen |-> fifo, left |-> fifo]}
  ELSE {[seen |-> fifo, left |-> Nothing]}
         \cup {r \in [seen : {Remains}, left : {Nothing, Remains, fifo}] : ~alone[t]}

(* FIFODataReg as often as the level says, and ControlReg.                     *)
ReadData(t) ==
  /\ Step(t) = "data"
  /\ \E r \in Readings(t) :
       /\ fifo' = r.left
       /\ uid' = IF Exchange(t) = "anticoll" /\ level[t] >= 5
                 THEN [uid EXCEPT ![t] = UidRead(r.seen)] ELSE uid
       /\ CASE Exchange(t) = "request" -> IF level[t] >= 2 THEN GoOn(t, "anticoll") ELSE Fails(t)
            [] Exchange(t) = "anticoll" -> IF level[t] >= 5 THEN GoOn(t, "select") ELSE Fails(t)
            [] Exchange(t) = "select" -> IF level[t] >= 1 THEN GoOn(t, "authA") ELSE Fails(t)
            [] Exchange(t) = "read" ->
                 IF IsBlock(t) THEN ReturnsCard(TextRead(r.seen)) /\ crypto' = FALSE ELSE Fails(t)
            [] Exchange(t) = "write" -> IF IsAck(t, r.seen) THEN GoOn(t, "data") ELSE Fails(t)
            [] Exchange(t) = "data" ->
                 IF IsAck(t, r.seen) THEN ReturnsWritten /\ crypto' = FALSE ELSE Fails(t)
  /\ level' = [level EXCEPT ![t] = 0]
  /\ Touch(t)
  /\ UNCHANGED <<cardVars, lastBits, framing, commandVars>>

-----------------------------------------------------------------------------
(* A conversation begins: rc522_task looks at the exit reader in every round,  *)
(* the command task every 100 ms until it has written or its time is over.     *)
Begin(t) ==
  /\ Step(t) = "pause"
  /\ GoTo(t, "request", "load")
  /\ uid' = [uid EXCEPT ![t] = NoCard]
  /\ alone' = [alone EXCEPT ![t] = Step(Other(t)) \in {"pause", "idle"}]
  /\ event' = IF t = "reader" THEN NoEvent ELSE event
  /\ UNCHANGED <<cardVars, chipVars, level, commandVars, result, unheard>>

(* handle_command calls rc522_write_card_out_block8.                           *)
WriteCard(x) ==
  /\ Step("writer") = "idle"
  /\ commands < MaxWrites
  /\ commands' = commands + 1 /\ text' = x
  /\ result' = [ok |-> FALSE, uid |-> NoCard, alone |-> TRUE]
  /\ written' = {} /\ unheard' = FALSE
  /\ GoTo("writer", "none", "pause")
  /\ UNCHANGED <<field, cardState, block, chipVars, uid, level, alone, event>>

(* Mutation: the time limit ends the command in the middle of a conversation. *)
TimesOutAnyTime ==
  /\ Step("writer") # "idle"
  /\ GoTo("writer", "none", "idle")
  /\ UNCHANGED <<cardVars, chipVars, uid, level, alone, commandVars, outcomeVars>>

(* 7 s are over: false.  The limit is looked at between conversations only.    *)
TimesOut ==
  /\ Step("writer") = "pause"
  /\ GoTo("writer", "none", "idle")
  /\ UNCHANGED <<cardVars, chipVars, uid, level, alone, commandVars, outcomeVars>>

(* A card comes, goes or is exchanged.                                         *)
MoveCard(c) ==
  /\ c # field
  /\ field' = c /\ cardState' = "idle"
  /\ UNCHANGED <<block, written, chipVars, taskVars, commandVars, outcomeVars>>

Exchanging(t) == Load(t) \/ Start(t) \/ Wait(t) \/ WaitAuth(t) \/ ReadData(t)

Next ==
  \/ \E t \in Tasks : Exchanging(t) \/ Begin(t)
  \/ \E x \in Texts : WriteCard(x)
  \/ TimesOut
  \/ \E c \in Cards \cup {NoCard} : MoveCard(c)

Spec == Init /\ [][Next]_vars

-----------------------------------------------------------------------------
(* The state has its types.                                                    *)
TypeOK ==
  /\ field \in Cards \cup {NoCard} /\ block \in [Cards -> Texts \cup {Blank}]
  /\ cardState \in {"idle", "ready", "selected", "authed", "writing"}
  /\ fifo.kind \in DOMAIN Length /\ lastBits \in {0, 4} /\ framing \in {0, 7}
  /\ crypto \in BOOLEAN
  /\ \A t \in Tasks :
       /\ at[t] \in (Exchanges \X {"load", "start", "wait", "data"})
                      \cup {<<"none", "pause">>, <<"none", "idle">>}
       /\ uid[t] \in Cards \cup {NoCard, Foreign} /\ level[t] \in 0..18 /\ alone[t] \in BOOLEAN
  /\ text \in Texts \cup {Blank} /\ commands \in 0..MaxWrites
  /\ written \subseteq Cards /\ unheard \in BOOLEAN

(* A writeCard answered OK (commands.c:206-264) has its text on a card, however *)
(* rc522_task interfered with the conversation.                                *)
ReportedIsWritten == result.ok => \E c \in written : block[c] = text

(* Undisturbed, it names the card it wrote, also if cards are exchanged.       *)
UndisturbedNamesItsCard == result.ok /\ result.alone => result.uid \in written

(* A second card is written only after a conversation that failed once it had  *)
(* begun to write (rc522_reader.c:1016): the acknowledgement was lost and the  *)
(* retry met another card.                                                     *)
OneCardUnlessUnheard == ~unheard => Cardinality(written) =< 1

(* A command leaves nothing behind: no block changes once it has returned.     *)
WrittenInCommand == [][block' # block => Step("writer") # "idle"]_vars

(* Undisturbed, rc522_task reports the card's own UID and its own text.        *)
UndisturbedReadsTruth ==
  [][event' # event /\ event'.alone =>
       event'.uid \in Cards /\ event'.user \in {NoUser, block[event'.uid]}]_vars
=============================================================================
