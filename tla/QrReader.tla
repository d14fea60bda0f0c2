------------------------------ MODULE QrReader ------------------------------
(***************************************************************************)
(* gm861s_task: the bytes of the QR scanner, cut anywhere by the reads, go *)
(* into a buffer from which two parsers take texts in turn, one for frames *)
(* <03><length><data> and one for lines.  What they find is debounced and, *)
(* if MQTT is connected, published.  The scanner (external) sends every    *)
(* code as a frame with CR LF behind it; the UART may lose a byte.         *)
(*                                                                         *)
(* Bytes are numbers; TLC's codes are short and without a zero.            *)
(***************************************************************************)
EXTENDS Integers, Sequences, FiniteSets, FiniteSetsExt

CONSTANTS
  Codes,         \* the texts of the QR codes, as sequences of bytes
  BufferSize,    \* UART_BUF_SZ
  ReadSize,      \* the size of tmp
  DebounceTime,  \* QR_DEBOUNCE_MS, in ticks
  MaxUart,       \* bound: bytes waiting in the UART
  MaxLost        \* bound: bytes lost

ASSUME QrAssumption ==
  {BufferSize, ReadSize, DebounceTime} \subseteq Nat \ {0} /\ MaxUart \in Nat /\ MaxLost \in Nat

ASSUME CodesAssumption == \A code \in Codes : code \in Seq(0..255) /\ Len(code) \in 1..250

VARIABLES
  uart,       \* bytes received and not yet read
  rx,         \* rx and rx_len
  pc,         \* reading, or parsing what is in rx
  connected,  \* s_mqtt_connected
  last,       \* s_db.last
  lastAge,    \* the age of s_db.last_ts_us, no older than the debounce tells apart
  event,      \* the text found last, and what became of it
  lost,       \* history: losses, in the UART or for want of room in rx
  wrong,      \* history: texts found that are no code
  since       \* history: ticks since a text was last not held back

vars == <<uart, rx, pc, connected, last, lastAge, event, lost, wrong, since>>

STX == 3
QrSize == 256
Separators == {9, 10, 13}
Blanks == Separators \cup {32}
Printable(b) == b \in 32..126
NoText == << >>
NoEvent == [text |-> NoText, outcome |-> "none"]

Frame(code) == <<STX, Len(code)>> \o code \o <<13, 10>>

Init ==
  /\ uart = << >> /\ rx = << >> /\ pc = "read" /\ connected = FALSE
  /\ last = NoText /\ lastAge = DebounceTime
  /\ event = NoEvent /\ lost = 0 /\ wrong = 0 /\ since = 0

-----------------------------------------------------------------------------
Drop(s, n) == SubSeq(s, n + 1, Len(s))
Take(s, n) == SubSeq(s, 1, n)
Where(s, S) == {i \in DOMAIN s : s[i] \in S}

(* Mutation: the length byte is counted as part of the data. *)
FrameTooShort(s) == [rx |-> Drop(s, 1 + s[2]), text |-> SubSeq(s, 3, 1 + s[2])]

(* A complete frame at the head of s.                                          *)
FrameAtHead(s) == [rx |-> Drop(s, 2 + s[2]), text |-> SubSeq(s, 3, 2 + s[2])]

FromStx(s) ==
  LET stx == Where(s, {STX}) IN IF Len(s) < 2 \/ stx = {} THEN s ELSE Drop(s, Min(stx) - 1)

(* try_parse_protocol_frame: what is before the first 0x03 is dropped, a 0x03  *)
(* with an impossible length is dropped, an incomplete frame stays.            *)
try_parse_protocol_frame(s) ==
  LET head == FromStx(s) IN
  CASE Len(head) < 2 \/ head[1] # STX -> [rx |-> head, text |-> NoText]
    [] OTHER -> CASE head[2] \notin 1..250 -> [rx |-> Tail(head), text |-> NoText]
                  [] head[2] \in 1..250 /\ Len(head) < 2 + head[2] -> [rx |-> head, text |-> NoText]
                  [] OTHER -> FrameAtHead(head)

(* Mutation: any line is a text. *)
AnyLine(line) == line # NoText

(* At least 80% of a line must be printable ASCII.                             *)
IsText(line) ==
  line # NoText /\ (Cardinality({i \in DOMAIN line : Printable(line[i])}) * 100) \div Len(line) >= 80

(* try_parse_line: up to the first separator, without blanks at the end; the   *)
(* separators behind it go with it.                                            *)
try_parse_line(s) ==
  LET end == Min(Where(s, Separators))
      line == Take(s, Max({0} \cup {i \in 1..(end - 1) : s[i] \notin Blanks}))
      rest == Drop(s, Min({i \in end..Len(s) : i = Len(s) \/ s[i + 1] \notin Separators}))
  IN IF Where(s, Separators) = {} THEN [rx |-> s, text |-> NoText]
     ELSE [rx |-> rest, text |-> IF IsText(line) THEN line ELSE NoText]

-----------------------------------------------------------------------------
(* Mutation: what is read is copied whether or not it has room. *)
CopiesAll(n) ==
  /\ pc = "read" /\ pc' = "parse"
  /\ uart' = Drop(uart, n) /\ rx' = rx \o Take(uart, n) /\ event' = NoEvent
  /\ UNCHANGED <<connected, last, lastAge, lost, wrong, since>>

(* uart_read_bytes returns up to ReadSize bytes, or what came within 200 ms.   *)
(* What the buffer has no room for is lost; if it has none, all of it is.      *)
ReadBytes(n) ==
  /\ pc = "read"
  /\ pc' = "parse"
  /\ uart' = Drop(uart, n)
  /\ rx' = IF Len(rx) < BufferSize \/ n = 0
           THEN rx \o Take(uart, Min({n, BufferSize - Len(rx)})) ELSE << >>
  /\ event' = NoEvent
  /\ lost' = IF n > BufferSize - Len(rx) THEN Min({lost + 1, MaxLost + 1}) ELSE lost
  /\ UNCHANGED <<connected, last, lastAge, wrong, since>>

Repeated(text) == last = text /\ lastAge < DebounceTime

(* Mutation: a code that is shown again is young again. *)
RenewsDebounce(text) ==
  /\ last' = text /\ lastAge' = 0
  /\ event' = [text |-> text, outcome |-> IF Repeated(text) THEN "repeated"
                                          ELSE IF connected THEN "published" ELSE "unpublished"]

(* should_publish_qr, and publish_qr_event if MQTT is connected.               *)
Handles(text) ==
  IF Repeated(text)
  THEN event' = [text |-> text, outcome |-> "repeated"] /\ UNCHANGED <<last, lastAge>>
  ELSE /\ last' = text /\ lastAge' = 0
       /\ event' = [text |-> text, outcome |-> IF connected THEN "published" ELSE "unpublished"]

(* What char qr[QrSize] holds: its first bytes, up to a zero among them.        *)
CText(text) == Take(text, Min({QrSize - 1, Len(text)} \cup {i - 1 : i \in Where(text, {0})}))

(* One turn of the inner loop: the frame parser, else the line parser on what  *)
(* it left.  Without a text the loop ends, also if more could be found; one    *)
(* that begins with a zero is passed over.                                     *)
Parse ==
  /\ pc = "parse"
  /\ LET frame == try_parse_protocol_frame(rx)
         found == IF frame.text # NoText THEN frame ELSE try_parse_line(frame.rx)
         qr == CText(found.text)
     IN /\ rx' = found.rx
        /\ pc' = IF found.text = NoText THEN "read" ELSE "parse"
        /\ CASE found.text = NoText -> UNCHANGED <<last, lastAge, event, wrong, since>>
             [] found.text # NoText /\ qr = NoText ->
                  event' = NoEvent /\ UNCHANGED <<last, lastAge, wrong, since>>
             [] OTHER -> /\ Handles(qr)
                         /\ since' = IF event'.outcome = "repeated" THEN since ELSE 0
                         /\ wrong' = IF qr \in Codes \/ wrong > 2 * MaxLost THEN wrong ELSE wrong + 1
  /\ UNCHANGED <<uart, connected, lost>>

-----------------------------------------------------------------------------
(* External: the scanner, the UART, MQTT and the clock.                        *)
Scans(code) ==
  /\ Len(uart) + Len(Frame(code)) =< MaxUart
  /\ uart' = uart \o Frame(code)
  /\ UNCHANGED <<rx, pc, connected, last, lastAge, event, lost, wrong, since>>

LosesByte(i) ==
  /\ lost < MaxLost
  /\ lost' = lost + 1
  /\ uart' = Take(uart, i - 1) \o Drop(uart, i)
  /\ UNCHANGED <<rx, pc, connected, last, lastAge, event, wrong, since>>

ToggleConnection ==
  /\ connected' = ~connected
  /\ UNCHANGED <<uart, rx, pc, last, lastAge, event, lost, wrong, since>>

Tick ==
  /\ lastAge < DebounceTime \/ since < DebounceTime
  /\ lastAge' = Min({lastAge + 1, DebounceTime})
  /\ since' = Min({since + 1, DebounceTime})
  /\ UNCHANGED <<uart, rx, pc, connected, last, event, lost, wrong>>

Reading == \E n \in 0..Min({Len(uart), ReadSize}) : ReadBytes(n)

Next ==
  \/ Reading \/ Parse
  \/ \E code \in Codes : Scans(code)
  \/ \E i \in DOMAIN uart : LosesByte(i)
  \/ ToggleConnection \/ Tick

Spec == Init /\ [][Next]_vars

-----------------------------------------------------------------------------
(* The state has its types.                                                    *)
TypeOK ==
  /\ uart \in Seq(0..255) /\ rx \in Seq(0..255) /\ Len(rx) =< BufferSize
  /\ pc \in {"read", "parse"} /\ connected \in BOOLEAN
  /\ last \in Seq(0..255) /\ lastAge \in 0..DebounceTime
  /\ event.outcome \in {"none", "published", "unpublished", "repeated"}
  /\ lost \in 0..(MaxLost + 1) /\ wrong \in Nat /\ since \in 0..DebounceTime

(* However the reads cut the frames, the two parsers make no text that is no   *)
(* code but where bytes were lost, and no more than two for each loss: without *)
(* its length byte a frame lends its first letter as a length, and what is     *)
(* behind that many bytes is a line (lines 101-183, 263-270).                  *)
WrongOnlyByLoss == wrong =< 2 * lost

(* The debounce holds a code back for its time and no longer, however often it *)
(* is shown meanwhile: what is held back follows, within that time, a code     *)
(* that was not (should_publish_qr, lines 83-98).                              *)
Finds == pc = "parse" /\ pc' = "parse" /\ rx' # rx
HeldBackBriefly == [][Finds /\ event'.outcome = "repeated" => since < DebounceTime]_vars
=============================================================================
