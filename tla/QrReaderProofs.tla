--------------------------- MODULE QrReaderProofs ---------------------------
(***************************************************************************)
(* Proofs about QrReader, for any codes, any buffer, however the reads cut *)
(* the bytes and however many of them are lost: both parsers only ever     *)
(* take away from the front of the buffer, the debounce holds a code back  *)
(* for its time and no longer, and, for codes as they are in use, no text  *)
(* that is no code is taken but where bytes were lost.                     *)
(***************************************************************************)
EXTENDS QrReader, SequenceTheorems, FiniteSetTheorems, TLAPS

Bytes == Seq(0..255)

-----------------------------------------------------------------------------
(* The smallest and the largest number of a set.                               *)

(* Every set of numbers has a least one: of the intervals 0..n that end in the *)
(* set one has no other inside it, as finite sets are well-founded under       *)
(* inclusion.                                                                  *)
LEMMA MinIsLeast ==
  ASSUME NEW S, S \subseteq Nat, S # {}
  PROVE  Min(S) \in S /\ \A y \in S : Min(S) =< y
  <1> DEFINE T == {0..n : n \in S}
  <1>1. T \subseteq FiniteSubsetsOf(Nat) /\ T # {}
    <2>1. \A n \in S : n \in Int /\ 0..n \subseteq Nat /\ IsFiniteSet(0..n)
      BY FS_Interval
    <2> QED
      BY <2>1 DEF FiniteSubsetsOf
  <1>2. PICK t \in T : \A u \in T : ~ (<<u, t>> \in StrictSubsetOrdering(Nat))
    <2> HIDE DEF T
    <2> QED
      BY <1>1, FS_StrictSubsetOrderingWellFounded, WFMin
  <1>3. PICK x \in S : t = 0..x
    OBVIOUS
  <1>4. ASSUME NEW y \in S PROVE x =< y
    <2>1. SUFFICES ASSUME y < x PROVE FALSE
      BY <1>3
    <2>2. x \in 0..x /\ x \notin 0..y /\ 0..y \subseteq 0..x
      BY <2>1
    <2>3. 0..y \in T /\ 0..y \subseteq Nat /\ 0..x \subseteq Nat
      OBVIOUS
    <2>4. <<0..y, t>> \in StrictSubsetOrdering(Nat)
      BY <1>3, <2>2, <2>3 DEF StrictSubsetOrdering
    <2> QED
      BY <1>2, <2>3, <2>4
  <1> QED
    BY <1>4 DEF Min

LEMMA MaxIsGreatest ==
  ASSUME NEW S, NEW n \in Nat, S \subseteq 0..n, S # {}
  PROVE  Max(S) \in S /\ \A y \in S : Max(S) >= y
  <1> DEFINE T == {k \in Nat : \E x \in S : k = n - x}
  <1>1. T \subseteq Nat /\ T # {}
    <2>1. PICK x \in S : TRUE
      OBVIOUS
    <2>2. n - x \in T
      OBVIOUS
    <2> QED
      BY <2>2
  <1>2. PICK k \in T : \A j \in T : k =< j
    BY <1>1, MinIsLeast
  <1>3. PICK x \in S : k = n - x
    BY <1>2
  <1>4. \A y \in S : n - y \in T
    OBVIOUS
  <1>5. \A y \in S : x >= y
    BY <1>2, <1>3, <1>4
  <1> QED
    BY <1>5 DEF Max

LEMMA BytesProperties ==
  ASSUME NEW s \in Bytes
  PROVE  Len(s) \in Nat /\ DOMAIN s = 1..Len(s) /\ \A i \in 1..Len(s) : s[i] \in 0..255
  BY LenProperties, ElementOfSeq DEF Bytes

(* Taking from the front and dropping from it.                                 *)
LEMMA DropType ==
  ASSUME NEW s \in Bytes, NEW n \in 0..Len(s)
  PROVE  Drop(s, n) \in Bytes /\ Len(Drop(s, n)) = Len(s) - n
  <1>1. \A i \in (n + 1)..Len(s) : i \in 1..Len(s) /\ s[i] \in 0..255
    BY BytesProperties
  <1>2. /\ SubSeq(s, n + 1, Len(s)) \in Seq(0..255)
        /\ Len(SubSeq(s, n + 1, Len(s))) = IF n + 1 =< Len(s) THEN Len(s) - (n + 1) + 1 ELSE 0
    BY <1>1, SubSeqProperties DEF Bytes
  <1> QED
    BY <1>2, LenProperties DEF Drop, Bytes

LEMMA TakeType ==
  ASSUME NEW s \in Bytes, NEW n \in 0..Len(s)
  PROVE  Take(s, n) \in Bytes /\ Len(Take(s, n)) = n
  <1>1. \A i \in 1..n : i \in 1..Len(s) /\ s[i] \in 0..255
    BY BytesProperties
  <1>2. /\ SubSeq(s, 1, n) \in Seq(0..255)
        /\ Len(SubSeq(s, 1, n)) = IF 1 =< n THEN n - 1 + 1 ELSE 0
    BY <1>1, SubSeqProperties DEF Bytes
  <1> QED
    BY <1>2, LenProperties DEF Take, Bytes

(* try_parse_protocol_frame leaves the end of what it is given, never more.    *)
LEMMA FrameParserType ==
  ASSUME NEW s \in Bytes
  PROVE  LET found == try_parse_protocol_frame(s)
         IN found.rx \in Bytes /\ Len(found.rx) =< Len(s) /\ found.text \in Bytes
  <1> DEFINE head == FromStx(s)
             found == try_parse_protocol_frame(s)
  <1>0. Len(s) \in Nat /\ DOMAIN s = 1..Len(s) /\ NoText \in Bytes
    BY LenProperties DEF Bytes, NoText
  <1>1. head \in Bytes /\ Len(head) =< Len(s)
    <2>1. CASE Len(s) < 2 \/ Where(s, {STX}) = {}
      <3>1. head = s
        BY <2>1 DEF FromStx
      <3> QED
        BY <1>0, <3>1
    <2>2. CASE ~(Len(s) < 2 \/ Where(s, {STX}) = {})
      <3>1. Where(s, {STX}) \subseteq 1..Len(s) /\ Where(s, {STX}) \subseteq Nat
        BY <1>0 DEF Where
      <3>2. Min(Where(s, {STX})) \in 1..Len(s)
        BY <2>2, <3>1, MinIsLeast
      <3>3. Min(Where(s, {STX})) - 1 \in 0..Len(s) /\ head = Drop(s, Min(Where(s, {STX})) - 1)
        BY <1>0, <2>2, <3>2 DEF FromStx
      <3> QED
        BY <1>0, <3>3, DropType
    <2> QED
      BY <2>1, <2>2
  <1> HIDE DEF head
  <1>2. Len(head) \in Nat
    BY <1>1, LenProperties DEF Bytes
  <1>3. CASE Len(head) < 2 \/ head[1] # STX
    <2>1. found = [rx |-> head, text |-> NoText]
      BY <1>3 DEF try_parse_protocol_frame, head
    <2> QED
      BY <1>0, <1>1, <2>1
  <1>4. CASE ~(Len(head) < 2 \/ head[1] # STX)
    <2>1. head # << >>
      <3>1. Len(head) >= 2
        BY <1>2, <1>4
      <3> QED
        BY <3>1
    <2>2. CASE head[2] \notin 1..250
      <3>1. found = [rx |-> Tail(head), text |-> NoText]
        BY <1>4, <2>2 DEF try_parse_protocol_frame, head
      <3>2. Tail(head) \in Bytes /\ Len(Tail(head)) = Len(head) - 1
        BY <1>1, <2>1, HeadTailProperties DEF Bytes
      <3> QED
        BY <1>0, <1>1, <1>2, <3>1, <3>2
    <2>3. CASE head[2] \in 1..250 /\ Len(head) < 2 + head[2]
      <3>1. found = [rx |-> head, text |-> NoText]
        BY <1>4, <2>3 DEF try_parse_protocol_frame, head
      <3> QED
        BY <1>0, <1>1, <3>1
    <2>4. CASE head[2] \in 1..250 /\ ~(Len(head) < 2 + head[2])
      <3>1. PICK n \in 1..250 : head[2] = n
        BY <2>4
      <3>2. found = [rx |-> Drop(head, 2 + n), text |-> SubSeq(head, 3, 2 + n)]
        BY <1>4, <2>4, <3>1 DEF try_parse_protocol_frame, head, FrameAtHead
      <3>3. 2 + n =< Len(head)
        BY <1>2, <2>4, <3>1
      <3>4. 2 + n \in 0..Len(head)
        BY <1>2, <3>3
      <3>5. Drop(head, 2 + n) \in Bytes /\ Len(Drop(head, 2 + n)) = Len(head) - (2 + n)
        BY <1>1, <3>4, DropType
      <3>6. \A i \in 3..(2 + n) : head[i] \in 0..255
        BY <1>1, <1>2, <3>3, BytesProperties
      <3>7. SubSeq(head, 3, 2 + n) \in Bytes
        BY <3>6, SubSeqProperties DEF Bytes
      <3> QED
        BY <1>0, <1>1, <1>2, <3>2, <3>5, <3>7
    <2> QED
      BY <2>2, <2>3, <2>4
  <1> QED
    BY <1>3, <1>4

(* try_parse_line too, and its text lies before the separator it ends at.      *)
LEMMA LineParserType ==
  ASSUME NEW s \in Bytes
  PROVE  LET found == try_parse_line(s)
         IN found.rx \in Bytes /\ Len(found.rx) =< Len(s) /\ found.text \in Bytes
  <1> DEFINE end == Min(Where(s, Separators))
             Text == {0} \cup {i \in 1..(end - 1) : s[i] \notin Blanks}
             Rest == {i \in end..Len(s) : i = Len(s) \/ s[i + 1] \notin Separators}
             line == Take(s, Max(Text))
             rest == Drop(s, Min(Rest))
             found == try_parse_line(s)
  <1>0. Len(s) \in Nat /\ DOMAIN s = 1..Len(s) /\ NoText \in Bytes
    BY LenProperties DEF Bytes, NoText
  <1>1. CASE Where(s, Separators) = {}
    <2>1. found = [rx |-> s, text |-> NoText]
      BY <1>1 DEF try_parse_line
    <2> QED
      BY <1>0, <2>1
  <1>2. CASE Where(s, Separators) # {}
    <2>1. end \in 1..Len(s)
      <3>1. Where(s, Separators) \subseteq 1..Len(s) /\ Where(s, Separators) \subseteq Nat
        BY <1>0 DEF Where
      <3> QED
        BY <1>2, <3>1, MinIsLeast
    <2>2. found = [rx |-> rest, text |-> IF IsText(line) THEN line ELSE NoText]
      BY <1>2 DEF try_parse_line
    <2> HIDE DEF end, found
    <2>3. line \in Bytes
      <3>1. Text \subseteq 0..Len(s) /\ Text # {}
        BY <1>0, <2>1
      <3>2. Max(Text) \in 0..Len(s)
        <4> HIDE DEF Text
        <4> QED
          BY <1>0, <3>1, MaxIsGreatest
      <3> HIDE DEF Text
      <3> QED
        BY <3>2, TakeType
    <2>4. rest \in Bytes /\ Len(rest) =< Len(s)
      <3>1. Rest \subseteq Nat /\ Len(s) \in Rest
        BY <1>0, <2>1
      <3>2. Min(Rest) \in Rest
        <4> HIDE DEF Rest
        <4> QED
          BY <3>1, MinIsLeast
      <3>3. Min(Rest) \in 0..Len(s)
        <4>1. end..Len(s) \subseteq 0..Len(s)
          BY <1>0, <2>1
        <4>2. Rest \subseteq end..Len(s)
          OBVIOUS
        <4> HIDE DEF Rest
        <4> QED
          BY <3>2, <4>1, <4>2
      <3> HIDE DEF Rest
      <3> QED
        BY <1>0, <3>3, DropType
    <2> HIDE DEF line, rest
    <2>5. found.rx = rest /\ found.text \in {line, NoText}
      BY <2>2
    <2>6. found.rx \in Bytes /\ Len(found.rx) =< Len(s) /\ found.text \in Bytes
      BY <1>0, <2>3, <2>4, <2>5
    <2> QED
      BY <2>6 DEF found
  <1> QED
    BY <1>1, <1>2

LEMMA MinOfTwo ==
  ASSUME NEW a \in Nat, NEW b \in Nat
  PROVE  Min({a, b}) = IF a =< b THEN a ELSE b
  <1>1. Min({a, b}) \in {a, b} /\ Min({a, b}) =< a /\ Min({a, b}) =< b
    BY MinIsLeast
  <1> QED
    BY <1>1

-----------------------------------------------------------------------------
(* The text that is remembered is no younger than the last one not held back. *)
AgeInv == last # NoText => since =< lastAge

IInv == TypeOK /\ AgeInv

LEMMA InitIInv == Init => IInv
  <1> SUFFICES ASSUME Init PROVE IInv
    OBVIOUS
  <1>1. << >> \in Seq(0..255) /\ Len(<< >>) = 0
    OBVIOUS
  <1>2. DebounceTime \in Nat /\ BufferSize \in Nat /\ MaxLost \in Nat
    BY QrAssumption
  <1>3. connected \in BOOLEAN
    BY DEF Init
  <1>4. lastAge \in 0..DebounceTime /\ since \in 0..DebounceTime /\ lost \in 0..(MaxLost + 1)
    BY <1>2 DEF Init
  <1>5. event.outcome = "none"
    BY DEF Init, NoEvent
  <1>6. TypeOK
    BY <1>1, <1>2, <1>3, <1>4, <1>5 DEF Init, TypeOK, NoText
  <1> QED
    BY <1>6 DEF IInv, AgeInv, Init

(* The clock: both ages grow together and stop at the debounce time.           *)
LEMMA TickStep ==
  ASSUME IInv, Tick
  PROVE  IInv'
  <1>1. DebounceTime \in Nat /\ lastAge \in Nat /\ since \in Nat
    BY QrAssumption DEF IInv, TypeOK
  <1>2. lastAge =< DebounceTime /\ since =< DebounceTime
    BY <1>1 DEF IInv, TypeOK
  <1>3. /\ lastAge' = IF lastAge + 1 =< DebounceTime THEN lastAge + 1 ELSE DebounceTime
        /\ since' = IF since + 1 =< DebounceTime THEN since + 1 ELSE DebounceTime
    BY <1>1, MinOfTwo DEF Tick
  <1>4. lastAge' \in 0..DebounceTime /\ since' \in 0..DebounceTime
    BY <1>1, <1>3
  <1>5. since =< lastAge => since' =< lastAge'
    BY <1>1, <1>2, <1>3
  <1>6. UNCHANGED <<uart, rx, pc, connected, last, event, lost, wrong>>
    BY DEF Tick
  <1>7. TypeOK'
    BY <1>4, <1>6 DEF IInv, TypeOK
  <1>8. AgeInv'
    BY <1>5, <1>6 DEF IInv, AgeInv
  <1> QED
    BY <1>7, <1>8 DEF IInv

LEMMA Joined ==
  ASSUME NEW a \in Seq(0..255), NEW b \in Seq(0..255)
  PROVE  a \o b \in Seq(0..255) /\ Len(a \o b) = Len(a) + Len(b)
  BY ConcatProperties

(* A read adds no more than there is room for. *)
LEMMA ReadStep ==
  ASSUME IInv, Reading
  PROVE  IInv'
  <1>0. /\ Len(uart) \in Nat /\ Len(rx) \in 0..BufferSize /\ BufferSize \in Nat /\ ReadSize \in Nat
        /\ MaxLost \in Nat /\ lost \in 0..(MaxLost + 1)
    BY QrAssumption DEF IInv, TypeOK
  <1>1. PICK n \in 0..Min({Len(uart), ReadSize}) : ReadBytes(n)
    BY DEF Reading
  <1>2. n \in 0..Len(uart)
    <2>1. Min({Len(uart), ReadSize}) \in 0..Len(uart)
      BY <1>0, MinOfTwo
    <2> QED
      BY <1>0, <2>1
  <1>3. uart' \in Seq(0..255)
    BY <1>1, <1>2, DropType DEF ReadBytes, IInv, TypeOK, Bytes
  <1>4. rx' \in Seq(0..255) /\ Len(rx') =< BufferSize
    <2>1. CASE Len(rx) < BufferSize \/ n = 0
      <3> DEFINE m == Min({n, BufferSize - Len(rx)})
      <3>1. BufferSize - Len(rx) \in Nat /\ n \in Nat
        BY <1>0, <1>2
      <3>2. m \in 0..n /\ m =< BufferSize - Len(rx)
        BY <3>1, MinOfTwo
      <3>3. m \in 0..Len(uart)
        BY <1>0, <1>2, <3>2
      <3> HIDE DEF m
      <3>4. Take(uart, m) \in Seq(0..255) /\ Len(Take(uart, m)) = m
        BY <3>3, TakeType DEF IInv, TypeOK, Bytes
      <3>5. /\ rx \o Take(uart, m) \in Seq(0..255)
            /\ Len(rx \o Take(uart, m)) = Len(rx) + m
        <4>1. rx \in Seq(0..255)
          BY DEF IInv, TypeOK
        <4> DEFINE new == Take(uart, m)
        <4> HIDE DEF new
        <4>2. new \in Seq(0..255) /\ Len(new) = m
          BY <3>4 DEF new
        <4>3. rx \o new \in Seq(0..255) /\ Len(rx \o new) = Len(rx) + Len(new)
          BY <4>1, <4>2, Joined
        <4> QED
          BY <4>2, <4>3 DEF new
      <3>6. rx' = rx \o Take(uart, m)
        BY <1>1, <2>1 DEF ReadBytes, m
      <3> QED
        BY <1>0, <3>1, <3>2, <3>5, <3>6
    <2>2. CASE ~(Len(rx) < BufferSize \/ n = 0)
      <3>1. rx' = << >>
        BY <1>1, <2>2 DEF ReadBytes
      <3> QED
        BY <1>0, <3>1
    <2> QED
      BY <2>1, <2>2
  <1>5. lost' \in 0..(MaxLost + 1)
    <2>1. lost' \in {lost, Min({lost + 1, MaxLost + 1})}
      BY <1>1 DEF ReadBytes
    <2>2. Min({lost + 1, MaxLost + 1}) \in 0..(MaxLost + 1)
      BY <1>0, MinOfTwo
    <2> QED
      BY <1>0, <2>1, <2>2
  <1>6. /\ pc' = "parse" /\ event' = NoEvent
        /\ UNCHANGED <<connected, last, lastAge, wrong, since>>
    BY <1>1 DEF ReadBytes
  <1>7. TypeOK'
    BY <1>3, <1>4, <1>5, <1>6 DEF IInv, TypeOK, NoEvent
  <1>8. AgeInv'
    BY <1>6 DEF IInv, AgeInv
  <1> QED
    BY <1>7, <1>8 DEF IInv

(* A C string is a text cut short.                                             *)
LEMMA CTextType ==
  ASSUME NEW t \in Bytes
  PROVE  CText(t) \in Bytes
  <1> DEFINE S == {QrSize - 1, Len(t)} \cup {i - 1 : i \in Where(t, {0})}
  <1>1. Len(t) \in Nat /\ Where(t, {0}) \subseteq 1..Len(t)
    BY BytesProperties DEF Where
  <1>2. S \subseteq Nat /\ Len(t) \in S
    BY <1>1 DEF QrSize
  <1>3. Min(S) \in Nat /\ Min(S) =< Len(t)
    <2> HIDE DEF S
    <2> QED
      BY <1>2, MinIsLeast
  <1>4. Min(S) \in 0..Len(t)
    BY <1>1, <1>3
  <1> QED
    BY <1>4, TakeType DEF CText

(* What is found is remembered unless it is held back.                         *)
LEMMA ParseStep ==
  ASSUME IInv, Parse
  PROVE  /\ IInv'
         /\ Finds /\ event'.outcome = "repeated" => since < DebounceTime
  <1> DEFINE frame == try_parse_protocol_frame(rx)
             found == IF frame.text # NoText THEN frame ELSE try_parse_line(frame.rx)
             qr == CText(found.text)
  <1>0. rx \in Bytes /\ Len(rx) \in Nat /\ Len(rx) =< BufferSize /\ BufferSize \in Nat
    BY QrAssumption DEF IInv, TypeOK, Bytes
  <1>1. frame.rx \in Bytes /\ Len(frame.rx) =< Len(rx) /\ frame.text \in Bytes
    BY <1>0, FrameParserType
  <1>2. found.rx \in Bytes /\ Len(found.rx) =< BufferSize /\ found.text \in Bytes
    <2> HIDE DEF frame
    <2>1. /\ try_parse_line(frame.rx).rx \in Bytes /\ try_parse_line(frame.rx).text \in Bytes
          /\ Len(try_parse_line(frame.rx).rx) =< Len(frame.rx)
      BY <1>1, LineParserType
    <2>2. Len(frame.rx) \in Nat /\ Len(try_parse_line(frame.rx).rx) \in Nat
      BY <1>1, <2>1, BytesProperties
    <2> QED
      BY <1>0, <1>1, <2>1, <2>2
  <1>3. /\ pc = "parse" /\ rx' = found.rx /\ UNCHANGED <<uart, connected, lost>>
        /\ \/ /\ found.text = NoText /\ pc' = "read"
              /\ UNCHANGED <<last, lastAge, event, wrong, since>>
           \/ /\ found.text # NoText /\ qr = NoText /\ pc' = "parse"
              /\ event' = NoEvent /\ UNCHANGED <<last, lastAge, wrong, since>>
           \/ /\ found.text # NoText /\ qr # NoText /\ pc' = "parse" /\ Handles(qr)
              /\ since' = IF event'.outcome = "repeated" THEN since ELSE 0
              /\ wrong' = IF qr \in Codes \/ wrong > 2 * MaxLost THEN wrong ELSE wrong + 1
    <2> HIDE DEF frame
    <2>1. /\ pc = "parse" /\ rx' = found.rx /\ UNCHANGED <<uart, connected, lost>>
          /\ pc' = IF found.text = NoText THEN "read" ELSE "parse"
          /\ CASE found.text = NoText -> UNCHANGED <<last, lastAge, event, wrong, since>>
               [] found.text # NoText /\ qr = NoText ->
                    event' = NoEvent /\ UNCHANGED <<last, lastAge, wrong, since>>
               [] OTHER -> /\ Handles(qr)
                           /\ since' = IF event'.outcome = "repeated" THEN since ELSE 0
                           /\ wrong' = IF qr \in Codes \/ wrong > 2 * MaxLost THEN wrong ELSE wrong + 1
      BY DEF Parse, frame
    <2> HIDE DEF found, qr
    <2> QED
      BY <2>1
  <1>7. qr \in Bytes
    <2> HIDE DEF found
    <2> QED
      BY <1>2, CTextType
  <1> HIDE DEF found, qr
  <1>4. CASE found.text = NoText
    <2>1. pc' = "read" /\ UNCHANGED <<last, lastAge, event, wrong, since>>
      BY <1>3, <1>4
    <2>2. TypeOK'
      BY <1>2, <1>3, <2>1 DEF IInv, TypeOK, Bytes
    <2>3. AgeInv'
      BY <2>1 DEF IInv, AgeInv
    <2> QED
      BY <2>1, <2>2, <2>3 DEF IInv, Finds
  <1>5. CASE qr # NoText /\ found.text # NoText /\ Repeated(qr)
    <2>1. /\ pc' = "parse" /\ event' = [text |-> qr, outcome |-> "repeated"]
          /\ UNCHANGED <<last, lastAge>>
      BY <1>3, <1>5 DEF Handles
    <2>2. since' = since /\ wrong' \in Nat
      BY <1>3, <1>5, <2>1 DEF IInv, TypeOK
    <2>3. last # NoText /\ lastAge < DebounceTime
      BY <1>5 DEF Repeated
    <2>4. TypeOK'
      BY <1>2, <1>3, <1>7, <2>1, <2>2 DEF IInv, TypeOK, Bytes
    <2>5. AgeInv'
      BY <2>1, <2>2 DEF IInv, AgeInv
    <2>6. since < DebounceTime
      <3>1. since \in Nat /\ lastAge \in Nat /\ DebounceTime \in Nat /\ since =< lastAge
        BY <2>3, QrAssumption DEF IInv, TypeOK, AgeInv
      <3> QED
        BY <2>3, <3>1
    <2> QED
      BY <2>4, <2>5, <2>6 DEF IInv
  <1>6. CASE qr # NoText /\ found.text # NoText /\ ~Repeated(qr)
    <2>1. /\ pc' = "parse" /\ last' = qr /\ lastAge' = 0
          /\ event' = [text |-> qr, outcome |-> IF connected THEN "published" ELSE "unpublished"]
      BY <1>3, <1>6 DEF Handles
    <2>2. event'.outcome \in {"published", "unpublished"}
      BY <2>1
    <2>3. since' = 0 /\ wrong' \in Nat
      BY <1>3, <1>6, <2>2 DEF IInv, TypeOK
    <2>4. 0 \in 0..DebounceTime
      BY QrAssumption
    <2>5. TypeOK'
      BY <1>2, <1>3, <1>7, <2>1, <2>2, <2>3, <2>4 DEF IInv, TypeOK, Bytes
    <2>6. AgeInv'
      BY <2>1, <2>3 DEF AgeInv
    <2> QED
      BY <2>2, <2>5, <2>6 DEF IInv
  <1>8. CASE found.text # NoText /\ qr = NoText
    <2>1. pc' = "parse" /\ event' = NoEvent /\ UNCHANGED <<last, lastAge, wrong, since>>
      BY <1>3, <1>8
    <2>2. TypeOK'
      BY <1>2, <1>3, <2>1 DEF IInv, TypeOK, NoEvent, Bytes
    <2>3. AgeInv'
      BY <2>1 DEF IInv, AgeInv
    <2>4. event'.outcome # "repeated"
      BY <2>1 DEF NoEvent
    <2> QED
      BY <2>2, <2>3, <2>4 DEF IInv
  <1> QED
    BY <1>4, <1>5, <1>6, <1>8

LEMMA FrameType ==
  ASSUME NEW code \in Codes
  PROVE  Frame(code) \in Seq(0..255)
  <1>1. code \in Seq(0..255) /\ Len(code) \in 0..255
    BY CodesAssumption
  <1>2. <<STX, Len(code)>> \in Seq(0..255) /\ <<13, 10>> \in Seq(0..255)
    BY <1>1 DEF STX
  <1> QED
    BY <1>1, <1>2, Joined DEF Frame

(* The scanner and the UART only touch what has not been read. *)
LEMMA OutsideStep ==
  ASSUME IInv, \/ \E code \in Codes : Scans(code)
               \/ \E i \in DOMAIN uart : LosesByte(i)
               \/ ToggleConnection \/ UNCHANGED vars
  PROVE  IInv'
  <1> USE DEF IInv, TypeOK, AgeInv
  <1>1. ASSUME NEW code \in Codes, Scans(code) PROVE IInv'
    <2>2. Frame(code) \in Seq(0..255)
      BY FrameType
    <2>3. uart' \in Seq(0..255)
      BY <1>1, <2>2, Joined DEF Scans
    <2> QED
      BY <1>1, <2>3 DEF Scans
  <1>2. ASSUME NEW i \in DOMAIN uart, LosesByte(i) PROVE IInv'
    <2>1. uart \in Bytes /\ i \in 1..Len(uart) /\ Len(uart) \in Nat
      BY BytesProperties DEF Bytes
    <2>2. i \in 0..Len(uart) /\ i - 1 \in 0..Len(uart)
      BY <2>1
    <2>3. Take(uart, i - 1) \in Seq(0..255) /\ Drop(uart, i) \in Seq(0..255)
      BY <2>1, <2>2, TakeType, DropType DEF Bytes
    <2>4. uart' \in Seq(0..255)
      BY <1>2, <2>3, ConcatProperties DEF LosesByte
    <2>5. lost' \in 0..(MaxLost + 1)
      BY <1>2, QrAssumption DEF LosesByte
    <2> QED
      BY <1>2, <2>4, <2>5 DEF LosesByte
  <1>3. CASE ToggleConnection
    <2>1. connected' \in BOOLEAN
      BY <1>3 DEF ToggleConnection
    <2> QED
      BY <1>3, <2>1 DEF ToggleConnection
  <1>4. CASE UNCHANGED vars
    BY <1>4 DEF vars
  <1> QED
    BY <1>1, <1>2, <1>3, <1>4

LEMMA StepIInv == IInv /\ [Next]_vars => IInv'
  BY TickStep, ReadStep, ParseStep, OutsideStep DEF Next

THEOREM Invariance == Spec => []IInv
  BY InitIInv, StepIInv, PTL DEF Spec

(* However the bytes come and whatever is lost of them, rx never holds more    *)
(* than UART_BUF_SZ bytes, and both parsers stay within it.                    *)
THEOREM TypeCorrect == Spec => []TypeOK
  <1>1. IInv => TypeOK
    BY DEF IInv
  <1> QED
    BY <1>1, Invariance, PTL

(* A code is held back only while less than QR_DEBOUNCE_MS have passed since   *)
(* a code was last not held back (should_publish_qr), whatever is shown in     *)
(* between.                                                                    *)
THEOREM DebounceIsBrief == Spec => HeldBackBriefly
  <1>1. IInv /\ [Next]_vars => [Finds /\ event'.outcome = "repeated" => since < DebounceTime]_vars
    <2> SUFFICES ASSUME IInv, [Next]_vars, Finds, event'.outcome = "repeated"
                 PROVE  since < DebounceTime
      OBVIOUS
    <2>1. CASE Parse
      BY <2>1, ParseStep
    <2>2. CASE Reading
      BY <2>2 DEF Reading, ReadBytes, Finds
    <2>3. CASE \/ \E code \in Codes : Scans(code)
               \/ \E i \in DOMAIN uart : LosesByte(i)
               \/ ToggleConnection \/ Tick \/ UNCHANGED vars
      BY <2>3 DEF Scans, LosesByte, ToggleConnection, Tick, vars, Finds
    <2> QED
      BY <2>1, <2>2, <2>3 DEF Next
  <1> QED
    BY <1>1, Invariance, PTL DEF Spec, HeldBackBriefly

-----------------------------------------------------------------------------
(* Wrong texts.  For codes as they are in use: letters that can be printed, no *)
(* blank at the end, and a length that is not the byte a frame begins with.    *)
PlainCodes ==
  \A code \in Codes : /\ Len(code) # STX /\ code[Len(code)] # 32
                      /\ \A i \in 1..Len(code) : Printable(code[i])

(* Each byte of s is the byte at[i] of the frame of the code of[i].            *)
Size(code) == Len(code) + 4
Byte(code, n) ==
  CASE n = 1 -> STX
    [] n = 2 -> Len(code)
    [] n = Size(code) - 1 -> 13
    [] n = Size(code) -> 10
    [] OTHER -> code[n - 2]

Marked(s, of, at) ==
  /\ of \in [1..Len(s) -> Codes] /\ at \in [1..Len(s) -> Nat]
  /\ \A i \in 1..Len(s) : at[i] \in 1..Size(of[i]) /\ s[i] = Byte(of[i], at[i])

(* The byte i + 1 is the one the scanner sent after the byte i.                *)
Joins(of, at, i) ==
  \/ of[i + 1] = of[i] /\ at[i + 1] = at[i] + 1
  \/ at[i] = Size(of[i]) /\ at[i + 1] = 1

(* Behind which bytes something is missing.                                    *)
Breaks(s, of, at) ==
  {i \in 1..Len(s) : IF i = Len(s) THEN at[i] # Size(of[i]) ELSE ~ Joins(of, at, i)}

(* Where a text that is no code can begin although nothing is missing behind:  *)
(* not at a frame, at a code, or at what ends a line.                          *)
Outside(code, n) == n \notin {1, 3, Size(code) - 1, Size(code)}
Astray(s, of, at) == IF Len(s) > 0 /\ Outside(of[1], at[1]) THEN 1 ELSE 0

(* No more than d wrong texts are to come of s.                                *)
Costs(s, d) ==
  \E of \in [1..Len(s) -> Codes], at \in [1..Len(s) -> Nat] :
    /\ Marked(s, of, at)
    /\ Astray(s, of, at) + 2 * Cardinality(Breaks(s, of, at)) =< d

(* The marks are compared by their breaks, which are finitely many.            *)
LEMMA BreaksFinite ==
  ASSUME NEW s \in Bytes, NEW of, NEW at
  PROVE  /\ IsFiniteSet(Breaks(s, of, at)) /\ Cardinality(Breaks(s, of, at)) \in Nat
         /\ Breaks(s, of, at) \subseteq 1..Len(s)
  <1>1. Breaks(s, of, at) \subseteq 1..Len(s) /\ IsFiniteSet(1..Len(s))
    BY BytesProperties, FS_Interval DEF Breaks
  <1> QED
    BY <1>1, FS_Subset, FS_CardinalityType

LEMMA CostsMore ==
  ASSUME NEW s \in Bytes, NEW d \in Int, NEW e \in Int, d =< e, Costs(s, d)
  PROVE  Costs(s, e)
  <1>1. PICK of \in [1..Len(s) -> Codes], at \in [1..Len(s) -> Nat] :
          Marked(s, of, at) /\ Astray(s, of, at) + 2 * Cardinality(Breaks(s, of, at)) =< d
    BY DEF Costs
  <1>2. Astray(s, of, at) \in {0, 1} /\ Cardinality(Breaks(s, of, at)) \in Nat
    BY BreaksFinite DEF Astray
  <1>3. Astray(s, of, at) + 2 * Cardinality(Breaks(s, of, at)) =< e
    BY <1>1, <1>2
  <1> QED
    BY <1>1, <1>3 DEF Costs

(* The bytes of a frame. *)
Lengths == 1..250

LEMMA CodeIs ==
  ASSUME NEW code \in Codes
  PROVE  /\ code \in Bytes /\ Len(code) \in Lengths /\ Len(code) \in Nat /\ Len(code) >= 1
         /\ Size(code) = Len(code) + 4 /\ Size(code) \in Nat /\ Size(code) >= 5
  <1>1. code \in Bytes /\ Len(code) \in Lengths
    BY CodesAssumption DEF Bytes, Lengths
  <1>2. PICK n \in Lengths : n = Len(code) /\ n \in Nat /\ n >= 1
    BY <1>1 DEF Lengths
  <1>3. n + 4 \in Nat /\ n + 4 >= 5
    BY <1>2
  <1> QED
    BY <1>1, <1>2, <1>3 DEF Size

LEMMA JoinedIs ==
  ASSUME NEW a \in Bytes, NEW b \in Bytes
  PROVE  /\ a \o b \in Bytes /\ Len(a \o b) = Len(a) + Len(b)
         /\ \A n \in 1..(Len(a) + Len(b)) :
              (a \o b)[n] = IF n =< Len(a) THEN a[n] ELSE b[n - Len(a)]
  BY ConcatProperties DEF Bytes

LEMMA JoinedTwice ==
  ASSUME NEW a \in Bytes, NEW b \in Bytes, NEW c \in Bytes
  PROVE  (a \o b) \o c = a \o (b \o c)
  <1> DEFINE S == 0..255
  <1>1. a \in Seq(S) /\ b \in Seq(S) /\ c \in Seq(S)
    BY DEF Bytes
  <1> HIDE DEF S
  <1> QED
    BY <1>1, ConcatAssociative

LEMMA FrameIs ==
  ASSUME NEW code \in Codes
  PROVE  /\ Frame(code) \in Bytes /\ Len(Frame(code)) = Size(code)
         /\ \A n \in 1..Size(code) : Frame(code)[n] = Byte(code, n)
  <1> DEFINE front == <<STX, Len(code)>>
             back == <<13, 10>>
  <1>1. /\ code \in Bytes /\ Len(code) \in Lengths /\ Len(code) \in Nat /\ Len(code) >= 1
        /\ Size(code) = Len(code) + 4
    BY CodeIs
  <1>2. /\ front \in Bytes /\ Len(front) = 2 /\ front[1] = STX /\ front[2] = Len(code)
        /\ back \in Bytes /\ Len(back) = 2 /\ back[1] = 13 /\ back[2] = 10
    BY <1>1 DEF STX, Bytes, Lengths
  <1>3. Frame(code) = (front \o code) \o back
    BY DEF Frame
  <1> HIDE DEF front, back
  <1> DEFINE most == front \o code
  <1>4. /\ most \in Bytes /\ Len(most) = 2 + Len(code)
        /\ \A n \in 1..(2 + Len(code)) : most[n] = IF n =< 2 THEN front[n] ELSE code[n - 2]
    <2>1. /\ most \in Bytes /\ Len(most) = Len(front) + Len(code)
          /\ \A n \in 1..(Len(front) + Len(code)) :
               most[n] = IF n =< Len(front) THEN front[n] ELSE code[n - Len(front)]
      BY <1>1, <1>2, JoinedIs
    <2> HIDE DEF most
    <2> QED
      BY <1>2, <2>1
  <1> HIDE DEF most
  <1>6. /\ most \o back \in Bytes /\ Len(most \o back) = Size(code)
        /\ \A n \in 1..Size(code) :
             (most \o back)[n] = IF n =< 2 + Len(code) THEN most[n] ELSE back[n - (2 + Len(code))]
    <2> DEFINE whole == most \o back
    <2>1. /\ whole \in Bytes /\ Len(whole) = Len(most) + Len(back)
          /\ \A n \in 1..(Len(most) + Len(back)) :
               whole[n] = IF n =< Len(most) THEN most[n] ELSE back[n - Len(most)]
      BY <1>2, <1>4, JoinedIs
    <2> HIDE DEF whole
    <2>2. Len(most) = 2 + Len(code) /\ Len(most) + Len(back) = Size(code)
      BY <1>1, <1>2, <1>4
    <2>3. whole \in Bytes /\ Len(whole) = Size(code)
      BY <2>1, <2>2
    <2>4. \A n \in 1..Size(code) :
            whole[n] = IF n =< 2 + Len(code) THEN most[n] ELSE back[n - (2 + Len(code))]
      BY <2>1, <2>2
    <2> QED
      BY <2>3, <2>4 DEF whole
  <1>7. ASSUME NEW n \in 1..Size(code) PROVE Frame(code)[n] = Byte(code, n)
    <2>1. CASE n =< 2 + Len(code)
      <3>1. Frame(code)[n] = IF n =< 2 THEN front[n] ELSE code[n - 2]
        BY <1>1, <1>3, <1>4, <1>6, <2>1 DEF most
      <3>2. n =< 2 => n = 1 \/ n = 2
        OBVIOUS
      <3> QED
        BY <1>1, <1>2, <2>1, <3>1, <3>2 DEF Byte
    <2>2. CASE n > 2 + Len(code)
      <3>1. Frame(code)[n] = back[n - (2 + Len(code))] /\ n \in {Len(code) + 3, Len(code) + 4}
        BY <1>1, <1>3, <1>6, <2>2 DEF most
      <3> QED
        BY <1>1, <1>2, <3>1 DEF Byte
    <2> QED
      BY <1>1, <2>1, <2>2
  <1> QED
    BY <1>3, <1>6, <1>7 DEF most

(* In a frame of such a code 3 is only the first byte, and separators are the  *)
(* last two and perhaps the length.                                            *)
LEMMA ByteIs ==
  ASSUME PlainCodes, NEW code \in Codes, NEW n \in 1..Size(code)
  PROVE  /\ Byte(code, n) \in Lengths
         /\ Byte(code, n) = STX <=> n = 1
         /\ n \in 3..(Size(code) - 2) => Byte(code, n) = code[n - 2] /\ Byte(code, n) \notin Separators
         /\ n \in {Size(code) - 1, Size(code)} => Byte(code, n) \in Separators
  <1>1. /\ Len(code) \in Lengths /\ Len(code) \in Nat /\ Len(code) >= 1 /\ Len(code) # STX
        /\ Size(code) = Len(code) + 4
    BY CodeIs DEF PlainCodes
  <1>2. CASE n \in 3..(Size(code) - 2)
    <2>1. n - 2 \in 1..Len(code) /\ Byte(code, n) = code[n - 2] /\ n # 1 /\ n \notin {Size(code) - 1, Size(code)}
      BY <1>1, <1>2 DEF Byte
    <2>2. Printable(Byte(code, n))
      BY <2>1 DEF PlainCodes
    <2>3. Byte(code, n) \in Lengths /\ Byte(code, n) # STX /\ Byte(code, n) \notin Separators
      BY <2>2 DEF Printable, Lengths, STX, Separators
    <2> QED
      BY <2>1, <2>3
  <1>3. CASE n \notin 3..(Size(code) - 2)
    <2>1. n \in {1, 2, Size(code) - 1, Size(code)} /\ 2 \notin {Size(code) - 1, Size(code)}
          /\ 1 \notin {Size(code) - 1, Size(code)} /\ Size(code) - 1 # Size(code)
      BY <1>1, <1>3
    <2>2. STX \in Lengths /\ 13 \in Lengths /\ 10 \in Lengths
      BY DEF Lengths, STX
    <2>3. 13 \in Separators /\ 10 \in Separators /\ STX \notin {10, 13}
      BY DEF Separators, STX
    <2>4. /\ n = 1 => Byte(code, n) = STX
          /\ n = 2 => Byte(code, n) = Len(code)
          /\ n = Size(code) - 1 => Byte(code, n) = 13
          /\ n = Size(code) => Byte(code, n) = 10
      <3>1. CASE n = 1
        BY <2>1, <3>1 DEF Byte
      <3>2. CASE n = 2
        BY <2>1, <3>2 DEF Byte
      <3>3. CASE n = Size(code) - 1
        BY <2>1, <3>3 DEF Byte
      <3>4. CASE n = Size(code)
        BY <2>1, <3>4 DEF Byte
      <3> QED
        BY <2>1, <3>1, <3>2, <3>3, <3>4
    <2> QED
      BY <1>1, <1>3, <2>1, <2>2, <2>3, <2>4
  <1> QED
    BY <1>2, <1>3

(* t is s without its first k bytes.                                           *)
Rest(t, s, k) ==
  t \in Bytes /\ Len(t) = Len(s) - k /\ \A i \in 1..Len(t) : t[i] = s[i + k]

After(f, s, k) == [i \in 1..(Len(s) - k) |-> f[i + k]]

(* What is behind the first bytes has the marks it had, and no more breaks.    *)
LEMMA MarkedRest ==
  ASSUME NEW s \in Bytes, NEW k \in 0..Len(s), NEW t, Rest(t, s, k), NEW of, NEW at, Marked(s, of, at)
  PROVE  /\ Marked(t, After(of, s, k), After(at, s, k))
         /\ Cardinality(Breaks(t, After(of, s, k), After(at, s, k)))
              =< Cardinality(Breaks(s, of, at) \ (1..k))
  <1> DEFINE m == Len(s) - k
             of1 == After(of, s, k)
             at1 == After(at, s, k)
             Old == Breaks(s, of, at) \ (1..k)
             New == Breaks(t, of1, at1)
  <1>1. Len(s) \in Nat /\ k \in Nat /\ m \in Nat /\ Len(t) = m /\ t \in Bytes
    BY LenProperties DEF Bytes, Rest
  <1>2. \A i \in 1..m : i + k \in 1..Len(s)
    BY <1>1
  <1>3. \A i \in 1..m : of1[i] = of[i + k] /\ at1[i] = at[i + k] /\ t[i] = s[i + k]
    BY <1>1 DEF After, Rest
  <1>4. of1 \in [1..Len(t) -> Codes] /\ at1 \in [1..Len(t) -> Nat]
    BY <1>1, <1>2 DEF After, Marked
  <1> HIDE DEF m, of1, at1
  <1>5. Marked(t, of1, at1)
    BY <1>1, <1>2, <1>3, <1>4 DEF Marked
  <1>6. \A i \in New : i \in 1..m /\ i + k \in Old
    <2> SUFFICES ASSUME NEW i \in New PROVE i \in 1..m /\ i + k \in Old
      OBVIOUS
    <2>1. i \in 1..m /\ i + k \in 1..Len(s) /\ i + k \notin 1..k
      BY <1>1, <1>2 DEF Breaks
    <2>2. i = m <=> i + k = Len(s)
      BY <1>1, <2>1 DEF m
    <2>3. CASE i = m
      <3>1. at[i + k] # Size(of[i + k])
        BY <1>1, <1>3, <2>1, <2>3 DEF Breaks
      <3> QED
        BY <2>1, <2>2, <2>3, <3>1 DEF Breaks
    <2>4. CASE i # m
      <3>1. ~ Joins(of1, at1, i) /\ i + 1 \in 1..m /\ (i + 1) + k = (i + k) + 1
        BY <1>1, <2>1, <2>4 DEF Breaks
      <3>2. ~ Joins(of, at, i + k)
        <4>1. /\ of1[i] = of[i + k] /\ at1[i] = at[i + k]
              /\ of1[i + 1] = of[(i + k) + 1] /\ at1[i + 1] = at[(i + k) + 1]
          BY <1>3, <2>1, <3>1
        <4> QED
          BY <3>1, <4>1 DEF Joins
      <3> QED
        BY <2>1, <2>2, <2>4, <3>2 DEF Breaks
    <2> QED
      BY <2>1, <2>3, <2>4
  <1>7. IsFiniteSet(Old)
    BY BreaksFinite, FS_Difference
  <1> DEFINE Move == [i \in New |-> i + k]
  <1>8. Move \in Injection(New, Old)
    <2>1. Move \in [New -> Old]
      BY <1>6
    <2>2. \A i, j \in New : i + k = j + k => i = j
      BY <1>1, <1>6
    <2> QED
      BY <2>1, <2>2 DEF Injection, IsInjective
  <1> HIDE DEF Old, New, Move
  <1>9. Cardinality(New) =< Cardinality(Old)
    BY <1>7, <1>8, FS_Injection
  <1> QED
    BY <1>5, <1>9 DEF New, Old, of1, at1

(* Of what a parser takes, a break in it or behind it pays for a wrong text,   *)
(* and for one that may now begin with what is left.                           *)
LEMMA RestCosts ==
  ASSUME NEW s \in Bytes, NEW k \in 1..Len(s), NEW t, Rest(t, s, k),
         NEW of, NEW at, Marked(s, of, at),
         NEW d \in Int, Astray(s, of, at) + 2 * Cardinality(Breaks(s, of, at)) =< d
  PROVE  /\ (\E i \in 1..k : i \in Breaks(s, of, at)) => Costs(t, d - 1)
         /\ k = Len(s) \/ ~ Outside(of[k + 1], at[k + 1]) => Costs(t, d - Astray(s, of, at))
  <1> DEFINE of1 == After(of, s, k)
             at1 == After(at, s, k)
             Old == Breaks(s, of, at)
             old == Cardinality(Old)
             left == Cardinality(Old \ (1..k))
             new == Cardinality(Breaks(t, of1, at1))
  <1>1. Len(s) \in Nat /\ k \in Nat /\ t \in Bytes /\ Len(t) = Len(s) - k /\ k \in 0..Len(s)
    BY LenProperties DEF Bytes, Rest
  <1>2. Marked(t, of1, at1) /\ new =< left
    BY <1>1, MarkedRest
  <1>3. of1 \in [1..Len(t) -> Codes] /\ at1 \in [1..Len(t) -> Nat]
    BY <1>2 DEF Marked
  <1>4. IsFiniteSet(Old) /\ old \in Nat /\ left \in Nat /\ new \in Nat /\ left =< old
    <2>1. IsFiniteSet(Old) /\ old \in Nat /\ new \in Nat
      BY <1>1, BreaksFinite
    <2>2. Old \ (1..k) \in SUBSET Old
      OBVIOUS
    <2> QED
      BY <2>1, <2>2, FS_Subset, FS_CardinalityType
  <1>5. Astray(s, of, at) \in {0, 1} /\ Astray(t, of1, at1) \in {0, 1}
    BY DEF Astray
  <1>6. ASSUME NEW i \in 1..k, i \in Old
        PROVE  Costs(t, d - 1)
    <2>1. left < old
      <3>1. Old \ (1..k) \in SUBSET Old /\ Old \ (1..k) # Old
        BY <1>6
      <3>2. left # old
        BY <1>4, <3>1, FS_Subset
      <3> QED
        BY <1>4, <3>2
    <2>2. Astray(t, of1, at1) + 2 * new =< d - 1
      <3> HIDE DEF old, left, new, of1, at1
      <3> QED
        BY <1>2, <1>4, <1>5, <2>1 DEF old, Old
    <2> QED
      BY <1>2, <1>3, <2>2 DEF Costs
  <1>7. ASSUME k = Len(s) \/ ~ Outside(of[k + 1], at[k + 1])
        PROVE  Costs(t, d - Astray(s, of, at))
    <2>1. Astray(t, of1, at1) = 0
      <3>1. CASE Len(t) = 0
        BY <3>1 DEF Astray
      <3>2. CASE Len(t) # 0
        <4>1. k # Len(s) /\ 1 \in 1..(Len(s) - k) /\ 1 + k = k + 1
          BY <1>1, <3>2
        <4>2. of1[1] = of[k + 1] /\ at1[1] = at[k + 1]
          BY <4>1 DEF After
        <4> QED
          BY <1>7, <4>1, <4>2 DEF Astray
      <3> QED
        BY <3>1, <3>2
    <2>2. Astray(t, of1, at1) + 2 * new =< d - Astray(s, of, at)
      <3> HIDE DEF old, left, new, of1, at1
      <3> QED
        BY <1>2, <1>4, <1>5, <2>1 DEF old, Old
    <2> QED
      BY <1>2, <1>3, <2>2 DEF Costs
  <1> QED
    BY <1>6, <1>7

(* Losing bytes anywhere makes one break at most, or what is left begins       *)
(* anywhere.                                                                   *)
LEMMA CutCosts ==
  ASSUME NEW s \in Bytes, NEW p \in Nat, NEW q \in Nat, p < q, q =< Len(s), NEW t \in Bytes,
         Len(t) = Len(s) - (q - p),
         \A i \in 1..Len(t) : t[i] = IF i =< p THEN s[i] ELSE s[i + (q - p)],
         NEW d \in Int, Costs(s, d)
  PROVE  Costs(t, d + 2)
  <1>0. PICK of \in [1..Len(s) -> Codes], at \in [1..Len(s) -> Nat] :
          Marked(s, of, at) /\ Astray(s, of, at) + 2 * Cardinality(Breaks(s, of, at)) =< d
    BY DEF Costs
  <1>1. Len(s) \in Nat /\ Len(t) \in Nat /\ p =< Len(t)
    <2>1. Len(s) \in Nat /\ Len(t) \in Nat
      BY LenProperties DEF Bytes
    <2> QED
      BY <2>1
  <1>2. /\ \A i \in 1..Len(t) : i # Len(t) => i + 1 \in 1..Len(t)
        /\ Len(t) # p => ~ (Len(t) =< p)
    <2>1. PICK n \in Nat : n = Len(t)
      BY <1>1
    <2>2. \A i \in 1..n : i # n => i + 1 \in 1..n
      OBVIOUS
    <2>3. p =< n
      BY <1>1, <2>1
    <2>4. n # p => ~ (n =< p)
      BY <2>3
    <2> QED
      BY <2>1, <2>2, <2>4
  <1>3. CASE p = 0
    <2>1. Rest(t, s, q) /\ q \in 0..Len(s)
      BY <1>1, <1>3 DEF Rest
    <2> DEFINE of1 == After(of, s, q)
               at1 == After(at, s, q)
               Old == Breaks(s, of, at)
    <2>2. Marked(t, of1, at1) /\ Cardinality(Breaks(t, of1, at1)) =< Cardinality(Old \ (1..q))
      BY <1>0, <2>1, MarkedRest
    <2>3. /\ Cardinality(Old) \in Nat /\ Cardinality(Old \ (1..q)) \in Nat
          /\ Cardinality(Old \ (1..q)) =< Cardinality(Old) /\ Cardinality(Breaks(t, of1, at1)) \in Nat
      <3>1. IsFiniteSet(Old) /\ Old \ (1..q) \in SUBSET Old
        BY BreaksFinite
      <3> QED
        BY <3>1, BreaksFinite, FS_Subset, FS_CardinalityType
    <2>4. Astray(s, of, at) \in {0, 1} /\ Astray(t, of1, at1) \in {0, 1}
      BY DEF Astray
    <2>5. Astray(t, of1, at1) + 2 * Cardinality(Breaks(t, of1, at1)) =< d + 2
      <3> HIDE DEF of1, at1
      <3> QED
        BY <1>0, <2>2, <2>3, <2>4
    <2> QED
      BY <2>2, <2>5 DEF Costs, Marked
  <1>4. CASE p # 0
    <2> DEFINE From(i) == IF i =< p THEN i ELSE i + (q - p)
               of1 == [i \in 1..Len(t) |-> of[From(i)]]
               at1 == [i \in 1..Len(t) |-> at[From(i)]]
               Old == Breaks(s, of, at)
               New == Breaks(t, of1, at1)
    <2>1. \A i \in 1..Len(t) : From(i) \in 1..Len(s) /\ t[i] = s[From(i)]
      BY <1>1
    <2>2. \A i, j \in 1..Len(t) : From(i) = From(j) => i = j
      BY <1>1
    <2>3. /\ \A i \in 1..Len(t) : i # Len(t) /\ i # p => From(i + 1) = From(i) + 1 /\ From(i) # Len(s)
          /\ Len(t) # p => From(Len(t)) = Len(s)
      <3>1. ASSUME NEW i \in 1..Len(t), i # Len(t), i # p
            PROVE  From(i + 1) = From(i) + 1 /\ From(i) # Len(s)
        <4>1. CASE i < p
          BY <1>1, <3>1, <4>1
        <4>2. CASE ~(i < p)
          <5>1. i > p /\ ~(i =< p) /\ ~(i + 1 =< p)
            BY <1>1, <3>1, <4>2
          <5>2. From(i) = i + (q - p) /\ From(i + 1) = (i + 1) + (q - p)
            BY <5>1
          <5> HIDE DEF From
          <5> QED
            BY <1>1, <3>1, <5>2
        <4> QED
          BY <4>1, <4>2
      <3>2. ASSUME Len(t) # p PROVE From(Len(t)) = Len(s)
        <4>1. ~(Len(t) =< p)
          BY <1>2, <3>2
        <4>2. From(Len(t)) = Len(t) + (q - p)
          BY <4>1
        <4> QED
          BY <1>1, <4>2
      <3> QED
        BY <3>1, <3>2
    <2>4. 1 \in 1..Len(t) /\ From(1) = 1 /\ Len(s) > 0
      BY <1>1, <1>4
    <2> HIDE DEF From
    <2>5. of1 \in [1..Len(t) -> Codes] /\ at1 \in [1..Len(t) -> Nat]
      BY <2>1
    <2>6. \A i \in 1..Len(t) : of1[i] = of[From(i)] /\ at1[i] = at[From(i)]
      OBVIOUS
    <2> HIDE DEF of1, at1
    <2>7. Marked(t, of1, at1)
      BY <1>0, <2>1, <2>5, <2>6 DEF Marked
    <2>8. Astray(t, of1, at1) = Astray(s, of, at) /\ Astray(s, of, at) \in {0, 1}
      BY <1>1, <2>4, <2>6 DEF Astray
    <2>9. \A i \in New : i \in 1..Len(t) /\ From(i) \in Old \cup {p}
      <3> SUFFICES ASSUME NEW i \in New, i # p PROVE i \in 1..Len(t) /\ From(i) \in Old
        <4>1. \A i \in New : i \in 1..Len(t)
          BY DEF Breaks
        <4>2. p \in New => From(p) = p
          BY DEF From
        <4> QED
          BY <4>1, <4>2
      <3>1. i \in 1..Len(t) /\ From(i) \in 1..Len(s)
        BY <2>1 DEF Breaks
      <3>2. CASE i = Len(t)
        <4>1. at[From(i)] # Size(of[From(i)]) /\ From(i) = Len(s)
          BY <2>3, <2>6, <3>1, <3>2 DEF Breaks
        <4> QED
          BY <3>1, <4>1 DEF Breaks
      <3>3. CASE i # Len(t)
        <4>1. ~ Joins(of1, at1, i) /\ i + 1 \in 1..Len(t)
          <5>1. ~ Joins(of1, at1, i)
            BY <3>3 DEF Breaks
          <5>2. i + 1 \in 1..Len(t)
            BY <1>2, <3>1, <3>3
          <5> QED
            BY <5>1, <5>2
        <4>2. From(i + 1) = From(i) + 1 /\ From(i) # Len(s)
          BY <2>3, <3>1, <3>3
        <4>3. ~ Joins(of, at, From(i))
          BY <2>6, <3>1, <4>1, <4>2 DEF Joins
        <4> QED
          BY <3>1, <4>2, <4>3 DEF Breaks
      <3> QED
        BY <3>1, <3>2, <3>3
    <2>10. IsFiniteSet(Old) /\ Cardinality(Old) \in Nat /\ Cardinality(New) \in Nat
      BY BreaksFinite
    <2>11. /\ IsFiniteSet(Old \cup {p}) /\ Cardinality(Old \cup {p}) =< Cardinality(Old) + 1
           /\ Cardinality(Old \cup {p}) \in Nat
      <3>1. /\ IsFiniteSet(Old \cup {p})
            /\ Cardinality(Old \cup {p}) = IF p \in Old THEN Cardinality(Old) ELSE Cardinality(Old) + 1
        BY <2>10, FS_AddElement
      <3> HIDE DEF Old
      <3> QED
        BY <2>10, <3>1
    <2> DEFINE Move == [i \in New |-> From(i)]
    <2>12. Move \in Injection(New, Old \cup {p})
      <3>1. Move \in [New -> Old \cup {p}]
        BY <2>9
      <3>2. \A i, j \in New : From(i) = From(j) => i = j
        BY <2>2, <2>9
      <3> QED
        BY <3>1, <3>2 DEF Injection, IsInjective
    <2> HIDE DEF Move, New, Old
    <2>13. Cardinality(New) =< Cardinality(Old \cup {p})
      BY <2>11, <2>12, FS_Injection
    <2>14. Astray(t, of1, at1) + 2 * Cardinality(New) =< d + 2
      BY <1>0, <2>8, <2>10, <2>11, <2>13 DEF Old
    <2> QED
      BY <2>5, <2>7, <2>14 DEF Costs, New
  <1> QED
    BY <1>3, <1>4

LEMMA MarksAre ==
  ASSUME PlainCodes, NEW s \in Bytes, NEW of, NEW at, Marked(s, of, at), NEW i \in 1..Len(s)
  PROVE  /\ of[i] \in Codes /\ at[i] \in 1..Size(of[i]) /\ s[i] = Byte(of[i], at[i])
         /\ s[i] \in Lengths /\ (s[i] = STX <=> at[i] = 1)
  <1>1. of[i] \in Codes /\ at[i] \in 1..Size(of[i]) /\ s[i] = Byte(of[i], at[i])
    BY DEF Marked
  <1> DEFINE code == of[i]
             n == at[i]
  <1> HIDE DEF code, n
  <1>2. code \in Codes /\ n \in 1..Size(code)
    BY <1>1 DEF code, n
  <1>3. Byte(code, n) \in Lengths /\ (Byte(code, n) = STX <=> n = 1)
    BY <1>2, ByteIs
  <1> QED
    BY <1>1, <1>3 DEF code, n

(* With nothing missing, the bytes of a frame follow each other.               *)
LEMMA RunIs ==
  ASSUME NEW s \in Bytes, NEW of, NEW at, Marked(s, of, at), NEW m \in 1..Len(s),
         \A i \in 1..(m - 1) : i \notin Breaks(s, of, at), at[1] + (m - 1) =< Size(of[1])
  PROVE  of[m] = of[1] /\ at[m] = at[1] + (m - 1)
  <1>1. Len(s) \in Nat /\ m \in Nat /\ 1 \in 1..Len(s)
    BY LenProperties DEF Bytes
  <1>2. at[1] \in Nat /\ of[1] \in Codes
    BY <1>1 DEF Marked
  <1>3. Size(of[1]) \in Nat
    BY <1>2, CodeIs
  <1> DEFINE Off == {i \in 1..m : ~ (of[i] = of[1] /\ at[i] = at[1] + (i - 1))}
  <1>4. SUFFICES ASSUME Off # {} PROVE FALSE
    <2>1. m \in 1..m
      BY <1>1
    <2> QED
      BY <2>1
  <1>5. PICK i \in Off : \A k \in Off : i =< k
    <2>1. Off \subseteq Nat
      OBVIOUS
    <2> HIDE DEF Off
    <2> QED
      BY <1>4, <2>1, MinIsLeast
  <1>6. i # 1
    BY <1>2, <1>5
  <1>7. i - 1 \in 1..(m - 1) /\ i - 1 \in 1..Len(s) /\ i - 1 \in 1..m /\ i - 1 # Len(s) /\ (i - 1) + 1 = i
    BY <1>1, <1>5, <1>6
  <1>8. i - 1 \notin Off
    <2>1. i \in Nat /\ ~ (i =< i - 1)
      BY <1>5
    <2> HIDE DEF Off
    <2> QED
      BY <1>5, <2>1
  <1>9. of[i - 1] = of[1] /\ at[i - 1] = at[1] + (i - 2)
    <2>1. of[i - 1] = of[1] /\ at[i - 1] = at[1] + ((i - 1) - 1)
      BY <1>7, <1>8
    <2> QED
      BY <1>5, <2>1
  <1>10. Joins(of, at, i - 1)
    BY <1>7 DEF Breaks
  <1>11. at[i - 1] < Size(of[1])
    <2>0. i \in 1..m
      BY <1>5
    <2> HIDE DEF Off
    <2>1. i \in Nat /\ i =< m /\ m \in Nat /\ Size(of[1]) \in Nat
      <3>1. i \in Nat /\ i =< m
        BY <2>0
      <3> QED
        BY <1>1, <1>3, <3>1
    <2>2. at[1] + (i - 2) < at[1] + (m - 1)
      BY <1>2, <2>1
    <2> QED
      BY <1>2, <1>9, <2>1, <2>2
  <1>12. of[i] = of[1] /\ at[i] = at[i - 1] + 1
    BY <1>2, <1>3, <1>7, <1>9, <1>10, <1>11 DEF Joins
  <1>13. at[i] = at[1] + (i - 1)
    BY <1>2, <1>5, <1>9, <1>12
  <1> QED
    BY <1>5, <1>12, <1>13

(* Where a run of separators at the end of a frame ends, and what is behind it. *)
LEMMA EndIs ==
  ASSUME PlainCodes, NEW s \in Bytes, NEW of, NEW at, Marked(s, of, at), NEW k \in 1..Len(s), NEW c \in 1..k,
         \A i \in 1..k : i \notin Breaks(s, of, at), \A i \in c..k : s[i] \in Separators,
         at[c] = Size(of[c])
  PROVE  k = c /\ (k = Len(s) \/ ~ Outside(of[k + 1], at[k + 1]))
  <1>1. Len(s) \in Nat /\ k \in Nat /\ c \in Nat /\ c \in 1..Len(s)
    BY LenProperties DEF Bytes
  <1>2. ASSUME c # Len(s) PROVE at[c + 1] = 1 /\ s[c + 1] = STX
    <2>1. c + 1 \in 1..Len(s) /\ Joins(of, at, c)
      BY <1>1, <1>2 DEF Breaks
    <2>2. of[c] \in Codes /\ of[c + 1] \in Codes /\ at[c + 1] \in 1..Size(of[c + 1])
      BY <1>1, <2>1, MarksAre
    <2>3. Size(of[c]) \in Nat
      BY <2>2, CodeIs
    <2>4. at[c + 1] = 1
      <3>1. CASE of[c + 1] = of[c] /\ at[c + 1] = at[c] + 1
        <4>1. at[c + 1] \in 1..Size(of[c]) /\ at[c + 1] = Size(of[c]) + 1
          BY <2>2, <3>1
        <4>2. \A n \in Nat : n + 1 \notin 1..n
          OBVIOUS
        <4> QED
          BY <2>3, <4>1, <4>2
      <3> QED
        BY <2>1, <3>1 DEF Joins
    <2> QED
      BY <2>1, <2>4, MarksAre
  <1>3. k = c
    <2>1. SUFFICES ASSUME k # c PROVE FALSE
      OBVIOUS
    <2>2. c # Len(s) /\ c + 1 \in c..k
      BY <1>1, <2>1
    <2>3. s[c + 1] = STX /\ s[c + 1] \in Separators
      BY <1>2, <2>2
    <2> QED
      BY <2>3 DEF STX, Separators
  <1> QED
    BY <1>2, <1>3 DEF Outside

LEMMA EndFollows ==
  ASSUME PlainCodes, NEW s \in Bytes, NEW of, NEW at, Marked(s, of, at), NEW k \in 1..Len(s), NEW c \in 1..k,
         \A i \in 1..k : i \notin Breaks(s, of, at), \A i \in c..k : s[i] \in Separators,
         at[c] = Size(of[c]) - 1
  PROVE  k = Len(s) \/ ~ Outside(of[k + 1], at[k + 1])
  <1>1. Len(s) \in Nat /\ k \in Nat /\ c \in Nat /\ c \in 1..Len(s)
    BY LenProperties DEF Bytes
  <1>2. SUFFICES ASSUME k # Len(s) PROVE ~ Outside(of[k + 1], at[k + 1])
    OBVIOUS
  <1>3. c + 1 \in 1..Len(s) /\ c # Len(s)
    BY <1>1, <1>2
  <1>4. Size(of[c]) \in Nat /\ Size(of[c]) >= 5
    BY <1>1, MarksAre, CodeIs
  <1>5. of[c + 1] = of[c] /\ at[c + 1] = Size(of[c])
    <2>1. Joins(of, at, c)
      BY <1>1, <1>3 DEF Breaks
    <2>2. \A n \in Nat : n - 1 # n /\ (n - 1) + 1 = n
      OBVIOUS
    <2> QED
      BY <1>4, <2>1, <2>2 DEF Joins
  <1>6. CASE k = c
    BY <1>5, <1>6 DEF Outside
  <1>7. CASE k # c
    <2>1. c + 1 \in 1..k /\ \A i \in (c + 1)..k : i \in c..k
      BY <1>1, <1>7
    <2>2. \A i \in (c + 1)..k : s[i] \in Separators
      BY <2>1
    <2>3. at[c + 1] = Size(of[c + 1])
      BY <1>5
    <2> QED
      BY <1>2, <2>1, <2>2, <2>3, EndIs
  <1> QED
    BY <1>6, <1>7

LEMMA DropElements ==
  ASSUME NEW r \in Bytes, NEW k \in 0..Len(r)
  PROVE  Rest(Drop(r, k), r, k)
  <1>1. Len(r) \in Nat
    BY LenProperties DEF Bytes
  <1>2. \A i \in (k + 1)..Len(r) : r[i] \in 0..255
    BY <1>1, BytesProperties
  <1>3. \A i \in 1..(Len(r) - k) : SubSeq(r, k + 1, Len(r))[i] = r[(k + 1) + i - 1]
    BY <1>1, <1>2, SubSeqProperties DEF Bytes
  <1>4. Drop(r, k) \in Bytes /\ Len(Drop(r, k)) = Len(r) - k
    BY DropType
  <1>5. \A i \in 1..(Len(r) - k) : (k + 1) + i - 1 = i + k
    BY <1>1
  <1> QED
    BY <1>3, <1>4, <1>5 DEF Rest, Drop

(* The same for a buffer with something behind it.                             *)
LEMMA RestOfBoth ==
  ASSUME NEW r \in Bytes, NEW u \in Bytes, NEW k \in 0..Len(r)
  PROVE  /\ r \o u \in Bytes /\ Len(r \o u) = Len(r) + Len(u)
         /\ \A i \in 1..Len(r) : (r \o u)[i] = r[i]
         /\ Drop(r, k) \in Bytes /\ Rest(Drop(r, k) \o u, r \o u, k)
  <1> DEFINE front == Drop(r, k)
  <1>1. /\ Len(r) \in Nat /\ Len(u) \in Nat /\ k \in Nat
        /\ front \in Bytes /\ Len(front) = Len(r) - k /\ \A i \in 1..Len(front) : front[i] = r[i + k]
    BY LenProperties, DropElements DEF Bytes, Rest
  <1> HIDE DEF front
  <1>2. /\ r \o u \in Bytes /\ Len(r \o u) = Len(r) + Len(u)
        /\ \A i \in 1..(Len(r) + Len(u)) : (r \o u)[i] = IF i =< Len(r) THEN r[i] ELSE u[i - Len(r)]
    BY JoinedIs
  <1>3. /\ front \o u \in Bytes /\ Len(front \o u) = Len(front) + Len(u)
        /\ \A i \in 1..(Len(front) + Len(u)) :
             (front \o u)[i] = IF i =< Len(front) THEN front[i] ELSE u[i - Len(front)]
    BY <1>1, JoinedIs
  <1> DEFINE a == r \o u
             b == front \o u
  <1> HIDE DEF a, b
  <1>4. Len(b) = Len(a) - k /\ Len(b) = (Len(r) - k) + Len(u)
    BY <1>1, <1>2, <1>3 DEF a, b
  <1>5. ASSUME NEW i \in 1..Len(b) PROVE b[i] = a[i + k]
    <2>1. i + k \in 1..(Len(r) + Len(u)) /\ i \in 1..(Len(front) + Len(u))
      BY <1>1, <1>4, <1>5
    <2>2. CASE i =< Len(front)
      <3>1. i + k =< Len(r) /\ i \in 1..Len(front)
        BY <1>1, <2>1, <2>2
      <3> QED
        BY <1>1, <1>2, <1>3, <2>1, <2>2, <3>1 DEF a, b
    <2>3. CASE ~ (i =< Len(front))
      <3>1. ~ (i + k =< Len(r)) /\ (i + k) - Len(r) = i - Len(front)
        BY <1>1, <2>1, <2>3
      <3> QED
        BY <1>1, <1>2, <1>3, <2>1, <2>3, <3>1 DEF a, b
    <2> QED
      BY <2>2, <2>3
  <1>6. \A i \in 1..Len(r) : a[i] = r[i]
    BY <1>1, <1>2 DEF a
  <1>7. a \in Bytes /\ Len(a) = Len(r) + Len(u) /\ b \in Bytes
    BY <1>2, <1>3 DEF a, b
  <1>8. Rest(b, a, k)
    BY <1>4, <1>5, <1>7 DEF Rest
  <1> QED
    BY <1>1, <1>6, <1>7, <1>8 DEF a, b, front

LEMMA SameBytes ==
  ASSUME NEW s \in Bytes, NEW t \in Bytes, Len(s) = Len(t), \A i \in 1..Len(s) : s[i] = t[i]
  PROVE  s = t
  BY SeqEqual DEF Bytes

(* What is before the first 3 is no loss.                                      *)
LEMMA SkipCosts ==
  ASSUME PlainCodes, NEW r \in Bytes, NEW u \in Bytes, NEW d \in Int, Costs(r \o u, d)
  PROVE  FromStx(r) \in Bytes /\ Costs(FromStx(r) \o u, d)
  <1>1. Len(r) \in Nat /\ DOMAIN r = 1..Len(r)
    BY BytesProperties
  <1>2. CASE Len(r) < 2 \/ Where(r, {STX}) = {}
    <2>1. FromStx(r) = r
      BY <1>2 DEF FromStx
    <2> QED
      BY <2>1
  <1>3. CASE ~ (Len(r) < 2 \/ Where(r, {STX}) = {})
    <2> DEFINE k == Min(Where(r, {STX})) - 1
               s == r \o u
    <2>1. Min(Where(r, {STX})) \in Where(r, {STX})
      <3>1. Where(r, {STX}) \subseteq Nat
        BY <1>1 DEF Where
      <3> QED
        BY <1>3, <3>1, MinIsLeast
    <2>2. k \in 0..(Len(r) - 1) /\ r[k + 1] = STX
      BY <1>1, <2>1 DEF Where
    <2>3. FromStx(r) = Drop(r, k)
      BY <1>3 DEF FromStx
    <2> HIDE DEF k
    <2>4. k \in 0..Len(r) /\ k + 1 \in 1..Len(r)
      BY <1>1, <2>2
    <2>5. CASE k = 0
      <3>1. Drop(r, k) = r
        <4>1. Rest(Drop(r, k), r, k)
          BY <2>4, DropElements
        <4>2. /\ Drop(r, k) \in Bytes /\ Len(Drop(r, k)) = Len(r)
              /\ \A i \in 1..Len(Drop(r, k)) : Drop(r, k)[i] = r[i]
          BY <1>1, <2>5, <4>1 DEF Rest
        <4> QED
          BY <4>2, SameBytes
      <3> QED
        BY <2>3, <3>1
    <2>6. CASE k # 0
      <3>1. /\ s \in Bytes /\ Len(s) = Len(r) + Len(u) /\ \A i \in 1..Len(r) : s[i] = r[i]
            /\ Drop(r, k) \in Bytes /\ Rest(Drop(r, k) \o u, s, k)
        BY <2>4, RestOfBoth
      <3>2. PICK of \in [1..Len(s) -> Codes], at \in [1..Len(s) -> Nat] :
              Marked(s, of, at) /\ Astray(s, of, at) + 2 * Cardinality(Breaks(s, of, at)) =< d
        BY DEF Costs
      <3> HIDE DEF s
      <3>3. Len(u) \in Nat /\ k \in 1..Len(s) /\ k + 1 \in 1..Len(s)
        <4>1. Len(u) \in Nat
          BY LenProperties DEF Bytes
        <4> QED
          BY <1>1, <2>4, <2>6, <3>1, <4>1
      <3>4. at[k + 1] = 1
        BY <2>2, <2>4, <3>1, <3>2, <3>3, MarksAre
      <3>5. Costs(Drop(r, k) \o u, d - Astray(s, of, at))
        <4>1. ~ Outside(of[k + 1], at[k + 1])
          BY <3>4 DEF Outside
        <4> QED
          BY <3>1, <3>2, <3>3, <4>1, RestCosts
      <3>6. Astray(s, of, at) \in {0, 1}
        BY DEF Astray
      <3>7. d - Astray(s, of, at) \in Int /\ d - Astray(s, of, at) =< d
        BY <3>6
      <3>8. Costs(Drop(r, k) \o u, d)
        BY <3>1, <3>5, <3>7, CostsMore DEF Rest
      <3> QED
        BY <2>3, <3>1, <3>8
    <2> QED
      BY <2>5, <2>6
  <1> QED
    BY <1>2, <1>3

(* A frame with nothing missing in it is a code, and what follows it a line    *)
(* end; another frame is paid for.                                             *)
LEMMA FrameCosts ==
  ASSUME PlainCodes, NEW r \in Bytes, NEW u \in Bytes, NEW d \in Int, Costs(r \o u, d),
         NEW b \in Nat, b >= 1, Len(r) >= 2 + b, r[1] = STX, r[2] = b
  PROVE  /\ FrameAtHead(r).rx \in Bytes
         /\ \/ FrameAtHead(r).text \in Codes /\ Costs(FrameAtHead(r).rx \o u, d)
            \/ Costs(FrameAtHead(r).rx \o u, d - 1)
  <1> DEFINE k == 2 + b
             s == r \o u
             text == SubSeq(r, 3, 2 + b)
  <1>1. Len(r) \in Nat /\ Len(u) \in Nat /\ k \in Nat /\ k >= 3 /\ k \in 0..Len(r) /\ k =< Len(r)
    BY LenProperties DEF Bytes
  <1>2. /\ s \in Bytes /\ Len(s) = Len(r) + Len(u) /\ \A i \in 1..Len(r) : s[i] = r[i]
        /\ Drop(r, k) \in Bytes /\ Rest(Drop(r, k) \o u, s, k)
    BY <1>1, RestOfBoth
  <1>3. FrameAtHead(r) = [rx |-> Drop(r, k), text |-> text]
    BY DEF FrameAtHead
  <1>4. PICK of \in [1..Len(s) -> Codes], at \in [1..Len(s) -> Nat] :
          Marked(s, of, at) /\ Astray(s, of, at) + 2 * Cardinality(Breaks(s, of, at)) =< d
    BY DEF Costs
  <1>5. text \in Bytes /\ Len(text) = b /\ \A i \in 1..b : text[i] = r[i + 2]
    <2>1. \A i \in 3..(2 + b) : i \in 1..Len(r) /\ r[i] \in 0..255
      BY <1>1, BytesProperties
    <2>2. /\ text \in Seq(0..255)
          /\ Len(text) = IF 3 =< 2 + b THEN (2 + b) - 3 + 1 ELSE 0
          /\ \A i \in 1..((2 + b) - 3 + 1) : text[i] = r[3 + i - 1]
      BY <2>1, SubSeqProperties DEF Bytes
    <2>3. (2 + b) - 3 + 1 = b /\ 3 =< 2 + b /\ \A i \in 1..b : 3 + i - 1 = i + 2
      OBVIOUS
    <2> QED
      BY <2>2, <2>3 DEF Bytes
  <1> HIDE DEF s, text
  <1>6. k \in 1..Len(s) /\ 1 \in 1..Len(r) /\ 2 \in 1..Len(r) /\ 1 \in 1..Len(s) /\ 2 \in 1..Len(s)
        /\ k =< Len(s) /\ Len(s) \in Nat
    BY <1>1, <1>2
  <1>7. CASE \E i \in 1..k : i \in Breaks(s, of, at)
    <2>1. Costs(Drop(r, k) \o u, d - 1)
      BY <1>2, <1>4, <1>6, <1>7, RestCosts
    <2> HIDE DEF k
    <2> QED
      BY <1>2, <1>3, <2>1
  <1>8. CASE ~ \E i \in 1..k : i \in Breaks(s, of, at)
    <2> DEFINE code == of[1]
    <2>1. code \in Codes /\ at[1] = 1
      BY <1>2, <1>4, <1>6, MarksAre
    <2>2. /\ code \in Bytes /\ Len(code) \in Nat /\ Len(code) >= 1 /\ Size(code) = Len(code) + 4
          /\ Size(code) \in Nat /\ Size(code) >= 5
      BY <2>1, CodeIs
    <2> HIDE DEF code, k
    <2>3. \A m \in 1..Len(s) : m =< k + 1 /\ m =< Size(code) => of[m] = code /\ at[m] = m
      <3> SUFFICES ASSUME NEW m \in 1..Len(s), m =< k + 1, m =< Size(code)
                   PROVE  of[m] = code /\ at[m] = m
        OBVIOUS
      <3>1. \A i \in 1..(m - 1) : i \notin Breaks(s, of, at)
        BY <1>1, <1>8
      <3>2. at[1] + (m - 1) = m /\ at[1] + (m - 1) =< Size(of[1])
        BY <2>1 DEF code
      <3> QED
        BY <1>2, <1>4, <3>1, <3>2, RunIs DEF code
    <2>4. b = Len(code)
      <3>1. of[2] = code /\ at[2] = 2
        BY <1>1, <1>6, <2>2, <2>3
      <3>2. s[2] = Byte(code, 2)
        BY <1>2, <1>4, <1>6, <3>1, MarksAre
      <3>3. Byte(code, 2) = Len(code)
        <4>1. \A m \in Nat : m >= 5 => 2 # m - 1 /\ 2 # m
          OBVIOUS
        <4> QED
          BY <2>2, <4>1 DEF Byte
      <3> QED
        BY <1>2, <1>6, <3>2, <3>3
    <2>5. k = Size(code) - 2
      BY <2>2, <2>4 DEF k
    <2>6. text = code
      <3>1. ASSUME NEW i \in 1..b PROVE text[i] = code[i]
        <4>1. /\ i + 2 \in 1..Len(s) /\ i + 2 =< k + 1 /\ i + 2 =< Size(code) /\ i + 2 \in 1..Len(r)
              /\ i + 2 \in 1..Size(code) /\ i + 2 \in 3..(Size(code) - 2) /\ (i + 2) - 2 = i
          BY <1>1, <1>6, <2>2, <2>5 DEF k
        <4>2. s[i + 2] = Byte(code, i + 2)
          BY <1>2, <1>4, <2>3, <4>1, MarksAre
        <4>3. Byte(code, i + 2) = code[i]
          BY <2>1, <4>1, ByteIs
        <4> QED
          BY <1>2, <1>5, <4>1, <4>2, <4>3
      <3> QED
        BY <1>5, <2>2, <2>4, <3>1, SameBytes
    <2>7. k = Len(s) \/ ~ Outside(of[k + 1], at[k + 1])
      <3> SUFFICES ASSUME k # Len(s) PROVE ~ Outside(of[k + 1], at[k + 1])
        OBVIOUS
      <3>1. k + 1 \in 1..Len(s) /\ k + 1 =< Size(code) /\ k + 1 = Size(code) - 1
        BY <1>1, <1>6, <2>2, <2>5
      <3>2. of[k + 1] = code /\ at[k + 1] = Size(code) - 1
        BY <1>1, <2>3, <3>1
      <3> QED
        BY <3>2 DEF Outside
    <2>8. Astray(s, of, at) = 0
      BY <2>1 DEF Astray, Outside
    <2>9. Costs(Drop(r, k) \o u, d)
      <3>1. Costs(Drop(r, k) \o u, d - Astray(s, of, at))
        BY <1>2, <1>4, <1>6, <2>7, RestCosts
      <3>2. d - Astray(s, of, at) = d
        BY <2>8
      <3> QED
        BY <3>1, <3>2
    <2> QED
      BY <1>2, <1>3, <2>1, <2>6, <2>9 DEF k
  <1> QED
    BY <1>2, <1>3, <1>7, <1>8

-----------------------------------------------------------------------------
(* try_parse_line finds the first separator at e and takes all up to the       *)
(* separator at k; the text ends at z, with the last byte that is no blank.    *)
LineTaken(r, e, k, z) ==
  /\ e \in 1..Len(r) /\ k \in e..Len(r) /\ z \in 0..(e - 1)
  /\ \A i \in 1..(e - 1) : r[i] \notin Separators
  /\ \A i \in e..k : r[i] \in Separators
  /\ \A i \in 1..(e - 1) : r[i] \notin Blanks => i =< z
  /\ try_parse_line(r) =
       [rx |-> Drop(r, k), text |-> IF IsText(Take(r, z)) THEN Take(r, z) ELSE NoText]

LEMMA LineIs ==
  ASSUME NEW r \in Bytes, Where(r, Separators) # {}
  PROVE  \E e, k, z \in Nat : LineTaken(r, e, k, z)
  <1> DEFINE end == Min(Where(r, Separators))
             Text == {0} \cup {i \in 1..(end - 1) : r[i] \notin Blanks}
             Last == {i \in end..Len(r) : i = Len(r) \/ r[i + 1] \notin Separators}
  <1>0. Len(r) \in Nat /\ DOMAIN r = 1..Len(r)
    BY BytesProperties
  <1>1. end \in 1..Len(r) /\ r[end] \in Separators /\ \A i \in 1..(end - 1) : r[i] \notin Separators
    <2>1. Where(r, Separators) \subseteq Nat
      BY <1>0 DEF Where
    <2>2. end \in Where(r, Separators) /\ \A i \in Where(r, Separators) : end =< i
      BY <2>1, MinIsLeast
    <2> HIDE DEF end
    <2>3. end \in 1..Len(r) /\ r[end] \in Separators
      BY <1>0, <2>2 DEF Where
    <2>4. ASSUME NEW i \in 1..(end - 1), r[i] \in Separators PROVE FALSE
      <3>1. i \in 1..Len(r) /\ ~ (end =< i)
        BY <1>0, <2>3
      <3> QED
        BY <1>0, <2>2, <2>4, <3>1 DEF Where
    <2> QED
      BY <2>3, <2>4
  <1>2. try_parse_line(r) =
          [rx |-> Drop(r, Min(Last)),
           text |-> IF IsText(Take(r, Max(Text))) THEN Take(r, Max(Text)) ELSE NoText]
    BY DEF try_parse_line
  <1> HIDE DEF end
  <1>3. Max(Text) \in 0..(end - 1) /\ \A i \in 1..(end - 1) : r[i] \notin Blanks => i =< Max(Text)
    <2>1. Text \subseteq 0..(end - 1) /\ Text # {} /\ end - 1 \in Nat
      BY <1>0, <1>1
    <2>2. Max(Text) \in Text /\ \A i \in Text : Max(Text) >= i
      <3> HIDE DEF Text
      <3> QED
        BY <2>1, MaxIsGreatest
    <2> DEFINE z == Max(Text)
    <2>3. \A i \in 1..(end - 1) : r[i] \notin Blanks => i \in Text
      OBVIOUS
    <2> HIDE DEF Text, z
    <2>4. z \in 0..(end - 1)
      BY <2>1, <2>2 DEF z
    <2>5. \A i \in 1..(end - 1) : r[i] \notin Blanks => i =< z
      BY <2>2, <2>3, <2>4 DEF z
    <2> QED
      BY <2>4, <2>5 DEF z
  <1>4. Min(Last) \in end..Len(r) /\ \A i \in end..Min(Last) : r[i] \in Separators
    <2>1. Last \subseteq Nat /\ Len(r) \in Last
      BY <1>0, <1>1
    <2>2. Min(Last) \in Last /\ \A i \in Last : Min(Last) =< i
      <3> HIDE DEF Last
      <3> QED
        BY <2>1, MinIsLeast
    <2> DEFINE k == Min(Last)
    <2>3. k \in end..Len(r)
      <3>1. Last \subseteq end..Len(r)
        OBVIOUS
      <3> HIDE DEF Last
      <3> QED
        BY <2>2, <3>1 DEF k
    <2>4. ASSUME NEW i \in end..k PROVE r[i] \in Separators
      <3>1. CASE i = end
        BY <1>1, <3>1
      <3>2. CASE i # end
        <4> HIDE DEF k
        <4>1. i - 1 \in end..Len(r) /\ (i - 1) + 1 = i /\ ~ (k =< i - 1)
          BY <1>0, <1>1, <2>3, <3>2
        <4>2. i - 1 \notin Last
          <5> HIDE DEF Last
          <5> QED
            BY <2>2, <4>1 DEF k
        <4> QED
          BY <4>1, <4>2
      <3> QED
        BY <3>1, <3>2
    <2> QED
      BY <2>3, <2>4
  <1> DEFINE k == Min(Last)
             z == Max(Text)
  <1>5. k \in Nat /\ z \in Nat /\ end \in Nat
    <2>1. k \in end..Len(r) /\ z \in 0..(end - 1) /\ end \in 1..Len(r)
      BY <1>1, <1>3, <1>4
    <2> HIDE DEF k, z
    <2> QED
      BY <1>0, <2>1
  <1>6. LineTaken(r, end, k, z)
    <2> HIDE DEF Text, Last
    <2> QED
      BY <1>1, <1>2, <1>3, <1>4 DEF LineTaken
  <1> HIDE DEF k, z
  <1> QED
    BY <1>5, <1>6

LEMMA TakeElements ==
  ASSUME NEW r \in Bytes, NEW z \in 0..Len(r)
  PROVE  Take(r, z) \in Bytes /\ Len(Take(r, z)) = z /\ \A i \in 1..z : Take(r, z)[i] = r[i]
  <1>1. \A i \in 1..z : i \in 1..Len(r) /\ r[i] \in 0..255
    BY BytesProperties
  <1>2. \A i \in 1..(z - 1 + 1) : SubSeq(r, 1, z)[i] = r[1 + i - 1]
    BY <1>1, SubSeqProperties DEF Bytes
  <1>3. \A i \in 1..z : i \in 1..(z - 1 + 1) /\ 1 + i - 1 = i
    OBVIOUS
  <1> QED
    BY <1>2, <1>3, TakeType DEF Take

(* Nothing, or the first byte of a frame alone, is no text.                    *)
LEMMA NotText ==
  ASSUME NEW t \in Bytes, Len(t) = 0 \/ (Len(t) = 1 /\ t[1] = STX)
  PROVE  ~ IsText(t)
  <1>1. CASE Len(t) = 0
    <2>1. t = << >>
      BY <1>1, EmptySeq DEF Bytes
    <2> QED
      BY <2>1 DEF IsText, NoText
  <1>2. CASE Len(t) = 1 /\ t[1] = STX
    <2>1. {i \in DOMAIN t : Printable(t[i])} = {}
      <3>1. DOMAIN t = 1..1
        BY <1>2, BytesProperties
      <3>2. ASSUME NEW i \in 1..1 PROVE ~ Printable(t[i])
        <4>1. i = 1
          OBVIOUS
        <4> QED
          BY <1>2, <4>1 DEF Printable, STX
      <3> QED
        BY <3>1, <3>2
    <2>2. Cardinality({i \in DOMAIN t : Printable(t[i])}) = 0
      BY <2>1, FS_EmptySet
    <2>3. (0 * 100) \div 1 = 0 /\ ~ (0 >= 80)
      OBVIOUS
    <2> QED
      BY <1>2, <2>2, <2>3 DEF IsText
  <1> QED
    BY <1>1, <1>2

(* The line that nothing is missing of, by the place in its frame where it     *)
(* begins: behind it is no text, and it is a code if it begins as one.         *)
LEMMA WholeLine ==
  ASSUME PlainCodes, NEW r \in Bytes, NEW s \in Bytes, Len(r) =< Len(s), \A i \in 1..Len(r) : s[i] = r[i],
         NEW of, NEW at, Marked(s, of, at),
         NEW e \in Nat, NEW k \in Nat, NEW z \in Nat, LineTaken(r, e, k, z),
         \A i \in 1..k : i \notin Breaks(s, of, at),
         r[1] = STX => Len(r) < 2 \/ Len(r) < 2 + r[2]
  PROVE  /\ k = Len(s) \/ ~ Outside(of[k + 1], at[k + 1])
         /\ ~ Outside(of[1], at[1]) => try_parse_line(r).text \in Codes \cup {NoText}
  <1> DEFINE code == of[1]
             j == at[1]
             n == Size(code)
             text == try_parse_line(r).text
  <1>1. /\ Len(r) \in Nat /\ Len(s) \in Nat /\ 1 =< e /\ e =< k /\ k =< Len(r) /\ k =< Len(s)
        /\ k \in 1..Len(s) /\ 1 \in 1..Len(s) /\ 1 \in 1..Len(r) /\ e \in 1..Len(r) /\ e \in 1..k
        /\ z \in 0..(e - 1) /\ z \in 0..Len(r)
    <2>1. Len(r) \in Nat /\ Len(s) \in Nat
      BY LenProperties DEF Bytes
    <2>2. e \in 1..Len(r) /\ k \in e..Len(r) /\ z \in 0..(e - 1)
      BY DEF LineTaken
    <2> QED
      BY <2>1, <2>2
  <1>2. /\ \A i \in 1..(e - 1) : s[i] \notin Separators
        /\ \A i \in e..k : s[i] \in Separators
        /\ text = NoText \/ text = Take(r, z)
        /\ text = IF IsText(Take(r, z)) THEN Take(r, z) ELSE NoText
    <2>1. /\ \A i \in 1..(e - 1) : i \in 1..Len(r) /\ r[i] \notin Separators
          /\ \A i \in e..k : i \in 1..Len(r) /\ r[i] \in Separators
      BY <1>1 DEF LineTaken
    <2> QED
      BY <2>1 DEF LineTaken
  <1>3. code \in Codes /\ j \in 1..n /\ n \in Nat /\ n >= 5 /\ j \in Nat /\ j =< n
    <2>1. code \in Codes /\ j \in 1..n
      BY <1>1, MarksAre
    <2>2. n \in Nat /\ n >= 5
      BY <2>1, CodeIs
    <2> HIDE DEF code, j, n
    <2> QED
      BY <2>1, <2>2
  <1>4. \A m \in 1..Len(s) :
          m =< k + 1 /\ j + (m - 1) =< n =>
            of[m] = code /\ at[m] = j + (m - 1) /\ s[m] = Byte(code, j + (m - 1))
    <2> SUFFICES ASSUME NEW m \in 1..Len(s), m =< k + 1, j + (m - 1) =< n
                 PROVE  of[m] = code /\ at[m] = j + (m - 1) /\ s[m] = Byte(code, j + (m - 1))
      OBVIOUS
    <2>1. \A i \in 1..(m - 1) : i \in 1..k
      BY <1>1
    <2>2. \A i \in 1..(m - 1) : i \notin Breaks(s, of, at)
      BY <2>1
    <2>3. of[m] = code /\ at[m] = j + (m - 1)
      BY <2>2, RunIs
    <2> QED
      BY <2>3, MarksAre
  <1> HIDE DEF code, j, n
  <1>5. CASE j = n
    <2>1. e = 1
      <3>1. s[1] = Byte(code, n) /\ Byte(code, n) \in Separators
        BY <1>1, <1>3, <1>4, <1>5, ByteIs DEF n
      <3>2. ~ (1 \in 1..(e - 1))
        BY <1>2, <3>1
      <3> QED
        BY <1>1, <3>2
    <2>2. at[1] = Size(of[1]) /\ \A i \in 1..k : s[i] \in Separators
      BY <1>2, <1>5, <2>1 DEF j, n, code
    <2>3. k = Len(s) \/ ~ Outside(of[k + 1], at[k + 1])
      <3>1. 1 \in 1..k
        BY <1>1
      <3> QED
        BY <1>1, <2>2, <3>1, EndIs
    <2>4. text = NoText
      <3>1. z = 0
        BY <1>1, <2>1
      <3> QED
        BY <1>1, <1>2, <3>1, TakeElements, NotText
    <2> QED
      BY <2>3, <2>4
  <1>6. CASE j = n - 1
    <2>1. e = 1
      <3>1. s[1] = Byte(code, n - 1) /\ Byte(code, n - 1) \in Separators
        <4>1. n - 1 \in 1..n /\ j + (1 - 1) = n - 1
          BY <1>3, <1>6
        <4> QED
          BY <1>1, <1>3, <1>4, <4>1, ByteIs DEF n
      <3>2. ~ (1 \in 1..(e - 1))
        BY <1>2, <3>1
      <3> QED
        BY <1>1, <3>2
    <2>2. at[1] = Size(of[1]) - 1 /\ \A i \in 1..k : s[i] \in Separators
      BY <1>2, <1>6, <2>1 DEF j, n, code
    <2>3. k = Len(s) \/ ~ Outside(of[k + 1], at[k + 1])
      <3>1. 1 \in 1..k
        BY <1>1
      <3> QED
        BY <1>1, <2>2, <3>1, EndFollows
    <2>4. text = NoText
      <3>1. z = 0
        BY <1>1, <2>1
      <3> QED
        BY <1>1, <1>2, <3>1, TakeElements, NotText
    <2> QED
      BY <2>3, <2>4
  <1>7. CASE j \in 2..(n - 2)
    <2> DEFINE c == n - j
    <2>1. c \in 2..(n - 2) /\ c \in Nat /\ j + (c - 1) = n - 1 /\ n - 1 =< n
      BY <1>3, <1>7
    <2>2. \A i \in 1..(c - 1) : j + i \in 3..(n - 1) /\ j + (i - 1) =< n
      BY <1>3, <1>7, <2>1
    <2> HIDE DEF c
    (* A letter is no separator. *)
    <2>3. \A i \in 1..Len(s) : i =< k + 1 /\ i < c /\ j + (i - 1) # 2 => s[i] \notin Separators
      <3> SUFFICES ASSUME NEW i \in 1..Len(s), i =< k + 1, i < c, j + (i - 1) # 2
                   PROVE  s[i] \notin Separators
        OBVIOUS
      <3>1. /\ j + (i - 1) \in 3..(n - 2) /\ j + (i - 1) \in 1..n /\ j + (i - 1) =< n
        BY <1>3, <1>7, <2>1 DEF c
      <3>2. s[i] = Byte(code, j + (i - 1))
        BY <1>4, <3>1
      <3> QED
        BY <1>3, <3>1, <3>2, ByteIs DEF n
    <2>4. e =< c
      <3> SUFFICES ASSUME c < e PROVE FALSE
        BY <1>1, <2>1
      <3>1. c \in 1..(e - 1) /\ c \in 1..Len(s) /\ c =< k + 1
        BY <1>1, <2>1
      <3>2. s[c] = Byte(code, n - 1)
        BY <1>4, <2>1, <3>1
      <3>3. Byte(code, n - 1) \in Separators
        <4>1. n - 1 \in 1..n
          BY <1>3
        <4> QED
          BY <1>3, <4>1, ByteIs DEF n
      <3> QED
        BY <1>2, <3>1, <3>2, <3>3
    <2>5. CASE e = c
      <3>1. at[c] = Size(of[c]) - 1 /\ c \in 1..k
        <4>1. c \in 1..Len(s) /\ c =< k + 1 /\ c \in 1..k
          BY <1>1, <2>1, <2>5
        <4> QED
          BY <1>4, <2>1, <4>1 DEF n
      <3>2. k = Len(s) \/ ~ Outside(of[k + 1], at[k + 1])
        <4>1. \A i \in c..k : s[i] \in Separators
          BY <1>2, <2>5
        <4> QED
          BY <1>1, <3>1, <4>1, EndFollows
      <3>3. ASSUME ~ Outside(of[1], at[1]) PROVE text \in Codes \cup {NoText}
        <4>1. j = 3
          <5>1. j \in {1, 3, n - 1, n}
            BY <3>3 DEF Outside, j, n, code
          <5> QED
            BY <1>3, <1>7, <5>1
        <4>2. /\ code \in Bytes /\ n = Len(code) + 4 /\ Len(code) \in Nat
              /\ Len(code) >= 1 /\ c = Len(code) + 1
          <5>1. /\ code \in Bytes /\ n = Len(code) + 4
                /\ Len(code) \in Nat /\ Len(code) >= 1
            BY <1>3, CodeIs DEF n
          <5> QED
            BY <4>1, <5>1 DEF c
        <4>3. \A i \in 1..Len(code) : i \in 1..Len(r) /\ r[i] = code[i] /\ r[i] \notin Separators
          <5> SUFFICES ASSUME NEW i \in 1..Len(code)
                       PROVE  i \in 1..Len(r) /\ r[i] = code[i] /\ r[i] \notin Separators
            OBVIOUS
          <5>1. i \in 1..Len(r) /\ i \in 1..Len(s) /\ i =< k + 1 /\ i < c
            BY <1>1, <2>5, <4>2
          <5>2. /\ j + (i - 1) = i + 2 /\ i + 2 \in 1..n /\ i + 2 \in 3..(n - 2) /\ (i + 2) - 2 = i
                /\ i + 2 =< n /\ i + 2 # 2
            BY <4>1, <4>2
          <5>3. s[i] = Byte(code, i + 2)
            BY <1>4, <5>1, <5>2
          <5>4. Byte(code, i + 2) = code[i]
            BY <1>3, <5>2, ByteIs DEF n
          <5>5. s[i] \notin Separators
            BY <2>3, <5>1, <5>2
          <5> QED
            BY <5>1, <5>3, <5>4, <5>5
        <4>4. z = Len(code)
          <5>1. Len(code) \in 1..Len(code) /\ Len(code) \in 1..(e - 1)
            BY <2>5, <4>2
          <5>2. r[Len(code)] \notin Blanks
            BY <1>3, <4>3, <5>1 DEF PlainCodes, Blanks
          <5>3. Len(code) =< z
            BY <5>1, <5>2 DEF LineTaken
          <5> QED
            BY <1>1, <2>5, <4>2, <5>3
        <4>5. Take(r, z) = code
          <5>1. /\ Take(r, z) \in Bytes /\ Len(Take(r, z)) = Len(code)
                /\ \A i \in 1..Len(code) : Take(r, z)[i] = r[i]
            BY <1>1, <4>4, TakeElements
          <5>2. \A i \in 1..Len(Take(r, z)) : Take(r, z)[i] = code[i]
            BY <4>3, <5>1
          <5> QED
            BY <4>2, <5>1, <5>2, SameBytes
        <4> QED
          BY <1>2, <1>3, <4>5
      <3> QED
        BY <3>2, <3>3
    <2>6. CASE e # c
      (* Then the length byte is the separator. *)
      <3>1. e \in 1..Len(s) /\ e =< k + 1 /\ e < c /\ s[e] \in Separators
        <4>1. e \in e..k
          BY <1>1
        <4> QED
          BY <1>1, <1>2, <2>1, <2>4, <2>6, <4>1
      <3>2. j + (e - 1) = 2
        BY <2>3, <3>1
      <3>3. j = 2 /\ e = 1
        BY <1>1, <1>3, <1>7, <3>2
      <3>4. k = 1
        <4> SUFFICES ASSUME k # 1 PROVE FALSE
          OBVIOUS
        <4>1. 2 \in e..k /\ 2 \in 1..Len(s) /\ 2 =< k + 1
          BY <1>1, <3>3
        <4>2. CASE c = 2
          <5>1. n = 4
            BY <1>3, <3>3, <4>2 DEF c
          <5> QED
            BY <1>3, <5>1
        <4>3. CASE c # 2
          <5>1. 2 < c /\ j + (2 - 1) # 2
            BY <2>1, <3>3, <4>3
          <5> QED
            BY <1>2, <2>3, <4>1, <5>1
        <4> QED
          BY <4>2, <4>3
      <3>5. k = Len(s) \/ ~ Outside(of[k + 1], at[k + 1])
        <4> SUFFICES ASSUME k # Len(s) PROVE ~ Outside(of[k + 1], at[k + 1])
          OBVIOUS
        <4>1. k + 1 = 2 /\ 2 \in 1..Len(s) /\ 2 =< k + 1 /\ j + (2 - 1) = 3 /\ 3 =< n
          BY <1>1, <1>3, <3>3, <3>4
        <4>2. at[2] = 3
          BY <1>4, <4>1
        <4> QED
          BY <4>1, <4>2 DEF Outside
      <3>6. Outside(of[1], at[1])
        BY <1>3, <1>7, <3>3 DEF Outside, j, n, code
      <3> QED
        BY <3>5, <3>6
    <2> QED
      BY <2>5, <2>6
  <1>8. CASE j = 1
    <2>1. s[1] = STX /\ r[1] = STX /\ STX \notin Separators
      <3>1. s[1] = STX
        BY <1>1, <1>8, MarksAre DEF j
      <3> QED
        BY <1>1, <3>1 DEF STX, Separators
    <2>2. e # 1
      BY <1>1, <1>2, <2>1
    <2>3. 2 \in 1..Len(s) /\ 2 \in 1..Len(r) /\ 2 =< k + 1 /\ e >= 2 /\ Len(r) >= 2
      BY <1>1, <2>2
    <2>4. of[2] = code /\ at[2] = 2 /\ s[2] = Byte(code, 2)
      BY <1>3, <1>4, <1>8, <2>3
    <2>5. s[2] = Len(code) /\ n = Len(code) + 4 /\ Len(code) \in Nat
      <3>1. Byte(code, 2) = Len(code)
        <4>1. \A m \in Nat : m >= 5 => 2 # m - 1 /\ 2 # m
          OBVIOUS
        <4> QED
          BY <1>3, <4>1 DEF Byte, n
      <3>2. Len(code) \in Nat /\ n = Len(code) + 4
        BY <1>3, CodeIs DEF n
      <3> QED
        BY <2>4, <3>1, <3>2
    <2>6. Len(r) < n - 2
      <3>1. Len(r) < 2 + Len(code)
        BY <2>1, <2>3, <2>5
      <3> QED
        BY <1>1, <2>5, <3>1
    (* All that is there are letters, and the length. *)
    <2>7. \A i \in 3..k : s[i] \notin Separators
      <3> SUFFICES ASSUME NEW i \in 3..k PROVE s[i] \notin Separators
        OBVIOUS
      <3>1. /\ i \in 1..Len(s) /\ i =< k + 1 /\ j + (i - 1) = i /\ i =< n
            /\ i \in 3..(n - 2) /\ i \in 1..n
        BY <1>1, <1>3, <1>8, <2>6
      <3>2. s[i] = Byte(code, i)
        BY <1>4, <3>1
      <3> QED
        BY <1>3, <3>1, <3>2, ByteIs DEF n
    <2>8. e = 2 /\ k = 2
      <3>1. e \in e..k /\ k \in e..k
        BY <1>1
      <3>2. e \notin 3..k /\ k \notin 3..k
        BY <1>2, <2>7, <3>1
      <3> QED
        BY <1>1, <2>3, <3>2
    <2>9. k = Len(s) \/ ~ Outside(of[k + 1], at[k + 1])
      <3> SUFFICES ASSUME k # Len(s) PROVE ~ Outside(of[k + 1], at[k + 1])
        OBVIOUS
      <3>1. k + 1 = 3 /\ 3 \in 1..Len(s) /\ 3 =< k + 1 /\ j + (3 - 1) = 3 /\ 3 =< n
        <4>1. k + 1 = 3 /\ 2 < Len(s)
          <5>1. k = 2 /\ 2 =< Len(s) /\ 2 # Len(s) /\ Len(s) \in Nat
            BY <1>1, <2>8
          <5> QED
            BY <5>1
        <4> QED
          BY <1>1, <1>3, <1>8, <4>1
      <3>2. at[3] = 3
        BY <1>4, <3>1
      <3> QED
        BY <3>1, <3>2 DEF Outside
    <2>10. text = NoText
      <3>1. z = 0 \/ z = 1
        BY <1>1, <2>8
      <3>2. /\ Take(r, z) \in Bytes /\ Len(Take(r, z)) = z
            /\ \A i \in 1..z : Take(r, z)[i] = r[i]
        BY <1>1, TakeElements
      <3>3. Len(Take(r, z)) = 0 \/ (Len(Take(r, z)) = 1 /\ Take(r, z)[1] = STX)
        BY <2>1, <3>1, <3>2
      <3>4. ~ IsText(Take(r, z))
        BY <3>2, <3>3, NotText
      <3> QED
        BY <1>2, <3>4
    <2> QED
      BY <2>9, <2>10
  <1>9. j = 1 \/ j \in 2..(n - 2) \/ j = n - 1 \/ j = n
    BY <1>3
  <1> QED
    BY <1>5, <1>6, <1>7, <1>8, <1>9

LEMMA LineCosts ==
  ASSUME PlainCodes, NEW r \in Bytes, NEW u \in Bytes, NEW d \in Int, Costs(r \o u, d),
         r[1] = STX => Len(r) < 2 \/ Len(r) < 2 + r[2]
  PROVE  /\ try_parse_line(r).rx \in Bytes
         /\ \/ /\ try_parse_line(r).text \in Codes \cup {NoText}
               /\ Costs(try_parse_line(r).rx \o u, d)
            \/ try_parse_line(r).text # NoText /\ Costs(try_parse_line(r).rx \o u, d - 1)
  <1>1. CASE Where(r, Separators) = {}
    BY <1>1 DEF try_parse_line
  <1>2. CASE Where(r, Separators) # {}
    <2> DEFINE s == r \o u
    <2>1. PICK e, k, z \in Nat : LineTaken(r, e, k, z)
      BY <1>2, LineIs
    <2>2. /\ Len(r) \in Nat /\ Len(u) \in Nat /\ k \in 0..Len(r) /\ k \in 1..Len(r)
          /\ try_parse_line(r).rx = Drop(r, k)
      <3>1. Len(r) \in Nat /\ Len(u) \in Nat
        BY LenProperties DEF Bytes
      <3>2. e \in 1..Len(r) /\ k \in e..Len(r) /\ try_parse_line(r).rx = Drop(r, k)
        BY <2>1 DEF LineTaken
      <3> QED
        BY <3>1, <3>2
    <2>3. /\ s \in Bytes /\ Len(s) = Len(r) + Len(u) /\ \A i \in 1..Len(r) : s[i] = r[i]
          /\ Drop(r, k) \in Bytes /\ Rest(Drop(r, k) \o u, s, k)
      BY <2>2, RestOfBoth
    <2>4. PICK of \in [1..Len(s) -> Codes], at \in [1..Len(s) -> Nat] :
            Marked(s, of, at) /\ Astray(s, of, at) + 2 * Cardinality(Breaks(s, of, at)) =< d
      BY DEF Costs
    <2> HIDE DEF s
    <2>5. k \in 1..Len(s) /\ Len(r) =< Len(s)
      BY <2>2, <2>3
    <2>6. Astray(s, of, at) \in {0, 1}
      BY DEF Astray
    <2>7. ASSUME Costs(Drop(r, k) \o u, d - 1) PROVE Costs(Drop(r, k) \o u, d)
      <3>1. d - 1 \in Int /\ d - 1 =< d
        OBVIOUS
      <3> QED
        BY <2>3, <2>7, <3>1, CostsMore DEF Rest
    <2>8. CASE \E i \in 1..k : i \in Breaks(s, of, at)
      <3>1. Costs(Drop(r, k) \o u, d - 1)
        BY <2>3, <2>4, <2>5, <2>8, RestCosts
      <3> QED
        BY <2>2, <2>3, <2>7, <3>1
    <2>9. CASE ~ \E i \in 1..k : i \in Breaks(s, of, at)
      <3>1. /\ k = Len(s) \/ ~ Outside(of[k + 1], at[k + 1])
            /\ ~ Outside(of[1], at[1]) => try_parse_line(r).text \in Codes \cup {NoText}
        BY <2>1, <2>3, <2>4, <2>5, <2>9, WholeLine
      <3>2. Costs(Drop(r, k) \o u, d - Astray(s, of, at))
        BY <2>3, <2>4, <2>5, <3>1, RestCosts
      <3>3. CASE Astray(s, of, at) = 0
        <4>1. ~ Outside(of[1], at[1])
          <5>1. Len(s) > 0
            BY <2>2, <2>3
          <5> QED
            BY <3>3, <5>1 DEF Astray
        <4>2. d - Astray(s, of, at) = d
          BY <3>3
        <4> QED
          BY <2>2, <2>3, <3>1, <3>2, <4>1, <4>2
      <3>4. CASE Astray(s, of, at) = 1
        <4>1. Costs(Drop(r, k) \o u, d - 1)
          BY <3>2, <3>4
        <4> QED
          BY <2>2, <2>3, <2>7, <4>1
      <3> QED
        BY <2>6, <3>3, <3>4
    <2> QED
      BY <2>8, <2>9
  <1> QED
    BY <1>1, <1>2

(* No byte that was sent is an impossible length.                              *)
LEMMA ByteRange ==
  ASSUME PlainCodes, NEW s \in Bytes, NEW d \in Int, Costs(s, d), NEW i \in 1..Len(s)
  PROVE  s[i] \in Lengths
  <1>1. PICK of \in [1..Len(s) -> Codes], at \in [1..Len(s) -> Nat] : Marked(s, of, at)
    BY DEF Costs
  <1>2. /\ of[i] \in Codes /\ at[i] \in 1..Size(of[i]) /\ s[i] = Byte(of[i], at[i])
        /\ s[i] \in Lengths /\ (s[i] = STX <=> at[i] = 1)
    BY <1>1, MarksAre
  <1> QED
    BY <1>2

(* One turn of the loop: a text that is no code is paid for.                   *)
Found(r) ==
  LET frame == try_parse_protocol_frame(r)
  IN IF frame.text # NoText THEN frame ELSE try_parse_line(frame.rx)

LEMMA TurnCosts ==
  ASSUME PlainCodes, NEW r \in Bytes, NEW u \in Bytes, NEW d \in Int, Costs(r \o u, d)
  PROVE  \/ Found(r).text \in Codes \cup {NoText} /\ Costs(Found(r).rx \o u, d)
         \/ Found(r).text # NoText /\ Costs(Found(r).rx \o u, d - 1)
  <1> DEFINE head == FromStx(r)
             frame == try_parse_protocol_frame(r)
  <1>1. head \in Bytes /\ Costs(head \o u, d) /\ Len(head) \in Nat
    BY SkipCosts, BytesProperties
  <1>2. CASE Len(head) < 2 \/ head[1] # STX
    <2>1. frame = [rx |-> head, text |-> NoText]
      BY <1>2 DEF try_parse_protocol_frame
    <2>2. Found(r) = try_parse_line(head)
      BY <2>1 DEF Found
    <2> HIDE DEF head, frame
    <2> QED
      BY <1>1, <1>2, <2>2, LineCosts
  <1>3. CASE ~ (Len(head) < 2 \/ head[1] # STX)
    <2>1. head[1] = STX /\ Len(head) >= 2
      BY <1>1, <1>3
    <2>2. head[2] \in Lengths
      <3> DEFINE s == head \o u
      <3>1. 2 \in 1..Len(head) /\ 0 \in 0..Len(head)
        BY <1>1, <2>1
      <3>2. s \in Bytes /\ s[2] = head[2] /\ Len(s) = Len(head) + Len(u) /\ Len(u) \in Nat
        <4>1. Len(u) \in Nat
          BY BytesProperties
        <4> HIDE DEF head
        <4> QED
          BY <1>1, <3>1, <4>1, RestOfBoth
      <3>3. Costs(s, d)
        BY <1>1
      <3> HIDE DEF s, head
      <3>4. 2 \in 1..Len(s)
        BY <1>1, <2>1, <3>2
      <3>5. s[2] \in Lengths
        BY <3>2, <3>3, <3>4, ByteRange
      <3> QED
        BY <3>2, <3>5
    <2>3. CASE Len(head) < 2 + head[2]
      <3>1. frame = [rx |-> head, text |-> NoText]
        BY <1>3, <2>2, <2>3 DEF try_parse_protocol_frame, Lengths
      <3>2. Found(r) = try_parse_line(head)
        BY <3>1 DEF Found
      <3> HIDE DEF head, frame
      <3> QED
        BY <1>1, <2>3, <3>2, LineCosts
    <2>4. CASE ~ (Len(head) < 2 + head[2])
      <3>1. frame = FrameAtHead(head)
        BY <1>3, <2>2, <2>4 DEF try_parse_protocol_frame, Lengths
      <3>2. Len(head) >= 2 + head[2]
        <4>1. PICK b \in Lengths : head[2] = b /\ b \in Nat /\ b >= 1
          BY <2>2 DEF Lengths
        <4> HIDE DEF head
        <4> QED
          BY <1>1, <2>4, <4>1
      <3> HIDE DEF head
      <3>3. \/ FrameAtHead(head).text \in Codes /\ Costs(FrameAtHead(head).rx \o u, d)
            \/ Costs(FrameAtHead(head).rx \o u, d - 1)
        <4>1. PICK b \in Lengths : head[2] = b /\ b \in Nat /\ b >= 1
          BY <2>2 DEF Lengths
        <4> QED
          BY <1>1, <2>1, <3>2, <4>1, FrameCosts
      <3>4. FrameAtHead(head).text # NoText
        <4>1. PICK b \in Lengths : head[2] = b /\ b \in Nat /\ b >= 1
          BY <2>2 DEF Lengths
        <4>2. \A i \in 3..(2 + b) : head[i] \in 0..255
          <5>1. \A i \in 3..(2 + b) : i \in 1..Len(head)
            BY <1>1, <3>2, <4>1
          <5> QED
            BY <1>1, <5>1, BytesProperties
        <4>3. Len(SubSeq(head, 3, 2 + b)) = IF 3 =< 2 + b THEN (2 + b) - 3 + 1 ELSE 0
          BY <4>1, <4>2, SubSeqProperties
        <4>4. Len(SubSeq(head, 3, 2 + b)) # 0 /\ Len(<< >>) = 0
          BY <4>1, <4>3
        <4>5. SubSeq(head, 3, 2 + b) # << >>
          BY <4>4
        <4> QED
          BY <4>1, <4>5 DEF FrameAtHead, NoText
      <3>5. Found(r) = FrameAtHead(head)
        BY <3>1, <3>4 DEF Found
      <3> QED
        BY <3>3, <3>4, <3>5
    <2> QED
      BY <2>3, <2>4
  <1> QED
    BY <1>2, <1>3

-----------------------------------------------------------------------------
(* What comes in. *)

(* A frame behind the rest adds no break.                                      *)
LEMMA ScanCosts ==
  ASSUME NEW s \in Bytes, NEW code \in Codes, NEW d \in Int, Costs(s, d)
  PROVE  Costs(s \o Frame(code), d)
  <1> DEFINE t == s \o Frame(code)
             n == Size(code)
  <1>1. PICK of \in [1..Len(s) -> Codes], at \in [1..Len(s) -> Nat] :
          Marked(s, of, at) /\ Astray(s, of, at) + 2 * Cardinality(Breaks(s, of, at)) =< d
    BY DEF Costs
  <1>2. Len(s) \in Nat /\ n \in Nat /\ n >= 5 /\ Frame(code) \in Bytes /\ Len(Frame(code)) = n
    BY BytesProperties, CodeIs, FrameIs
  <1>3. t \in Bytes /\ Len(t) = Len(s) + n
    BY <1>2, JoinedIs
  <1>4. \A i \in 1..Len(t) : t[i] = IF i =< Len(s) THEN s[i] ELSE Byte(code, i - Len(s))
    <2>1. \A i \in 1..(Len(s) + n) : t[i] = IF i =< Len(s) THEN s[i] ELSE Frame(code)[i - Len(s)]
      BY <1>2, JoinedIs
    <2> HIDE DEF t
    <2>2. \A i \in 1..(Len(s) + n) : ~ (i =< Len(s)) => i - Len(s) \in 1..n
      BY <1>2
    <2>3. \A m \in 1..n : Frame(code)[m] = Byte(code, m)
      BY FrameIs
    <2> HIDE DEF n
    <2> QED
      BY <1>3, <2>1, <2>2, <2>3
  <1> DEFINE of1 == [i \in 1..Len(t) |-> IF i =< Len(s) THEN of[i] ELSE code]
             at1 == [i \in 1..Len(t) |-> IF i =< Len(s) THEN at[i] ELSE i - Len(s)]
  <1> HIDE DEF t, n
  <1>5. /\ \A i \in 1..Len(s) : i \in 1..Len(t) /\ i # Len(t)
        /\ \A i \in 1..Len(t) : i =< Len(s) => i \in 1..Len(s)
        /\ \A i \in 1..Len(t) : ~ (i =< Len(s)) => i - Len(s) \in 1..n /\ i - Len(s) \in Nat
        /\ \A i \in 1..Len(t) : i # Len(t) => i + 1 \in 1..Len(t)
    BY <1>2, <1>3
  <1>6. of1 \in [1..Len(t) -> Codes] /\ at1 \in [1..Len(t) -> Nat]
    BY <1>5
  <1>7. \A i \in 1..Len(t) : IF i =< Len(s) THEN of1[i] = of[i] /\ at1[i] = at[i]
                                            ELSE of1[i] = code /\ at1[i] = i - Len(s)
    OBVIOUS
  <1> HIDE DEF of1, at1
  <1>8. Marked(t, of1, at1)
    <2> SUFFICES ASSUME NEW i \in 1..Len(t)
                 PROVE  at1[i] \in 1..Size(of1[i]) /\ t[i] = Byte(of1[i], at1[i])
      BY <1>6 DEF Marked
    <2>1. CASE i =< Len(s)
      <3>1. at[i] \in 1..Size(of[i]) /\ s[i] = Byte(of[i], at[i])
        BY <1>1, <1>5, <2>1 DEF Marked
      <3> QED
        BY <1>4, <1>7, <2>1, <3>1
    <2>2. CASE ~ (i =< Len(s))
      BY <1>4, <1>5, <1>7, <2>2 DEF n
    <2> QED
      BY <2>1, <2>2
  <1>9. Breaks(t, of1, at1) \in SUBSET Breaks(s, of, at)
    <2> SUFFICES ASSUME NEW i \in Breaks(t, of1, at1) PROVE i \in Breaks(s, of, at)
      OBVIOUS
    <2>1. i \in 1..Len(t) /\ IF i = Len(t) THEN at1[i] # Size(of1[i]) ELSE ~ Joins(of1, at1, i)
      BY DEF Breaks
    <2>2. CASE i < Len(s)
      <3>1. i \in 1..Len(s) /\ i =< Len(s) /\ i # Len(s) /\ i + 1 \in 1..Len(t) /\ i + 1 =< Len(s) /\ i # Len(t)
        BY <1>2, <1>5, <2>1, <2>2
      <3>2. ~ Joins(of, at, i)
        BY <1>7, <2>1, <3>1 DEF Joins
      <3> QED
        BY <3>1, <3>2 DEF Breaks
    <2>3. CASE i = Len(s)
      <3>1. i \in 1..Len(s) /\ i =< Len(s) /\ i + 1 \in 1..Len(t) /\ ~ (i + 1 =< Len(s)) /\ i # Len(t)
            /\ (i + 1) - Len(s) = 1
        BY <1>2, <1>3, <1>5, <2>1, <2>3
      <3>2. at1[i + 1] = 1 /\ of1[i] = of[i] /\ at1[i] = at[i]
        BY <1>7, <2>1, <3>1
      <3>3. at[i] # Size(of[i])
        BY <2>1, <3>1, <3>2 DEF Joins
      <3> QED
        BY <2>3, <3>1, <3>3 DEF Breaks
    <2>4. CASE i > Len(s)
      <3>1. ~ (i =< Len(s)) /\ i \in Nat
        BY <1>2, <2>1, <2>4
      <3>2. CASE i = Len(t)
        <4>1. at1[i] = n /\ of1[i] = code
          BY <1>2, <1>3, <1>7, <2>1, <3>1, <3>2
        <4> QED
          BY <2>1, <3>2, <4>1 DEF n
      <3>3. CASE i # Len(t)
        <4>1. i + 1 \in 1..Len(t) /\ ~ (i + 1 =< Len(s)) /\ (i + 1) - Len(s) = (i - Len(s)) + 1
          BY <1>2, <1>5, <2>1, <3>1, <3>3
        <4> QED
          BY <1>7, <2>1, <3>1, <3>3, <4>1 DEF Joins
      <3> QED
        BY <3>2, <3>3
    <2> QED
      BY <1>2, <2>1, <2>2, <2>3, <2>4
  <1>10. /\ Cardinality(Breaks(t, of1, at1)) =< Cardinality(Breaks(s, of, at))
         /\ Cardinality(Breaks(t, of1, at1)) \in Nat /\ Cardinality(Breaks(s, of, at)) \in Nat
    BY <1>3, <1>9, BreaksFinite, FS_Subset
  <1>11. Astray(t, of1, at1) =< Astray(s, of, at) /\ {Astray(t, of1, at1), Astray(s, of, at)} \subseteq {0, 1}
    <2>1. CASE Len(s) = 0
      <3>1. 1 \in 1..Len(t) /\ ~ (1 =< Len(s)) /\ 1 - Len(s) = 1
        BY <1>2, <1>3, <2>1
      <3>2. at1[1] = 1
        BY <1>7, <3>1
      <3> QED
        BY <3>2 DEF Astray, Outside
    <2>2. CASE Len(s) # 0
      <3>1. 1 \in 1..Len(t) /\ 1 =< Len(s) /\ Len(t) > 0 /\ Len(s) > 0
        BY <1>2, <1>3, <2>2
      <3>2. at1[1] = at[1] /\ of1[1] = of[1]
        BY <1>7, <3>1
      <3> QED
        BY <3>1, <3>2 DEF Astray
    <2> QED
      BY <2>1, <2>2
  <1>12. Astray(t, of1, at1) + 2 * Cardinality(Breaks(t, of1, at1)) =< d
    BY <1>1, <1>10, <1>11
  <1> QED
    BY <1>6, <1>8, <1>12 DEF Costs, t

(* The first m of n bytes of u come behind r, the others are lost.             *)
LEMMA LossCosts ==
  ASSUME NEW r \in Bytes, NEW u \in Bytes, NEW n \in 0..Len(u), NEW m \in 0..n,
         NEW d \in Int, Costs(r \o u, d)
  PROVE  Costs((r \o Take(u, m)) \o Drop(u, n), IF m = n THEN d ELSE d + 2)
  <1> DEFINE s == r \o u
             a == Take(u, m)
             b == Drop(u, n)
             front == r \o a
             t == front \o b
             p == Len(r) + m
             q == Len(r) + n
  <1>1. Len(r) \in Nat /\ Len(u) \in Nat /\ m \in Nat /\ n \in Nat /\ m =< n /\ n =< Len(u)
        /\ m \in 0..Len(u)
    BY BytesProperties
  <1>2. /\ a \in Bytes /\ Len(a) = m /\ \A i \in 1..m : a[i] = u[i]
        /\ b \in Bytes /\ Len(b) = Len(u) - n /\ \A i \in 1..Len(b) : b[i] = u[i + n]
    BY <1>1, TakeElements, DropElements DEF Rest
  <1> HIDE DEF a, b
  <1>3. /\ s \in Bytes /\ Len(s) = Len(r) + Len(u)
        /\ \A i \in 1..(Len(r) + Len(u)) : s[i] = IF i =< Len(r) THEN r[i] ELSE u[i - Len(r)]
    BY JoinedIs
  <1>4. /\ front \in Bytes /\ Len(front) = Len(r) + Len(a)
        /\ \A i \in 1..(Len(r) + Len(a)) : front[i] = IF i =< Len(r) THEN r[i] ELSE a[i - Len(r)]
    BY <1>2, JoinedIs
  <1> HIDE DEF front
  <1>5. /\ t \in Bytes /\ Len(t) = Len(front) + Len(b)
        /\ \A i \in 1..(Len(front) + Len(b)) :
             t[i] = IF i =< Len(front) THEN front[i] ELSE b[i - Len(front)]
    BY <1>2, <1>4, JoinedIs
  <1> HIDE DEF s, t
  <1>6. Len(front) = p /\ p \in Nat /\ q \in Nat /\ p =< q /\ q =< Len(s) /\ Len(t) = Len(s) - (q - p)
    BY <1>1, <1>2, <1>3, <1>4, <1>5
  <1>7. ASSUME NEW i \in 1..Len(t) PROVE t[i] = IF i =< p THEN s[i] ELSE s[i + (q - p)]
    <2>1. i \in 1..(Len(front) + Len(b))
      BY <1>5
    <2>2. CASE i =< Len(r)
      <3>1. i =< p /\ i \in 1..(Len(r) + Len(a)) /\ i \in 1..(Len(r) + Len(u))
        BY <1>1, <1>2, <2>1, <2>2
      <3> QED
        BY <1>3, <1>4, <1>5, <1>6, <2>1, <2>2, <3>1
    <2>3. CASE i > Len(r) /\ i =< p
      <3>1. /\ ~ (i =< Len(r)) /\ i \in 1..(Len(r) + Len(a)) /\ i \in 1..(Len(r) + Len(u))
            /\ i - Len(r) \in 1..m
        BY <1>1, <1>2, <2>1, <2>3
      <3> QED
        BY <1>2, <1>3, <1>4, <1>5, <1>6, <2>1, <2>3, <3>1
    <2>4. CASE i > p
      <3>1. /\ ~ (i =< p) /\ i - p \in 1..Len(b) /\ i + (q - p) \in 1..(Len(r) + Len(u))
            /\ ~ (i + (q - p) =< Len(r)) /\ (i + (q - p)) - Len(r) = (i - p) + n
        BY <1>1, <1>2, <1>6, <2>1, <2>4
      <3>2. t[i] = b[i - p]
        BY <1>5, <1>6, <2>1, <3>1
      <3>3. b[i - p] = u[(i - p) + n]
        BY <1>2, <3>1
      <3>4. s[i + (q - p)] = u[(i + (q - p)) - Len(r)]
        BY <1>3, <3>1
      <3> QED
        BY <3>1, <3>2, <3>3, <3>4
    <2>5. i =< Len(r) \/ (i > Len(r) /\ i =< p) \/ i > p
      BY <1>1, <1>6
    <2> QED
      BY <2>2, <2>3, <2>4, <2>5
  <1>8. CASE m = n
    <2>1. p = q /\ Len(t) = Len(s)
      BY <1>1, <1>3, <1>6, <1>8
    <2>2. \A i \in 1..Len(t) : t[i] = s[i]
      <3> SUFFICES ASSUME NEW i \in 1..Len(t) PROVE t[i] = s[i]
        OBVIOUS
      <3>1. i + (q - p) = i
        BY <1>6, <2>1
      <3> QED
        BY <1>7, <3>1
    <2>3. t = s
      BY <1>3, <1>5, <2>1, <2>2, SameBytes
    <2> QED
      BY <1>8, <2>3 DEF s, t, a, b, front
  <1>9. CASE m # n
    <2>1. p < q
      BY <1>1, <1>9
    <2>2. Costs(s, d)
      BY DEF s
    <2>3. Costs(t, d + 2)
      <3> HIDE DEF p, q
      <3> QED
        BY <1>3, <1>5, <1>6, <1>7, <2>1, <2>2, CutCosts
    <2> QED
      BY <1>9, <2>3 DEF t, a, b, front
  <1> QED
    BY <1>8, <1>9

-----------------------------------------------------------------------------
(* The wrong texts found, and those that what is in rx and behind it can still *)
(* make, are no more than two for each loss.                                   *)
PaidInv ==
  /\ wrong =< 2 * MaxLost + 1
  /\ lost =< MaxLost => Costs(rx \o uart, 2 * lost - wrong)

LEMMA CostsNothingLess ==
  ASSUME NEW s \in Bytes, NEW d \in Int, Costs(s, d)
  PROVE  d >= 0
  <1>1. PICK of \in [1..Len(s) -> Codes], at \in [1..Len(s) -> Nat] :
          Marked(s, of, at) /\ Astray(s, of, at) + 2 * Cardinality(Breaks(s, of, at)) =< d
    BY DEF Costs
  <1>2. Astray(s, of, at) \in {0, 1} /\ Cardinality(Breaks(s, of, at)) \in Nat
    BY BreaksFinite DEF Astray
  <1> QED
    BY <1>1, <1>2

LEMMA PaidTypes ==
  ASSUME IInv
  PROVE  /\ rx \in Bytes /\ uart \in Bytes /\ rx \o uart \in Bytes
         /\ Len(rx) \in Nat /\ Len(uart) \in Nat /\ Len(rx) =< BufferSize
         /\ Len(rx \o uart) = Len(rx) + Len(uart)
         /\ lost \in Nat /\ lost =< MaxLost + 1 /\ wrong \in Nat /\ MaxLost \in Nat
         /\ BufferSize \in Nat /\ BufferSize > 0 /\ ReadSize \in Nat
         /\ 2 * lost - wrong \in Int
  <1>1. /\ rx \in Bytes /\ uart \in Bytes /\ Len(rx) =< BufferSize /\ lost \in 0..(MaxLost + 1) /\ wrong \in Nat
    BY DEF IInv, TypeOK, Bytes
  <1>2. rx \o uart \in Bytes /\ Len(rx \o uart) = Len(rx) + Len(uart)
    BY <1>1, JoinedIs
  <1>3. Len(rx) \in Nat /\ Len(uart) \in Nat
    BY <1>1, BytesProperties
  <1>4. MaxLost \in Nat /\ BufferSize \in Nat /\ BufferSize > 0 /\ ReadSize \in Nat
    BY QrAssumption
  <1>5. lost \in Nat /\ lost =< MaxLost + 1 /\ 2 * lost - wrong \in Int
    BY <1>1, <1>4
  <1> QED
    BY <1>1, <1>2, <1>3, <1>4, <1>5

LEMMA PaidInit == Init => PaidInv
  <1> SUFFICES ASSUME Init PROVE PaidInv
    OBVIOUS
  <1>1. rx \o uart = << >> /\ lost = 0 /\ wrong = 0 /\ MaxLost \in Nat
    BY QrAssumption DEF Init
  <1>2. Costs(<< >>, 0)
    <2> DEFINE of == [i \in 1..0 |-> {}]
               at == [i \in 1..0 |-> 0]
    <2>1. Len(<< >>) = 0 /\ of \in [1..0 -> Codes] /\ at \in [1..0 -> Nat]
      OBVIOUS
    <2>2. Marked(<< >>, of, at) /\ Breaks(<< >>, of, at) = {} /\ Astray(<< >>, of, at) = 0
      BY <2>1 DEF Marked, Breaks, Astray
    <2>3. Cardinality({}) = 0
      BY FS_EmptySet
    <2> HIDE DEF of, at
    <2>4. Astray(<< >>, of, at) + 2 * Cardinality(Breaks(<< >>, of, at)) =< 0
      <3>1. Astray(<< >>, of, at) = 0 /\ Cardinality(Breaks(<< >>, of, at)) = 0
        BY <2>2, <2>3
      <3> QED
        BY <3>1
    <2> QED
      BY <2>1, <2>2, <2>4 DEF Costs
  <1>3. 2 * lost - wrong = 0 /\ wrong =< 2 * MaxLost + 1
    BY <1>1
  <1> QED
    BY <1>1, <1>2, <1>3 DEF PaidInv

(* A read that has room moves bytes from one side to the other; what it has no *)
(* room for is one gap, also if it takes all of rx with it.                    *)
LEMMA PaidRead ==
  ASSUME IInv, PaidInv, Reading
  PROVE  PaidInv'
  <1>0. PICK n \in 0..Min({Len(uart), ReadSize}) : ReadBytes(n)
    BY DEF Reading
  <1> DEFINE space == BufferSize - Len(rx)
             d == 2 * lost - wrong
  <1>1. space \in Nat /\ d \in Int
    BY PaidTypes
  <1>2. n \in Nat /\ n =< Len(uart) /\ n \in 0..Len(uart)
    <2>1. Min({Len(uart), ReadSize}) \in 0..Len(uart)
      <3>1. Len(uart) \in Nat /\ ReadSize \in Nat
        BY PaidTypes
      <3> QED
        BY <3>1, MinOfTwo
    <2> QED
      BY <1>0, <2>1, PaidTypes
  <1>3. /\ wrong' = wrong
        /\ lost' = IF n > space THEN IF lost + 1 =< MaxLost + 1 THEN lost + 1 ELSE MaxLost + 1 ELSE lost
    <2>1. lost + 1 \in Nat /\ MaxLost + 1 \in Nat
      BY PaidTypes
    <2>2. Min({lost + 1, MaxLost + 1}) = IF lost + 1 =< MaxLost + 1 THEN lost + 1 ELSE MaxLost + 1
      BY <2>1, MinOfTwo
    <2> QED
      BY <1>0, <2>2 DEF ReadBytes
  <1>4. SUFFICES ASSUME lost' =< MaxLost PROVE Costs(rx' \o uart', 2 * lost' - wrong')
    BY <1>3 DEF PaidInv
  <1>5. /\ lost =< MaxLost
        /\ 2 * lost' - wrong' = IF n > space THEN d + 2 ELSE d
    <2>1. lost =< MaxLost /\ (n > space => lost' = lost + 1) /\ (~ (n > space) => lost' = lost)
      <3>1. lost \in Nat /\ lost =< MaxLost + 1 /\ MaxLost \in Nat
        BY PaidTypes
      <3>2. n > space => lost + 1 =< MaxLost + 1 /\ lost' = lost + 1
        BY <1>3, <1>4, <3>1
      <3>3. ~ (n > space) => lost' = lost
        BY <1>3
      <3> QED
        BY <1>4, <3>1, <3>2, <3>3
    <2>2. wrong' = wrong /\ lost \in Nat /\ wrong \in Nat
      BY <1>3, PaidTypes
    <2> QED
      BY <2>1, <2>2
  <1>6. Costs(rx \o uart, d)
    BY <1>5 DEF PaidInv
  <1>7. uart' = Drop(uart, n)
    BY <1>0 DEF ReadBytes
  <1>8. CASE Len(rx) < BufferSize \/ n = 0
    <2> DEFINE m == Min({n, space})
    <2>1. m = IF n =< space THEN n ELSE space
      BY <1>1, <1>2, MinOfTwo
    <2>2. rx' = rx \o Take(uart, m)
      BY <1>0, <1>8 DEF ReadBytes
    <2> HIDE DEF m
    <2>3. m \in 0..n /\ (m = n <=> ~ (n > space))
      BY <1>1, <1>2, <2>1
    <2> HIDE DEF space, d
    <2>4. Costs((rx \o Take(uart, m)) \o Drop(uart, n), IF m = n THEN d ELSE d + 2)
      BY <1>1, <1>2, <1>6, <2>3, PaidTypes, LossCosts
    <2> QED
      BY <1>5, <1>7, <2>2, <2>3, <2>4
  <1>9. CASE ~ (Len(rx) < BufferSize \/ n = 0)
    <2> DEFINE t == Drop(uart, n)
               s == rx \o uart
               q == Len(rx) + n
    <2>1. Len(rx) = BufferSize /\ n > 0 /\ n > space
      BY <1>2, <1>9, PaidTypes
    <2>2. rx' \o uart' = t
      <3>1. rx' = << >> /\ t \in Bytes
        BY <1>0, <1>2, <1>7, <1>9, PaidTypes, DropType DEF ReadBytes
      <3> QED
        BY <1>7, <3>1 DEF Bytes
    <2>3. /\ t \in Bytes /\ Len(t) = Len(uart) - n
          /\ \A i \in 1..Len(t) : t[i] = uart[i + n]
      BY <1>2, PaidTypes, DropElements DEF Rest
    <2>4. /\ s \in Bytes /\ Len(s) = Len(rx) + Len(uart)
          /\ \A i \in 1..(Len(rx) + Len(uart)) : s[i] = IF i =< Len(rx) THEN rx[i] ELSE uart[i - Len(rx)]
      BY PaidTypes, JoinedIs
    <2> HIDE DEF t, s
    <2>5. /\ q \in Nat /\ 0 < q /\ q =< Len(s) /\ Len(t) = Len(s) - (q - 0) /\ 0 \in Nat
      <3>1. PICK a \in Nat, b \in Nat : a = Len(rx) /\ b = Len(uart)
        BY PaidTypes
      <3>2. n \in Nat /\ n > 0 /\ n =< b
        BY <1>2, <2>1, <3>1
      <3>3. a + n \in Nat /\ 0 < a + n /\ a + n =< a + b /\ b - n = (a + b) - ((a + n) - 0)
        BY <3>1, <3>2
      <3> QED
        BY <2>3, <2>4, <3>1, <3>3
    <2>6. ASSUME NEW i \in 1..Len(t) PROVE t[i] = IF i =< 0 THEN s[i] ELSE s[i + (q - 0)]
      <3>1. PICK a \in Nat, b \in Nat : a = Len(rx) /\ b = Len(uart)
        BY PaidTypes
      <3>2. i \in Nat /\ i >= 1 /\ i =< b - n
        BY <1>2, <2>3, <3>1
      <3>3. i + (q - 0) = i + (a + n) /\ i + (a + n) \in 1..(a + b) /\ ~ (i + (a + n) =< a)
            /\ (i + (a + n)) - a = i + n /\ ~ (i =< 0)
        BY <1>2, <3>1, <3>2
      <3> QED
        BY <2>3, <2>4, <3>1, <3>3
    <2> HIDE DEF q
    <2>7. Costs(t, d + 2)
      BY <1>1, <1>6, <2>3, <2>4, <2>5, <2>6, CutCosts DEF s
    <2> QED
      BY <1>5, <2>1, <2>2, <2>7
  <1> QED
    BY <1>8, <1>9

(* A code is a C string as it is.                                              *)
LEMMA CTextOfCode ==
  ASSUME PlainCodes, NEW code \in Codes
  PROVE  CText(code) = code
  <1>1. code \in Bytes /\ Len(code) \in Nat /\ Len(code) =< QrSize - 1 /\ QrSize - 1 \in Nat
    <2>1. \A n \in Lengths : n =< QrSize - 1
      BY DEF Lengths, QrSize
    <2>2. QrSize - 1 \in Nat
      BY DEF QrSize
    <2> QED
      BY <2>1, <2>2, CodeIs
  <1>2. Where(code, {0}) = {}
    <2>1. \A i \in 1..Len(code) : code[i] # 0
      <3>1. \A i \in 1..Len(code) : Printable(code[i])
        BY DEF PlainCodes
      <3>2. ~ Printable(0)
        BY DEF Printable
      <3> QED
        BY <3>1, <3>2
    <2> QED
      BY <1>1, <2>1, BytesProperties DEF Where
  <1>3. CText(code) = Take(code, Min({QrSize - 1, Len(code)}))
    <2>1. {QrSize - 1, Len(code)} \cup {i - 1 : i \in Where(code, {0})} = {QrSize - 1, Len(code)}
      BY <1>2
    <2> QED
      BY <2>1 DEF CText
  <1>4. Min({QrSize - 1, Len(code)}) = Len(code)
    BY <1>1, MinOfTwo
  <1>5. Len(code) \in 0..Len(code)
    BY <1>1
  <1> QED
    BY <1>1, <1>3, <1>4, <1>5, TakeElements, SameBytes

(* A turn of the loop pays for the text it finds.                              *)
LEMMA PaidParse ==
  ASSUME PlainCodes, IInv, PaidInv, Parse
  PROVE  PaidInv'
  <1> DEFINE found == Found(rx)
             d == 2 * lost - wrong
  <1>1. /\ rx' = found.rx /\ UNCHANGED <<uart, lost>>
        /\ wrong' = wrong \/ (wrong =< 2 * MaxLost /\ wrong' = wrong + 1)
        /\ found.text \in Codes \cup {NoText} => wrong' = wrong
    <2> DEFINE qr == CText(found.text)
    <2>1. /\ rx' = found.rx /\ UNCHANGED <<uart, lost>>
          /\ CASE found.text = NoText -> UNCHANGED <<last, lastAge, event, wrong, since>>
               [] found.text # NoText /\ qr = NoText ->
                    event' = NoEvent /\ UNCHANGED <<last, lastAge, wrong, since>>
               [] OTHER -> /\ Handles(qr)
                           /\ since' = IF event'.outcome = "repeated" THEN since ELSE 0
                           /\ wrong' = IF qr \in Codes \/ wrong > 2 * MaxLost THEN wrong ELSE wrong + 1
      BY DEF Parse, Found
    <2> HIDE DEF found
    <2>2. found.text \in Codes => qr \in Codes
      BY CTextOfCode
    <2> HIDE DEF qr
    <2>3. \/ wrong' = wrong
          \/ /\ found.text # NoText
             /\ wrong' = IF qr \in Codes \/ wrong > 2 * MaxLost THEN wrong ELSE wrong + 1
      BY <2>1
    <2>4. wrong \in Nat /\ MaxLost \in Nat
      BY PaidTypes
    <2> QED
      BY <2>1, <2>2, <2>3, <2>4
  <1> HIDE DEF found
  <1>2. wrong' =< 2 * MaxLost + 1
    BY <1>1, PaidTypes DEF PaidInv
  <1>3. SUFFICES ASSUME lost =< MaxLost PROVE Costs(rx' \o uart', 2 * lost' - wrong')
    BY <1>1, <1>2 DEF PaidInv
  <1>4. Costs(rx \o uart, d) /\ d \in Int
    BY <1>3, PaidTypes DEF PaidInv
  <1>5. wrong =< 2 * MaxLost
    <2>1. d >= 0
      BY <1>4, PaidTypes, CostsNothingLess
    <2> QED
      BY <1>3, <2>1, PaidTypes
  <1>6. \/ found.text \in Codes \cup {NoText} /\ Costs(found.rx \o uart, d)
        \/ found.text # NoText /\ Costs(found.rx \o uart, d - 1)
    <2> HIDE DEF d
    <2> QED
      BY <1>4, PaidTypes, TurnCosts DEF found
  <1>7. CASE found.text \in Codes \cup {NoText} /\ Costs(found.rx \o uart, d)
    <2>1. wrong' = wrong
      BY <1>1, <1>7
    <2> QED
      BY <1>1, <1>7, <2>1
  <1>8. CASE found.text # NoText /\ Costs(found.rx \o uart, d - 1)
    <2>1. found.rx \o uart \in Bytes
      <3>1. rx' \in Bytes /\ uart \in Bytes
        <4>1. IInv'
          BY ParseStep
        <4> QED
          BY <4>1, PaidTypes DEF IInv, TypeOK, Bytes
      <3> QED
        BY <1>1, <3>1, JoinedIs
    <2>2. Costs(found.rx \o uart, d)
      <3>1. d - 1 \in Int /\ d - 1 =< d
        BY <1>4
      <3> HIDE DEF d
      <3> QED
        BY <1>4, <1>8, <2>1, <3>1, CostsMore
    <2>3. CASE wrong' = wrong
      BY <1>1, <2>2, <2>3
    <2>4. CASE wrong' = wrong + 1
      <3>1. 2 * lost' - wrong' = d - 1
        BY <1>1, <2>4, PaidTypes
      <3> QED
        BY <1>1, <1>8, <3>1
    <2> QED
      BY <1>1, <2>3, <2>4
  <1> QED
    BY <1>6, <1>7, <1>8

(* A new frame is whole, and a byte lost in the UART is one gap.               *)
LEMMA PaidOutside ==
  ASSUME IInv, PaidInv,
         \/ \E code \in Codes : Scans(code)
         \/ \E i \in DOMAIN uart : LosesByte(i)
         \/ ToggleConnection \/ Tick \/ UNCHANGED vars
  PROVE  PaidInv'
  <1> DEFINE d == 2 * lost - wrong
  <1>0. d \in Int
    BY PaidTypes
  <1>1. ASSUME NEW code \in Codes, Scans(code) PROVE PaidInv'
    <2>1. uart' = uart \o Frame(code) /\ UNCHANGED <<rx, lost, wrong>>
      BY <1>1 DEF Scans
    <2>2. SUFFICES ASSUME lost =< MaxLost PROVE Costs(rx \o uart', d)
      BY <2>1 DEF PaidInv
    <2>3. Costs(rx \o uart, d)
      BY <2>2 DEF PaidInv
    <2> HIDE DEF d
    <2>4. Costs((rx \o uart) \o Frame(code), d)
      BY <1>0, <2>3, PaidTypes, ScanCosts
    <2>5. rx \o (uart \o Frame(code)) = (rx \o uart) \o Frame(code)
      <3>1. rx \in Bytes /\ uart \in Bytes /\ Frame(code) \in Bytes
        BY PaidTypes, FrameType DEF Bytes
      <3> QED
        BY <3>1, JoinedTwice
    <2> QED
      BY <2>1, <2>4, <2>5
  <1>2. ASSUME NEW i \in DOMAIN uart, LosesByte(i) PROVE PaidInv'
    <2>1. /\ uart' = Take(uart, i - 1) \o Drop(uart, i) /\ UNCHANGED <<rx, wrong>>
          /\ lost < MaxLost /\ lost' = lost + 1
      BY <1>2 DEF LosesByte
    <2>2. i \in 1..Len(uart) /\ i \in 0..Len(uart) /\ i - 1 \in 0..i /\ i - 1 \in 0..Len(uart) /\ i - 1 # i
      <3>1. i \in 1..Len(uart) /\ Len(uart) \in Nat
        BY PaidTypes DEF Bytes
      <3> QED
        BY <3>1
    <2>3. Costs(rx \o uart, d) /\ 2 * lost' - wrong' = d + 2
      <3>1. lost =< MaxLost
        BY <2>1, PaidTypes
      <3>2. wrong' = wrong /\ lost \in Nat /\ wrong \in Nat
        BY <2>1, PaidTypes
      <3>3. 2 * lost' - wrong' = d + 2
        BY <2>1, <3>2
      <3> QED
        BY <3>1, <3>3 DEF PaidInv
    <2> HIDE DEF d
    <2>4. Costs((rx \o Take(uart, i - 1)) \o Drop(uart, i), d + 2)
      BY <1>0, <2>2, <2>3, PaidTypes, LossCosts
    <2>5. Take(uart, i - 1) \in Bytes /\ Drop(uart, i) \in Bytes
      BY <2>2, PaidTypes, TakeType, DropType
    <2>6. rx \o (Take(uart, i - 1) \o Drop(uart, i)) = (rx \o Take(uart, i - 1)) \o Drop(uart, i)
      <3>1. rx \in Bytes
        BY PaidTypes
      <3> HIDE DEF d
      <3> QED
        BY <2>5, <3>1, JoinedTwice
    <2> QED
      BY <2>1, <2>3, <2>4, <2>6 DEF PaidInv
  <1>3. CASE ToggleConnection \/ Tick \/ UNCHANGED vars
    <2>1. UNCHANGED <<rx, uart, lost, wrong>>
      BY <1>3 DEF ToggleConnection, Tick, vars
    <2> QED
      BY <2>1 DEF PaidInv
  <1> QED
    BY <1>1, <1>2, <1>3

(* However the reads cut the frames, gm861s_task takes no text that is no code *)
(* but where bytes were lost, and no more than two for each loss: for any      *)
(* codes that can be printed, are not three letters long and end in no blank,  *)
(* a buffer and reads of any size (lines 101-183, 263-270).                    *)
THEOREM WrongTextsArePaidFor ==
  ASSUME PlainCodes
  PROVE  Spec => []WrongOnlyByLoss
  <1>1. Init => PaidInv
    BY PaidInit
  <1>2. IInv /\ PaidInv /\ [Next]_vars => PaidInv'
    BY PaidRead, PaidParse, PaidOutside DEF Next
  <1>3. IInv /\ PaidInv => WrongOnlyByLoss
    <2> SUFFICES ASSUME IInv, PaidInv PROVE wrong =< 2 * lost
      BY DEF WrongOnlyByLoss
    <2>1. CASE lost =< MaxLost
      <3>1. Costs(rx \o uart, 2 * lost - wrong)
        BY <2>1 DEF PaidInv
      <3>2. 2 * lost - wrong >= 0
        BY <3>1, PaidTypes, CostsNothingLess
      <3> QED
        BY <3>2, PaidTypes
    <2>2. CASE lost > MaxLost
      BY <2>2, PaidTypes DEF PaidInv
    <2> QED
      BY <2>1, <2>2, PaidTypes
  <1> QED
    BY <1>1, <1>2, <1>3, Invariance, PTL DEF Spec
=============================================================================
