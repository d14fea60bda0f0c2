------------------------------ MODULE JsonText ------------------------------
(***************************************************************************)
(* The text side of cJSON: what a text is parsed to and how an item is     *)
(* printed.  A text is a sequence of symbols; a name of the protocol, a    *)
(* literal, a number and the uXXXX of an escape are one symbol each, whose *)
(* bytes are counted.  The value of a string is a C string, that ends at   *)
(* the first NUL.  Memory does not run out here; JsonItems has that.       *)
(***************************************************************************)
EXTENDS Integers, Sequences, SequencesExt, FiniteSetsExt

CONSTANTS
  NestingLimit,  \* CJSON_NESTING_LIMIT
  DefaultSize    \* default_buffer_size of print

ASSUME JsonTextAssumption == NestingLimit \in Nat /\ DefaultSize \in Nat

Quote == "\""
Backslash == "\\"
Whites == {" ", "LF", "SOH", "NUL"}   \* every byte up to 32 that a text here has
Literals == {"null", "false", "true"}
INT_MAX == 2147483647
Numbers == {"0", "1", "2", "7", "1e99", ToString(INT_MAX)}
BOM == "bom"   \* the three bytes of the byte order mark

(* What uXXXX stands for; four characters that are no digits stand for NUL.    *)
Unicode == [u0000 |-> "NUL", uZZZZ |-> "NUL", u0001 |-> "SOH", u0041 |-> "A"]
HighSurrogate == "uD83D"
LowSurrogate == "uDE00"
Astral == "astral"   \* the four bytes of the pair
Part == "part"       \* some of the bytes of a symbol

(* Bytes of a text; names are taken to be one byte long.                       *)
FourBytes == {"null", "true", Astral}
FiveBytes == DOMAIN Unicode \cup {HighSurrogate, LowSurrogate, "false", "1e99"}
TenBytes == {ToString(INT_MAX)}
Count(s, S) == Cardinality({k \in DOMAIN s : s[k] \in S})
Bytes(s) ==
  Len(s) + 2 * Count(s, {BOM}) + 3 * Count(s, FourBytes) + 4 * Count(s, FiveBytes)
    + 9 * Count(s, TenBytes)

(* The first n bytes: what strncpy, snprintf and memcpy leave of a long text.  *)
Cut(s, n) ==
  LET k == Max({j \in 0..Min({Len(s), n}) : Bytes(SubSeq(s, 1, j)) =< n})
      cut == SubSeq(s, 1, k)
  IN CASE Bytes(s) =< n -> s
       [] Bytes(s) > n /\ Bytes(cut) < n -> Append(cut, Part)
       [] OTHER -> cut

CString(s) == SubSeq(s, 1, Min({k \in DOMAIN s : s[k] = "NUL"} \cup {Len(s) + 1}) - 1)

-----------------------------------------------------------------------------
(* Items: object, array, string, number or literal.                            *)
Item(type, text, kids) == [type |-> type, text |-> text, key |-> << >>, kids |-> kids]
NoItem == Item("none", << >>, << >>)
Named(key, item) == [item EXCEPT !.key = key]

(* A parser returns the item and where it ended.                               *)
Result(item, at) == [item |-> item, at |-> at]
Failure == Result(NoItem, 0)

At(s, i, c) == i =< Len(s) /\ s[i] = c

(* buffer_skip_whitespace: white to the end, it steps back to the last one.    *)
skip(s, i) ==
  IF i > Len(s) THEN i ELSE Min({j \in i..Len(s) : s[j] \notin Whites} \cup {Len(s)})

(* The quote that closes a string, past what a backslash escapes; 0 if none.   *)
RECURSIVE Closing(_, _)
Closing(s, i) ==
  CASE i > Len(s) -> 0
    [] At(s, i, Quote) -> i
    [] At(s, i, Backslash) -> Closing(s, i + 2)
    [] OTHER -> Closing(s, i + 1)

(* The decoded characters, with Failure's mark where an escape is wrong: an    *)
(* unknown one, or half of a surrogate pair.                                   *)
Wrong == "wrong"
Escape(c) == IF c = "n" THEN "LF" ELSE c   \* n stands for b, f, n, r and t
RECURSIVE Decoded(_, _, _)
Decoded(s, i, end) ==
  IF i >= end THEN << >>
  ELSE CASE s[i] # Backslash -> <<s[i]>> \o Decoded(s, i + 1, end)
         [] s[i] = Backslash /\ s[i + 1] \in {"n", "/", Quote, Backslash} ->
              <<Escape(s[i + 1])>> \o Decoded(s, i + 2, end)
         [] s[i] = Backslash /\ s[i + 1] \in DOMAIN Unicode ->
              <<Unicode[s[i + 1]]>> \o Decoded(s, i + 2, end)
         [] s[i] = Backslash /\ s[i + 1] = HighSurrogate /\ i + 3 < end
              /\ s[i + 2] = Backslash /\ s[i + 3] = LowSurrogate ->
              <<Astral>> \o Decoded(s, i + 4, end)
         [] OTHER -> <<Wrong>>

parse_string(s, i) ==
  LET end == Closing(s, i + 1)
      text == Decoded(s, i + 1, end)
  IN IF ~At(s, i, Quote) \/ end = 0 \/ Contains(text, Wrong) THEN Failure
     ELSE Result(Item("string", CString(text), << >>), end + 1)

(* strtod of the longest run of digits and signs: one symbol here.             *)
parse_number(s, i) == Result(Item("number", <<s[i]>>, << >>), i + 1)

RECURSIVE parse_value(_, _, _)

(* The name of a member, the colon and the value.                              *)
Member(s, i, depth) ==
  LET name == parse_string(s, i)
      colon == skip(s, name.at)
      value == parse_value(s, skip(s, colon + 1), depth)
  IN IF name = Failure \/ ~At(s, colon, ":") \/ value = Failure THEN Failure
     ELSE Result(Named(name.item.text, value.item), value.at)

Element(s, i, depth, close) ==
  IF close = "}" THEN Member(s, i, depth) ELSE parse_value(s, i, depth)

(* Mutation: what is still open at the end of the text is taken as closed. *)
RECURSIVE ElementsOpenEnd(_, _, _, _, _)
ElementsOpenEnd(s, i, depth, close, kids) ==
  LET one == Element(s, i, depth, close)
      after == skip(s, one.at)
      all == Append(kids, one.item)
  IN CASE one = Failure -> Failure
       [] one # Failure /\ At(s, after, ",") -> ElementsOpenEnd(s, skip(s, after + 1), depth, close, all)
       [] one # Failure /\ (after >= Len(s) \/ At(s, after, close)) ->
            Result(Item(IF close = "}" THEN "object" ELSE "array", << >>, all), after + 1)
       [] OTHER -> Failure

(* Elements parted by commas, up to the closing bracket.                       *)
RECURSIVE Elements(_, _, _, _, _)
Elements(s, i, depth, close, kids) ==
  LET one == Element(s, i, depth, close)
      after == skip(s, one.at)
      all == Append(kids, one.item)
  IN CASE one = Failure -> Failure
       [] one # Failure /\ At(s, after, ",") -> Elements(s, skip(s, after + 1), depth, close, all)
       [] one # Failure /\ At(s, after, close) ->
            Result(Item(IF close = "}" THEN "object" ELSE "array", << >>, all), after + 1)
       [] OTHER -> Failure

Enclosed(s, i, depth, close) ==
  LET first == skip(s, i + 1) IN
  CASE depth >= NestingLimit -> Failure
    [] depth < NestingLimit /\ At(s, first, close) ->
         Result(Item(IF close = "}" THEN "object" ELSE "array", << >>, << >>), first + 1)
    [] OTHER -> Elements(s, first, depth + 1, close, << >>)

parse_array(s, i, depth) == Enclosed(s, i, depth, "]")
parse_object(s, i, depth) == Enclosed(s, i, depth, "}")

parse_value(s, i, depth) ==
  CASE i > Len(s) -> Failure
    [] i =< Len(s) /\ s[i] \in Literals -> Result(Item(s[i], << >>, << >>), i + 1)
    [] At(s, i, Quote) -> parse_string(s, i)
    [] i =< Len(s) /\ s[i] \in Numbers -> parse_number(s, i)
    [] At(s, i, "[") -> parse_array(s, i, depth)
    [] At(s, i, "{") -> parse_object(s, i, depth)
    [] OTHER -> Failure

(* Where a text begins behind a byte order mark, if two more bytes follow it.  *)
skip_utf8_bom(s) == IF At(s, 1, BOM) /\ Bytes(s) > 4 THEN 2 ELSE 1

(* The whole need not be used up: what follows the value is not looked at.     *)
cJSON_ParseWithLength(s) == parse_value(s, skip(s, skip_utf8_bom(s)), 0).item
cJSON_Parse(s) == cJSON_ParseWithLength(Append(CString(s), "NUL"))

-----------------------------------------------------------------------------
(* Access.  Names are compared without case; the first one counts.             *)
Lower(c) == IF c = "ACTION" THEN "action" ELSE c

cJSON_GetObjectItem(item, name) ==
  LET hits == {k \in DOMAIN item.kids :
                 /\ item.type = "object"
                 /\ [j \in DOMAIN item.kids[k].key |-> Lower(item.kids[k].key[j])] = <<name>>}
  IN IF hits = {} THEN NoItem ELSE item.kids[Min(hits)]

IsString(item) == item.type = "string"
IsBool(item) == item.type \in {"true", "false"}
valueint(item) ==
  CASE item.text \in {<<"1e99">>, <<ToString(INT_MAX)>>} -> INT_MAX
    [] \E n \in 1..9 : item.text = <<ToString(n)>> -> CHOOSE n \in 1..9 : item.text = <<ToString(n)>>
    [] OTHER -> 0

-----------------------------------------------------------------------------
(* Printing: the text so far and its bytes, the size of the buffer, and        *)
(* whether a write has gone beyond it or ensure found the offset there.        *)

(* ensure: room for the bytes needed and one more.                             *)
ensure(p, needed) ==
  LET total == needed + p.offset + 1 IN
  [p EXCEPT !.size = IF total =< p.size THEN p.size ELSE 2 * total,
            !.over = p.over \/ p.offset >= p.size]

(* What is written behind what ensure made room for, and zeros 0s behind it.   *)
Emit(p, needed, text, zeros) ==
  LET q == ensure(p, needed)
      offset == p.offset + Bytes(text)
  IN [q EXCEPT !.out = p.out \o text, !.offset = offset, !.over = q.over \/ offset + zeros > q.size]

Escaped(c) ==
  CASE c \in {Quote, Backslash} -> <<Backslash, c>>
    [] c = "LF" -> <<Backslash, "n">>
    [] c = "SOH" -> <<Backslash, "u0001">>
    [] OTHER -> <<c>>

(* Mutation: a control character is counted as a one-letter escape. *)
ExtraOne(text) == Count(text, {Quote, Backslash, "LF", "SOH"})

(* escape_characters: what escaping adds.                                      *)
Extra(text) == Count(text, {Quote, Backslash, "LF"}) + 5 * Count(text, {"SOH"})

(* Mutation: the text is copied as it is. *)
print_string_raw(p, text) == Emit(p, Bytes(text) + 3, <<Quote>> \o text \o <<Quote>>, 1)

print_string_ptr(p, text) ==
  Emit(p, Bytes(text) + Extra(text) + 3,
       <<Quote>> \o FlattenSeq([k \in DOMAIN text |-> Escaped(text[k])]) \o <<Quote>>, 1)

RECURSIVE print_value(_, _)

(* Members from the kth on, with what parts them.                              *)
RECURSIVE print_array(_, _, _)
print_array(p, kids, k) ==
  IF k > Len(kids) THEN Emit(p, 2, <<"]">>, 1)
  ELSE LET one == print_value(p, kids[k])
       IN print_array(IF k < Len(kids) THEN Emit(one, 2, <<",">>, 1) ELSE one, kids, k + 1)

RECURSIVE print_object(_, _, _)
print_object(p, kids, k) ==
  IF k > Len(kids) THEN Emit(p, 2, <<"}">>, 1)
  ELSE LET name == Emit(print_string_ptr(p, kids[k].key), 1, <<":">>, 0)
           one == print_value(name, kids[k])
       IN print_object(IF k < Len(kids) THEN Emit(one, 2, <<",">>, 1) ELSE Emit(one, 1, << >>, 1),
                       kids, k + 1)

print_value(p, item) ==
  CASE item.type \in Literals -> Emit(p, Bytes(<<item.type>>) + 1, <<item.type>>, 1)
    [] item.type = "number" -> Emit(p, Bytes(item.text) + 1, item.text, 1)
    [] item.type = "string" -> print_string_ptr(p, item.text)
    [] item.type = "array" -> print_array(Emit(p, 1, <<"[">>, 0), item.kids, 1)
    [] item.type = "object" -> print_object(Emit(p, 2, <<"{">>, 0), item.kids, 1)

print(item) == print_value([out |-> << >>, offset |-> 0, size |-> DefaultSize, over |-> FALSE], item)
cJSON_PrintUnformatted(item) == print(item).out
=============================================================================
