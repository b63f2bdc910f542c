----------------------------- MODULE RespParser -----------------------------
(***************************************************************************)
(* The RESP protocol of one connection (protocol/resp_parser.cpp,          *)
(* resp_serializer.cpp): bytes arrive in chunks of any size, are appended  *)
(* to the client's input buffer, and every complete value at its beginning *)
(* is taken out and executed (Server::processClientInput).                 *)
(*                                                                         *)
(* A byte is a string: the markers, the digits, "SP" for blank and tab,    *)
(* "CR", "LF", the two quotes, anything else for itself.  A blocked or     *)
(* closing client, which drops what was parsed, is the matter of the       *)
(* modules Blocking and Connections.                                       *)
(***************************************************************************)
EXTENDS Integers, Sequences, SequencesExt

CONSTANTS
  ReadSize,       \* READ_BUFFER_SIZE
  MaxInput,       \* MAX_INPUT_BUFFER
  Conversations   \* what peers send: values they mean, or NoValues, and the bytes

CONSTANT NoValues

ASSUME SizesAssumption == ReadSize \in Nat \ {0} /\ MaxInput \in Nat

VARIABLES
  peer,          \* the conversation of this connection
  taken,         \* how many of its bytes were read
  inputBuffer,   \* inputBuffer_
  commands,      \* the values executed so far
  open

vars == <<peer, taken, inputBuffer, commands, open>>

Digits == <<"0", "1", "2", "3", "4", "5", "6", "7", "8", "9">>
Quotes == {"QUOTE", "APOS"}

-----------------------------------------------------------------------------
(* Values and their encoding.                                              *)

Simple(t)  == [type |-> "simple", text |-> t]
Err(t)     == [type |-> "error", text |-> t]
Integer(n) == [type |-> "integer", n |-> n]
Bulk(t)    == [type |-> "bulk", text |-> t]
Array(s)   == [type |-> "array", elements |-> s]
Null       == [type |-> "null"]

CRLF == <<"CR", "LF">>

\* std::to_string.
RECURSIVE Decimal(_)
Decimal(n) ==
  IF n < 0 THEN <<"-">> \o Decimal(-n)
  ELSE IF n < 10 THEN <<Digits[n + 1]>>
  ELSE Decimal(n \div 10) \o <<Digits[(n % 10) + 1]>>

\* Faulty: a bulk string ends at its last byte.
RECURSIVE serializeOpen(_)
serializeOpen(v) ==
  CASE v.type = "simple"  -> <<"+">> \o v.text \o CRLF
    [] v.type = "error"   -> <<"-">> \o v.text \o CRLF
    [] v.type = "integer" -> <<":">> \o Decimal(v.n) \o CRLF
    [] v.type = "bulk"    -> <<"$">> \o Decimal(Len(v.text)) \o CRLF \o v.text
    [] v.type = "array"   -> <<"*">> \o Decimal(Len(v.elements)) \o CRLF
                             \o FlattenSeq([i \in DOMAIN v.elements |-> serializeOpen(v.elements[i])])
    [] v.type = "null"    -> <<"$">> \o Decimal(-1) \o CRLF

RECURSIVE serialize(_)
serialize(v) ==
  CASE v.type = "simple"  -> <<"+">> \o v.text \o CRLF
    [] v.type = "error"   -> <<"-">> \o v.text \o CRLF
    [] v.type = "integer" -> <<":">> \o Decimal(v.n) \o CRLF
    [] v.type = "bulk"    -> <<"$">> \o Decimal(Len(v.text)) \o CRLF \o v.text \o CRLF
    [] v.type = "array"   -> <<"*">> \o Decimal(Len(v.elements)) \o CRLF
                             \o FlattenSeq([i \in DOMAIN v.elements |-> serialize(v.elements[i])])
    [] v.type = "null"    -> <<"$">> \o Decimal(-1) \o CRLF

-----------------------------------------------------------------------------
(* The parser.  A result holds a value and the position after it; Nothing  *)
(* is std::nullopt, for a value that is incomplete and for one that is     *)
(* malformed alike.                                                        *)

Nothing == [ok |-> FALSE]
Parsed(v, pos) == [ok |-> TRUE, value |-> v, pos |-> pos]

\* readLine: up to the first CR LF.
readLine(b, pos) ==
  LET ends == {i \in pos .. Len(b) - 1 : b[i] = "CR" /\ b[i + 1] = "LF"}
  IN  IF ends = {} THEN Nothing ELSE Parsed(SubSeq(b, pos, Min(ends) - 1), Min(ends) + 2)

\* The first position from i on whose byte is in S, or past the end.
FirstOf(b, i, S) == Min({j \in i .. Len(b) : b[j] \in S} \cup {Len(b) + 1})

\* from_chars and, where it fails, stoll: blanks, a sign and digits, whatever follows them.
Number(line) ==
  LET begin == Min({j \in 1 .. Len(line) : line[j] # "SP"} \cup {Len(line) + 1})
      sign  == begin <= Len(line) /\ line[begin] \in {"+", "-"}
      first == IF sign THEN begin + 1 ELSE begin
      stop  == Min({j \in first .. Len(line) : line[j] \notin ToSet(Digits)} \cup {Len(line) + 1})
      abs   == FoldLeft(LAMBDA n, d : 10 * n + (CHOOSE i \in 1 .. 10 : Digits[i] = d) - 1,
                        0, SubSeq(line, first, stop - 1))
  IN  IF stop = first THEN Nothing
      ELSE [ok |-> TRUE, value |-> IF sign /\ line[begin] = "-" THEN -abs ELSE abs]

\* The number on the line after the marker at pos.
Header(b, pos) ==
  LET line == readLine(b, pos + 1)
  IN  IF line.ok /\ Number(line.value).ok
      THEN Parsed(Number(line.value).value, line.pos) ELSE Nothing

\* The words of an inline command: blanks separate them, quotes hold them together.
RECURSIVE Words(_)
Words(c) ==
  LET i == Min({j \in 1 .. Len(c) : c[j] # "SP"} \cup {Len(c) + 1})
  IN  IF i > Len(c) THEN <<>>
      ELSE LET quoted == c[i] \in Quotes
               start  == IF quoted THEN i + 1 ELSE i
               stop   == FirstOf(c, start, IF quoted THEN {c[i]} ELSE {"SP"})
           IN  <<Bulk(SubSeq(c, start, stop - 1))>>
               \o Words(SubSeq(c, IF quoted THEN stop + 1 ELSE stop, Len(c)))

parseInline(b, pos) ==
  LET line == readLine(b, pos)
  IN  IF line.ok THEN Parsed(Array(Words(line.value)), line.pos) ELSE Nothing

parseSimpleString(b, pos) ==
  LET line == readLine(b, pos + 1)
  IN  IF line.ok THEN Parsed(Simple(line.value), line.pos) ELSE Nothing

parseError(b, pos) ==
  LET line == readLine(b, pos + 1)
  IN  IF line.ok THEN Parsed(Err(line.value), line.pos) ELSE Nothing

parseInteger(b, pos) ==
  LET n == Header(b, pos)
  IN  IF n.ok THEN Parsed(Integer(n.value), n.pos) ELSE Nothing

parseBulkString(b, pos) ==
  LET n == Header(b, pos)
  IN  IF ~n.ok THEN Nothing
      ELSE IF n.value = -1 THEN Parsed(Null, n.pos)
      ELSE IF n.value < 0 \/ n.pos + n.value + 1 > Len(b) THEN Nothing
      ELSE LET end == n.pos + n.value
           IN  IF b[end] = "CR" /\ b[end + 1] = "LF"
               THEN Parsed(Bulk(SubSeq(b, n.pos, end - 1)), end + 2) ELSE Nothing

RECURSIVE parseValue(_, _), parseElements(_, _, _, _)

parseArray(b, pos) ==
  LET n == Header(b, pos)
  IN  IF ~n.ok THEN Nothing
      ELSE IF n.value = -1 THEN Parsed(Null, n.pos)
      ELSE IF n.value < 0 THEN Nothing
      ELSE parseElements(b, n.pos, n.value, <<>>)

\* The loop of parseArray.
parseElements(b, pos, n, elements) ==
  IF n = 0 THEN Parsed(Array(elements), pos)
  ELSE LET e == parseValue(b, pos)
       IN  IF e.ok THEN parseElements(b, e.pos, n - 1, Append(elements, e.value)) ELSE Nothing

parseValue(b, pos) ==
  IF pos > Len(b) THEN Nothing
  ELSE CASE b[pos] = "+" -> parseSimpleString(b, pos)
         [] b[pos] = "-" -> parseError(b, pos)
         [] b[pos] = ":" -> parseInteger(b, pos)
         [] b[pos] = "$" -> parseBulkString(b, pos)
         [] b[pos] = "*" -> parseArray(b, pos)
         [] OTHER        -> parseInline(b, pos)

\* parse: the values at the beginning of the buffer, and the bytes they take.
RECURSIVE parseFrom(_, _, _)
parseFrom(b, pos, values) ==
  LET v == parseValue(b, pos)
  IN  IF v.ok THEN parseFrom(b, v.pos, Append(values, v.value))
      ELSE [commands |-> values, bytesConsumed |-> pos - 1]

parse(b) == parseFrom(b, 1, <<>>)

-----------------------------------------------------------------------------
(* The connection.                                                         *)

\* Faulty: the whole buffer is dropped once something was parsed.
consumeInputAll(b, n) == IF n > 0 THEN <<>> ELSE b

consumeInput(b, n) == IF n >= Len(b) THEN <<>> ELSE SubSeq(b, n + 1, Len(b))

\* readFromSocket and processClientInput for n bytes: a buffer over its limit closes the
\* connection, before its input is looked at.
Receive(n) ==
  LET b == inputBuffer \o SubSeq(peer.bytes, taken + 1, taken + n)
      result == parse(b)
  IN  /\ open
      /\ taken' = taken + n
      /\ \/ /\ Len(b) > MaxInput
            /\ open' = FALSE /\ inputBuffer' = <<>>
            /\ UNCHANGED commands
         \/ /\ Len(b) <= MaxInput
            /\ inputBuffer' = consumeInput(b, result.bytesConsumed)
            /\ commands' = commands \o result.commands
            /\ UNCHANGED open
      /\ UNCHANGED peer

Init ==
  /\ peer \in Conversations
  /\ taken = 0 /\ inputBuffer = <<>> /\ commands = <<>> /\ open = TRUE

Next == \E n \in 1 .. ReadSize : n <= Len(peer.bytes) - taken /\ Receive(n)

Spec == Init /\ [][Next]_vars

-----------------------------------------------------------------------------
(* Properties.                                                             *)

\* How the bytes are cut into chunks does not matter: what was executed and what waits in the
\* buffer is what one parse of everything read so far gives.
ChunksDoNotMatter ==
  LET read == SubSeq(peer.bytes, 1, taken)
      whole == parse(read)
  IN  /\ IsPrefix(commands, whole.commands)
      /\ open => /\ commands = whole.commands
                 /\ inputBuffer = SubSeq(read, whole.bytesConsumed + 1, Len(read))

\* What serialize writes, parse reads back, whatever bytes a bulk string holds: a peer that
\* sends values has exactly these executed, each once its last byte is there.
ValuesComeThrough ==
  peer.values # NoValues =>
    /\ IsPrefix(commands, peer.values)
    /\ open /\ taken = Len(peer.bytes) => commands = peer.values /\ inputBuffer = <<>>
=============================================================================
