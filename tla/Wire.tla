-------------------------------- MODULE Wire --------------------------------
(***************************************************************************)
(* The wire format (src/wire.rs) and the walk over a message's arguments   *)
(* (walk_signature, src/lib.rs), in words of four bytes.  What a string or *)
(* an array says is one word, repeated; how long it is, it keeps.          *)
(***************************************************************************)
EXTENDS Integers, SequencesExt

WORD == 4
HEADER_LEN == 2 * WORD
LengthWidth == 65536       \* lengths and opcodes are 16 bits wide

WordsFor(bytes) == (bytes + WORD - 1) \div WORD

-----------------------------------------------------------------------------
\* Typed values, as encode_arguments takes them.
Value(type, word) == [type |-> type, word |-> word, len |-> 0]
Text(word, len) == [type |-> "str", word |-> word, len |-> len]
Array(word, len) == [type |-> "array", word |-> word, len |-> len]

put_str(s) == <<s.len + 1>> \o [i \in 1..WordsFor(s.len + 1) |-> s.word]
put_array(a) == <<a.len>> \o [i \in 1..WordsFor(a.len) |-> a.word]

Encoded(v) ==
  CASE v.type = "str" -> put_str(v)
    [] v.type = "array" -> put_array(v)
    [] v.type = "fd" -> <<>>
    [] OTHER -> <<v.word>>

FdOf(v) == IF v.type = "fd" THEN <<v.word>> ELSE <<>>
Fds(values) == FlattenSeq([i \in DOMAIN values |-> FdOf(values[i])])

\* {} if the values do not match the signature, in number or in type.
encode_arguments(signature, values) ==
  IF [i \in DOMAIN values |-> values[i].type] # signature THEN {}
  ELSE {[ payload |-> FlattenSeq([i \in DOMAIN values |-> Encoded(values[i])]),
          fds |-> Fds(values) ]}

build_message(sender_id, opcode, payload) ==
  LET length == (HEADER_LEN + WORD * Len(payload)) % LengthWidth
  IN <<sender_id, length * LengthWidth + opcode>> \o payload

-----------------------------------------------------------------------------
\* MessageHeader::parse, of a buffer that holds a whole header.
parse(buf) ==
  [ sender_id |-> buf[1],
    opcode |-> buf[2] % LengthWidth,
    length |-> buf[2] \div LengthWidth ]

\* How many words the first message takes, 0 while it is not complete.
take_message(buf) ==
  IF WORD * Len(buf) < HEADER_LEN THEN 0
  ELSE LET len == parse(buf).length
       IN IF len < HEADER_LEN \/ WORD * Len(buf) < len THEN 0 ELSE WordsFor(len)

\* The text at a word offset, {} if there is none.
read_str(payload, at) ==
  IF at >= Len(payload) \/ at + 1 + WordsFor(payload[at + 1]) > Len(payload)
  THEN {} ELSE {payload[at + 2]}

-----------------------------------------------------------------------------
NoOffset == -1
NoName == -1

\* Wrong: the padding is not skipped.
Unpadded(bytes) == bytes \div WORD
\* The words that the walk skips for a text or an array of so many bytes.
Padded(bytes) == WordsFor(bytes)

\* One argument of a walk; ok turns false where the payload is too short.
WalkArgument(payload, walk, type) ==
  LET needs == IF type = "fd" THEN 0
               ELSE IF type \in {"str", "array"} /\ walk.at < Len(payload)
                    THEN 1 + Padded(payload[walk.at + 1]) ELSE 1
      named == type = "str" /\ walk.name = NoName /\ payload[walk.at + 1] > 0
  IN IF ~walk.ok \/ walk.at + needs > Len(payload) THEN [walk EXCEPT !.ok = FALSE]
     ELSE [walk EXCEPT
             !.at = @ + needs,
             !.objects = IF type = "object" THEN Append(@, walk.at) ELSE @,
             !.new_id = IF type = "new_id" THEN walk.at ELSE @,
             !.fd_count = IF type = "fd" THEN @ + 1 ELSE @,
             !.name = IF named THEN payload[walk.at + 2] ELSE @]

walk_signature(payload, signature) ==
  FoldLeft(LAMBDA walk, type : WalkArgument(payload, walk, type),
           [ ok |-> TRUE, at |-> 0, objects |-> <<>>, new_id |-> NoOffset,
             fd_count |-> 0, name |-> NoName ],
           signature)

-----------------------------------------------------------------------------
WordsOf(values, type) ==
  LET those == SelectSeq(values, LAMBDA v : v.type = type)
  IN [i \in DOMAIN those |-> those[i].word]

\* What was encoded from these values is walked back to them, a word less of
\* it is refused, and no part of the message is taken for the whole.
WalkedBack(values) ==
  \A e \in encode_arguments([i \in DOMAIN values |-> values[i].type], values) :
    LET signature == [i \in DOMAIN values |-> values[i].type]
        payload == e.payload
        walk == walk_signature(payload, signature)
        message == build_message(1, 0, payload)
        at(offset) == payload[offset + 1]
    IN /\ walk.ok /\ walk.at = Len(payload)
       /\ [i \in DOMAIN walk.objects |-> at(walk.objects[i])] = WordsOf(values, "object")
       /\ walk.fd_count = Len(e.fds) /\ e.fds = WordsOf(values, "fd")
       /\ walk.new_id # NoOffset <=> "new_id" \in ToSet(signature)
       /\ walk.new_id # NoOffset => IsSuffix(<<at(walk.new_id)>>, WordsOf(values, "new_id"))
       /\ walk.name # NoName => IsPrefix(<<walk.name>>, WordsOf(values, "str"))
       /\ walk.name = NoName <=> "str" \notin ToSet(signature)
       /\ payload # <<>> => ~walk_signature(Front(payload), signature).ok
       /\ take_message(message \o payload) = Len(message)
       /\ \A n \in 0..(Len(message) - 1) : take_message(SubSeq(message, 1, n)) = 0
=============================================================================
