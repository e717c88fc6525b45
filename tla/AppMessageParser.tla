-------------------------- MODULE AppMessageParser --------------------------
(***************************************************************************)
(* AppMessageParser: takes an octet at a time and dispatches a message     *)
(* when it is complete.                                                    *)
(*                                                                         *)
(* A header is two octets here, message type and payload length; a version *)
(* or reserved field that is refused counts as an unknown type.  The types *)
(* are told apart by the rule for their length.  Octets that are no number *)
(* stand for text: as a type they are unknown, as a length too long.       *)
(***************************************************************************)
EXTENDS Naturals, Sequences

CONSTANTS
    IdLength,       \* length of an entity id in ENTITY_ID messages
    MaxLength       \* JDKSAVDECC_APPDU_MAX_PAYLOAD_LENGTH

ASSUME AppAssumption == IdLength \in Nat \ {0} /\ MaxLength \in Nat

\* One type for each rule in validateHeader.
Nop == 0            \* NOP, LINK_UP, LINK_DOWN: no payload
EntityId == 1       \* ENTITY_ID_REQUEST, ENTITY_ID_RESPONSE
Avdecc == 2         \* AVDECC_FROM_APS, AVDECC_FROM_APC, VENDOR

HeaderLength == 2

\* m_header_buffer, m_current_message's payload, m_octets_left_in_payload,
\* m_error_count > 0; out is what the last octet made dispatchMsg hand on.
NewParser == [header |-> <<>>, payload |-> <<>>, left |-> 0, error |-> FALSE, out |-> <<>>]

LengthIsValid(type, length) ==
    \/ type = Nop /\ length = 0
    \/ type = EntityId /\ length = IdLength
    \/ type = Avdecc /\ length \in 0 .. MaxLength

\* Mutant: the header is not cleared behind a message without payload.
ValidateHeader_KeepsHeader(p) ==
    LET type == p.header[1] length == p.header[2] IN
    IF ~LengthIsValid(type, length) THEN [p EXCEPT !.error = TRUE]
    ELSE IF type = Nop THEN [p EXCEPT !.out = <<[type |-> type, payload |-> <<>>]>>]
    ELSE [p EXCEPT !.left = length, !.payload = <<>>]

\* A message of variable length that has none is neither dispatched nor
\* refused: the header stays full and no payload is expected.
ValidateHeader(p) ==
    LET type == p.header[1] length == p.header[2] IN
    IF ~LengthIsValid(type, length) THEN [p EXCEPT !.error = TRUE]
    ELSE IF type = Nop THEN [NewParser EXCEPT !.out = <<[type |-> type, payload |-> <<>>]>>]
    ELSE [p EXCEPT !.left = length, !.payload = <<>>]

ParseHeader(p, octet) ==
    LET q == [p EXCEPT !.header = Append(@, octet)]
    IN  IF Len(q.header) = HeaderLength THEN ValidateHeader(q) ELSE q

ParsePayload(p, octet) ==
    LET payload == Append(p.payload, octet) IN
    IF p.left = 1
    THEN [NewParser EXCEPT !.out = <<[type |-> p.header[1], payload |-> payload]>>]
    ELSE [p EXCEPT !.payload = payload, !.left = @ - 1]

\* After a header it refused, and after the case above, the parser takes no
\* octet any more; clear() is the only way out.
Parse(p, octet) ==
    LET q == [p EXCEPT !.out = <<>>] IN
    IF Len(q.header) < HeaderLength THEN ParseHeader(q, octet)
    ELSE IF q.left > 0 THEN ParsePayload(q, octet)
    ELSE q

\* What a message looks like in the stream.
Encode(message) == <<message.type, Len(message.payload)>> \o message.payload
=============================================================================
