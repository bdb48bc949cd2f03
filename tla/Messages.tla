------------------------------ MODULE Messages ------------------------------
(***************************************************************************)
(* What the generated functions do with the tables of MessageClasses:       *)
(* message objects and their wire format.                                   *)
(*                                                                         *)
(* A message object has its has-bits, its members and the unknown fields it  *)
(* was parsed from.  A member of message type is a pointer: <<>> is null,    *)
(* <<m>> points to m, and it may point to a cleared message whose has-bit is *)
(* not set.  The only message used as a member is KexMsg, so one level of    *)
(* nesting is enough; an operator whose name ends in With takes what to do   *)
(* with such a member.                                                       *)
(*                                                                         *)
(* A wire message is a sequence of fields, each a varint or a byte string.   *)
(* Byte strings are records: their length, whether they are UTF-8, and, when *)
(* they parse as a message, its fields.                                      *)
(***************************************************************************)
EXTENDS MessageClasses, Sequences, FiniteSets, SequencesExt

Null == <<>>

-----------------------------------------------------------------------------
(* Byte strings and wire fields. *)

EmptyBytes == [text |-> "", len |-> 0, utf8 |-> TRUE, parses |-> TRUE, sub |-> <<>>]
Text(name, len) == [text |-> name, len |-> len, utf8 |-> TRUE, parses |-> FALSE, sub |-> <<>>]
Binary(name, len) == [Text(name, len) EXCEPT !.utf8 = FALSE]

\* What every byte string has.
IsBytes(b) == DOMAIN b = DOMAIN EmptyBytes /\ b.len \in Nat /\ b.utf8 \in BOOLEAN

Varint(num, n) == [num |-> num, wt |-> "varint", n |-> n, bytes |-> EmptyBytes]
Bytes(num, b) == [num |-> num, wt |-> "len", n |-> 0, bytes |-> b]

IsWire(wire) ==
    wire \in Seq(Range(wire)) /\ \A i \in DOMAIN wire : IsBytes(wire[i].bytes)

VarintSize(n) == IF n < 128 THEN 1 ELSE IF n < 16384 THEN 2 ELSE 3
FieldSize(w) ==
    1 + IF w.wt = "varint" THEN VarintSize(w.n) ELSE VarintSize(w.bytes.len) + w.bytes.len
WireSize(wire) == FoldLeft(LAMBDA n, w : n + FieldSize(w), 0, wire)

\* A serialised message as a byte string.
Embedded(wire) ==
    IF wire = <<>> THEN EmptyBytes
    ELSE [text |-> "message", len |-> WireSize(wire), parses |-> TRUE, sub |-> wire,
          utf8 |-> \A i \in DOMAIN wire : wire[i].bytes.utf8]

-----------------------------------------------------------------------------
(* Objects. *)

Default(type) == CASE type = "int" -> 0
                   [] type \in {"string", "bytes"} -> EmptyBytes
                   [] type = "message" -> Null

Members(C) == DOMAIN Class[C].members
TypeOf(C, f) == Class[C].members[f]

New(C) == [bits |-> {},
           val |-> [f \in Members(C) |-> Default(TypeOf(C, f))],
           unknown |-> <<>>]

Bit(b) == IF b = None THEN {} ELSE {b}
BitOf(C, f) == Class[C].accessors[f]

\* Is the member there, as the functions test it that look at bit b?
Present(C, m, f, b) ==
    IF b = None THEN m.val[f] # Default(TypeOf(C, f)) ELSE b \in m.bits

-----------------------------------------------------------------------------
(* The accessors. *)

has(C, m, f) == Present(C, m, f, BitOf(C, f))
get(C, m, f) ==
    IF TypeOf(C, f) # "message" THEN m.val[f]
    ELSE IF m.val[f] = Null THEN New("KexMsg") ELSE m.val[f][1]

set(C, m, f, v) ==
    [m EXCEPT !.val[f] = v, !.bits = @ \union Bit(BitOf(C, f))]
mutable(C, m, f) == set(C, m, f, IF TypeOf(C, f) = "message" THEN <<get(C, m, f)>>
                                 ELSE m.val[f])

\* p is a pointer, null or to the new value.
set_allocated(C, m, f, p) ==
    IF p = Null
    THEN [m EXCEPT !.val[f] = Default(TypeOf(C, f)), !.bits = @ \ Bit(BitOf(C, f))]
    ELSE set(C, m, f, IF TypeOf(C, f) = "message" THEN p ELSE p[1])

\* What release returns; it leaves what set_allocated(null) leaves.  A message is
\* handed out whatever its has-bit says.
released(C, m, f) ==
    IF TypeOf(C, f) = "message" THEN m.val[f]
    ELSE IF BitOf(C, f) \in m.bits \union {None} THEN <<m.val[f]>> ELSE Null

-----------------------------------------------------------------------------
(* Clear, the copies and the swap. *)

\* A member with a has-bit is reset only while the bit is set; a pointer is kept.
ClearWith(C, m, Sub(_)) ==
    LET reset(f) == Class[C].clear[f] = None \/ Class[C].clear[f] \in m.bits
        cleared(f) == IF TypeOf(C, f) = "message"
                      THEN IF m.val[f] = Null THEN Null ELSE <<Sub(m.val[f][1])>>
                      ELSE Default(TypeOf(C, f))
    IN  [bits |-> {}, unknown |-> <<>>,
         val |-> [f \in Members(C) |-> IF reset(f) THEN cleared(f) ELSE m.val[f]]]

ClearKex(m) == ClearWith("KexMsg", m, LAMBDA s : s)
Clear(C, m) == ClearWith(C, m, ClearKex)

clear_field(C, m, f) ==
    [m EXCEPT !.bits = @ \ Bit(BitOf(C, f)),
              !.val[f] = IF TypeOf(C, f) # "message" THEN Default(TypeOf(C, f))
                         ELSE IF @ = Null THEN Null ELSE <<ClearKex(@[1])>>]

CopyConstruct(C, from) ==
    [from EXCEPT !.val =
        [f \in Members(C) |-> IF Class[C].copied[f] \in from.bits \union {None}
                              THEN from.val[f] ELSE Default(TypeOf(C, f))]]

MergeWith(C, m, from, Sub(_, _)) ==
    LET taken(f) == Present(C, from, f, Class[C].merge[f])
        merged(f) == IF TypeOf(C, f) # "message" THEN from.val[f]
                     ELSE IF m.val[f] = Null THEN from.val[f]
                     ELSE <<Sub(m.val[f][1], from.val[f][1])>>
    IN  [bits |-> m.bits \union from.bits,
         unknown |-> m.unknown \o from.unknown,
         val |-> [f \in Members(C) |-> IF taken(f) THEN merged(f) ELSE m.val[f]]]

MergeKex(m, from) == MergeWith("KexMsg", m, from, LAMBDA s, t : s)
MergeFrom(C, m, from) == MergeWith(C, m, from, MergeKex)
CopyFrom(C, m, from) == MergeFrom(C, Clear(C, m), from)

\* What m holds after InternalSwap(other).
SwappedWith(C, m, other) ==
    [bits |-> other.bits, unknown |-> other.unknown,
     val |-> [f \in Members(C) |-> IF f \in Class[C].swap THEN other.val[f] ELSE m.val[f]]]

-----------------------------------------------------------------------------
(* Serialising. *)

\* The field a row of the table writes: none when the member is not there.
WrittenWith(C, m, row, Sub(_)) ==
    IF ~Present(C, m, row.f, row.bit) THEN <<>>
    ELSE << CASE row.type = "int" -> Varint(row.num, m.val[row.f])
              [] row.type \in {"string", "bytes"} -> Bytes(row.num, m.val[row.f])
              [] row.type = "message" -> Bytes(row.num, Sub(m.val[row.f][1])) >>

SerializeWith(C, m, Sub(_)) ==
    FoldLeft(LAMBDA wire, row : wire \o WrittenWith(C, m, row, Sub), <<>>,
             Class[C].serialize) \o m.unknown

SerializeKex(m) == Embedded(SerializeWith("KexMsg", m, LAMBDA s : EmptyBytes))
Serialize(C, m) == SerializeWith(C, m, SerializeKex)

ByteSizeWith(C, m, Sub(_)) ==
    LET size(row) ==
          IF ~Present(C, m, row.f, row.bit) THEN 0
          ELSE LET body == IF row.type = "message" THEN Sub(m.val[row.f][1])
                           ELSE IF row.type = "int" THEN 0 ELSE m.val[row.f].len
               IN  1 + (IF row.type = "int" THEN VarintSize(m.val[row.f])
                        ELSE VarintSize(body) + body)
    IN  MapThenSumSet(size, Class[C].bytesize) + WireSize(m.unknown)

ByteSizeKex(m) == ByteSizeWith("KexMsg", m, LAMBDA s : 0)
ByteSizeLong(C, m) == ByteSizeWith(C, m, ByteSizeKex)

-----------------------------------------------------------------------------
(* Parsing. *)

WireType(type) == IF type = "int" THEN "varint" ELSE "len"
Row(C, w) == {row \in Class[C].table : row.num = w.num /\ WireType(row.type) = w.wt}

\* One field: an unknown number, or a known one of another wire type, is kept
\* aside; a string must be UTF-8; a message that is there is parsed on top of.
ParseFieldWith(C, m, w, Sub(_, _)) ==
    IF Row(C, w) = {} THEN [ok |-> TRUE, msg |-> [m EXCEPT !.unknown = Append(@, w)]]
    ELSE LET row == CHOOSE row \in Row(C, w) : TRUE
             old == IF m.val[row.f] = Null THEN New("KexMsg") ELSE m.val[row.f][1]
             inner == Sub(old, w.bytes)
             v == CASE row.type = "int" -> w.n
                    [] row.type \in {"string", "bytes"} -> w.bytes
                    [] row.type = "message" -> <<inner.msg>>
         IN  [ok |-> CASE row.type = "string" -> w.bytes.utf8
                       [] row.type = "message" -> inner.ok
                       [] OTHER -> TRUE,
              msg |-> [m EXCEPT !.val[row.f] = v, !.bits = @ \union Bit(row.bit)]]

\* The fields in order, up to and including the first one that is refused.
ParseWith(C, m, wire, Sub(_, _)) ==
    FoldLeft(LAMBDA r, w : IF r.ok THEN ParseFieldWith(C, r.msg, w, Sub) ELSE r,
             [ok |-> TRUE, msg |-> m], wire)

ParseKex(m, bytes) ==
    IF ~bytes.parses THEN [ok |-> FALSE, msg |-> m]
    ELSE ParseWith("KexMsg", m, bytes.sub, LAMBDA s, b : [ok |-> FALSE, msg |-> s])

\* A failed parse leaves in the message what it had read.
ParseFromArray(C, m, wire) ==
    LET r == ParseWith(C, Clear(C, m), wire, ParseKex)
    IN  [r EXCEPT !.ok = @ /\ ~MissingRequiredFields(C, r.msg.bits)]
=============================================================================
