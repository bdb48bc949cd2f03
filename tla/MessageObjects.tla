--------------------------- MODULE MessageObjects ---------------------------
(***************************************************************************)
(* Two objects of one generated class, under every operation of the class,  *)
(* in any order.  The program keeps its request and response objects for a   *)
(* whole session and clears and fills them again for each frame, so what is  *)
(* left in an object from an earlier frame must not show.                    *)
(***************************************************************************)
EXTENDS Messages

CONSTANTS
    Checked,     \* the classes
    Newer,       \* fields that no class knows, sent by a newer peer
    MaxUnknown   \* bound: how many unknown fields an object collects

ASSUME MessageObjectsAssumption ==
    /\ Checked \subseteq ClassNames /\ MaxUnknown \in Nat
    /\ IsBytes(Newer.bytes) /\ \A C \in ClassNames : Row(C, Newer) = {}

VARIABLES
    cls,  \* the class of the objects
    obj   \* the objects

Objs == {"a", "b"}
Other(x) == IF x = "a" THEN "b" ELSE "a"

\* "raw" is no UTF-8: an application may put it into a string all the same.
Values(type) == CASE type = "int" -> {0, 324}
                  [] type = "string" -> {EmptyBytes, Text("hi", 2), Binary("raw", 3)}
                  [] type = "bytes" -> {EmptyBytes, Binary("key", 200)}

Scalars(C) == {f \in Members(C) : TypeOf(C, f) # "message"}
Pointers(C) == Members(C) \ Scalars(C)

MOInit ==
    /\ cls \in Checked
    /\ \E u \in {<<>>, <<Newer>>} :
           obj = [x \in Objs |-> [New(cls) EXCEPT !.unknown = u]]

Becomes(x, m) == obj' = [obj EXCEPT ![x] = m] /\ UNCHANGED cls

setField(x) ==
    \E f \in Scalars(cls) : \E v \in Values(TypeOf(cls, f)) :
        Becomes(x, set(cls, obj[x], f, v))

mutableField(x) == \E f \in Members(cls) : Becomes(x, mutable(cls, obj[x], f))

\* mutable_kex()->set_...
setInside(x) ==
    \E f \in Pointers(cls), g \in Members("KexMsg") :
        \E v \in Values(TypeOf("KexMsg", g)) :
            LET m == mutable(cls, obj[x], f)
            IN  Becomes(x, [m EXCEPT !.val[f] = <<set("KexMsg", @[1], g, v)>>])

clearField(x) == \E f \in Members(cls) : Becomes(x, clear_field(cls, obj[x], f))

\* x.set_allocated_f(y.release_f())
moveField(x) ==
    \E f \in Members(cls) :
        /\ TypeOf(cls, f) # "int"
        /\ obj' = [obj EXCEPT
             ![x] = set_allocated(cls, @, f, released(cls, obj[Other(x)], f)),
             ![Other(x)] = set_allocated(cls, @, f, Null)]
        /\ UNCHANGED cls

clearObject(x) == Becomes(x, Clear(cls, obj[x]))
copyFrom(x) == Becomes(x, CopyFrom(cls, obj[x], obj[Other(x)]))
constructFrom(x) == Becomes(x, CopyConstruct(cls, obj[Other(x)]))

mergeFrom(x) ==
    /\ Len(obj["a"].unknown) + Len(obj["b"].unknown) <= MaxUnknown
    /\ Becomes(x, MergeFrom(cls, obj[x], obj[Other(x)]))

swap ==
    /\ obj' = [x \in Objs |-> SwappedWith(cls, obj[x], obj[Other(x)])]
    /\ UNCHANGED cls

\* The other object is serialised, sent, and parsed into x.
transmit(x) == Becomes(x, ParseFromArray(cls, obj[x], Serialize(cls, obj[Other(x)])).msg)

MONext ==
    \/ \E x \in Objs :
          \/ setField(x) \/ mutableField(x) \/ setInside(x) \/ clearField(x) \/ moveField(x)
          \/ clearObject(x) \/ copyFrom(x) \/ constructFrom(x) \/ mergeFrom(x) \/ transmit(x)
    \/ swap

MOSpec == MOInit /\ [][MONext]_<<cls, obj>>

-----------------------------------------------------------------------------
(* Properties. *)

\* What an object that has f may be observed to hold.
Fields(C, m) == {f \in Members(C) : has(C, m, f)}
ValueOf(m) ==
    [fields |-> [f \in Fields(cls, m) |->
                   IF TypeOf(cls, f) # "message" THEN m.val[f]
                   ELSE LET s == get(cls, m, f)
                        IN  [g \in Fields("KexMsg", s) |-> s.val[g]]],
     other |-> m.unknown]

AllStringsValid(v) == \A f \in DOMAIN v.fields : TypeOf(cls, f) = "string" => v.fields[f].utf8

Abstract == INSTANCE MessageValues WITH
    Objects <- Objs, SubFields <- {"kex"},
    value <- [x \in Objs |-> ValueOf(obj[x])],
    sendable <- [x \in Objs |-> AllStringsValid(ValueOf(obj[x]))]

\* The generated classes implement maps from fields to values: no operation lets
\* through what an object held before, and what is serialised arrives unless one of
\* its strings is not UTF-8.
ImplementsValues == Abstract!MVSpec

\* A member whose has-bit is not set holds its default, and the pointer of a
\* sub-message that is present is not null (has_kex assumes it): Clear resets only
\* members whose bit is set, and parsing goes on top of what is there.
RetainedIsEmpty ==
    \A x \in Objs : \A f \in Members(cls) :
        LET m == obj[x]
        IN  IF BitOf(cls, f) \in m.bits
            THEN TypeOf(cls, f) = "message" => m.val[f] # Null
            ELSE BitOf(cls, f) # None =>
                   IF TypeOf(cls, f) = "message"
                   THEN m.val[f] \in {Null, <<New("KexMsg")>>}
                   ELSE m.val[f] = Default(TypeOf(cls, f))

\* MessageCoder::encode allocates ByteSizeLong bytes and lets the message write
\* into them: the size is that of what is written, to the byte.
SizeIsExact ==
    \A x \in Objs : ByteSizeLong(cls, obj[x]) = WireSize(Serialize(cls, obj[x]))
=============================================================================
