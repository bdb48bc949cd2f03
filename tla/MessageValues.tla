---------------------------- MODULE MessageValues ----------------------------
(***************************************************************************)
(* What a protobuf message promises: it is a finite map from the fields that *)
(* are present to their values, and a list of the fields it does not know.   *)
(* Nothing else of an object - pointers, has-bits, what it held before it     *)
(* was cleared - can be observed.                                            *)
(***************************************************************************)
EXTENDS Sequences, Functions

CONSTANTS
    Objects,     \* the message objects
    SubFields    \* the fields that are messages themselves

VARIABLES
    value,       \* what each object holds
    sendable     \* can a receiver parse what is sent for that value?

Nothing == [fields |-> <<>>, other |-> <<>>]

Joined(v, w) ==
    [fields |-> [f \in DOMAIN v.fields \union DOMAIN w.fields |->
                   IF f \notin DOMAIN w.fields THEN v.fields[f]
                   ELSE IF f \notin DOMAIN v.fields \/ f \notin SubFields THEN w.fields[f]
                   ELSE [g \in DOMAIN v.fields[f] \union DOMAIN w.fields[f] |->
                           IF g \in DOMAIN w.fields[f] THEN w.fields[f][g]
                           ELSE v.fields[f][g]]],
     other |-> v.other \o w.other]

MVInit == \A x \in Objects : value[x].fields = <<>>

\* An accessor touches one field.
ChangeField(x, f) ==
    /\ value'[x].other = value[x].other
    /\ Restrict(value'[x].fields, DOMAIN value'[x].fields \ {f}) =
         Restrict(value[x].fields, DOMAIN value[x].fields \ {f})

\* release and set_allocated: a field changes hands.  A sub-message that is not
\* present may arrive as an empty one.
MoveField(x, y, f) ==
    /\ ChangeField(x, f) /\ ChangeField(y, f)
    /\ f \notin DOMAIN value'[y].fields
    /\ IF f \in DOMAIN value[y].fields
       THEN f \in DOMAIN value'[x].fields /\ value'[x].fields[f] = value[y].fields[f]
       ELSE f \in DOMAIN value'[x].fields => f \in SubFields /\ value'[x].fields[f] = <<>>

\* A value that cannot be parsed arrives in part.
Part(v, w) ==
    /\ v.other = <<>> /\ DOMAIN v.fields \subseteq DOMAIN w.fields
    /\ \A f \in DOMAIN v.fields : v.fields[f] = w.fields[f]

Others(S) == \A z \in Objects \ S : value'[z] = value[z]

MVNext ==
    \E x, y \in Objects :
        \/ Others({x}) /\ \E f \in DOMAIN value[x].fields \union DOMAIN value'[x].fields :
                              ChangeField(x, f)
        \/ x # y /\ Others({x, y})
              /\ \/ \E f \in DOMAIN value[x].fields \union DOMAIN value'[x].fields :
                        MoveField(x, y, f)
                 \/ value'[x] = value[y] /\ value'[y] = value[x]
        \/ x # y /\ Others({x})
              /\ \/ value'[x] = Nothing
                 \/ value'[x] = value[y]
                 \/ value'[x] = Joined(value[x], value[y])
                 \/ ~sendable[y] /\ Part(value'[x], value[y])

MVSpec == MVInit /\ [][MVNext]_value
=============================================================================
