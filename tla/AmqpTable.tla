------------------------------- MODULE AmqpTable -------------------------------
(***************************************************************************)
(* A field table goes over the wire and is read back by the same library,  *)
(* see AmqpFields.                                                         *)
(***************************************************************************)
EXTENDS AmqpFields

CONSTANT Table  \* the tables that are written

VARIABLES table, wire, read

vars == << table, wire, read >>

Init == table \in Table /\ wire = << >> /\ read = {}

Write == wire = << >> /\ wire' = Serialize(table) /\ UNCHANGED << table, read >>

ReadBack ==
    /\ wire # << >> /\ read = {} /\ read' = Deserialize(wire)
    /\ UNCHANGED << table, wire >>

Next == Write \/ ReadBack

Spec == Init /\ [][Next]_vars

\* A field of a table can be of any type that the library serialises, and what was
\* written is read back: amqp_frame.h says so of TableField.
RoundTrip == read # {} => read = table

=============================================================================
