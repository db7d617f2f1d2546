------------------------------- MODULE DdtLog -------------------------------
(***************************************************************************)
(* What the store promises to a producer and to an assembler: a log.  The  *)
(* producer appends the next record; a commit delivers the next ones, each *)
(* once and in order; whatever was written is delivered in the end.        *)
(* (HandlerInterface: write, read, commit.)                                *)
(***************************************************************************)
EXTENDS Naturals, Sequences

VARIABLES
    written,   \* records 1..written were accepted
    delivered  \* the records delivered, in order

vars == <<written, delivered>>

Init == written = 0 /\ delivered = << >>

Write == written' = written + 1 /\ UNCHANGED delivered

Deliver ==
    /\ \E k \in 1 .. written - Len(delivered) :
          delivered' = delivered \o [i \in 1 .. k |-> Len(delivered) + i]
    /\ UNCHANGED written

Next == Write \/ Deliver

\* A log, and a log that delivers in the end.
SafeSpec == Init /\ [][Next]_vars
Spec     == SafeSpec /\ WF_vars(Deliver)

=============================================================================
