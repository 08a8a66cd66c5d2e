--------------------------- MODULE MessageStream ---------------------------
(***************************************************************************)
(* What the network layer promises the packet handlers: the messages of    *)
(* the current connection, whole, each once and in the order in which the  *)
(* server sent them.  Losing the connection loses messages only at the     *)
(* end, and a new connection starts with none.                             *)
(***************************************************************************)
EXTENDS Naturals, Sequences

CONSTANTS Messages, NoMessage

VARIABLES
    queue,   \* sent on this connection and not handed to a handler yet
    last,    \* handed to a handler last
    open     \* the server can still send

vars == <<queue, last, open>>

Init == queue = <<>> /\ last = NoMessage /\ open = FALSE

Open == ~open /\ open' = TRUE /\ queue' = <<>> /\ UNCHANGED last

Send ==
    /\ open
    /\ \E m \in Messages : queue' = Append(queue, m)
    /\ UNCHANGED <<last, open>>

Deliver ==
    /\ queue # <<>>
    /\ last' = Head(queue) /\ queue' = Tail(queue)
    /\ UNCHANGED open

\* The end of a connection, or what was under way being discarded after it.
Close ==
    /\ open' = FALSE
    /\ \E n \in 0..Len(queue) : queue' = SubSeq(queue, 1, n)
    /\ UNCHANGED last

Next == Open \/ Send \/ Deliver \/ Close

Spec == Init /\ [][Next]_vars

=============================================================================
