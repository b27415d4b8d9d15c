--------------------------- MODULE MCEnetChannel ---------------------------
(***************************************************************************)
(* TLC instances of EnetChannel.  The code has 16 windows of 4096 numbers, *)
(* 8 of them free; the instances keep that proportion (RELIABLE_WINDOWS =  *)
(* 2 * FREE_RELIABLE_WINDOWS) and are small enough for the numbers to wrap. *)
(***************************************************************************)
EXTENDS EnetChannel

CONSTANTS
  Base,                    \* packets carried before the first state
  MaxHeld                  \* bound: unacknowledged packets, and copies, among them

\* The packets that can still be unacknowledged once packet Base was sent: the
\* sender enters no window more than W - F windows ahead of one in use.
Holdable ==
  {i \in 1 .. Base :
     Window(Base) =< Window(i) + RELIABLE_WINDOWS - FREE_RELIABLE_WINDOWS}

\* A channel that has carried Base packets, all of them handed out.  The
\* acknowledgements of those in H were lost so far, and the network may still
\* hold some copies (those in S).
Carried(H, S) ==
  /\ submitted = Base
  /\ outgoing = <<>>
  /\ sentReliable = SetToSortSeq(H, <)
  /\ attempted = H
  /\ reliableWindows =
       [w \in Windows |-> Cardinality({i \in H : Window(Wire(i)) = w})]
  /\ usedReliableWindows = {Window(Wire(i)) : i \in H}
  /\ reliableDataInTransit = Cardinality(H)
  /\ sending = FALSE
  /\ dataNet = S
  /\ ackNet = {}
  /\ incomingReliableSequenceNumber = Wire(Base)
  /\ incomingReliable = <<>>
  /\ dispatched = <<>>
  /\ acknowledgements = {}
  /\ delivered = [k \in 1 .. Base |-> k]

MCInit ==
  \E H \in SUBSET Holdable, S \in SUBSET {i \in 1 .. Base : i > Base - Lifetime} :
    /\ Cardinality(H) =< MaxHeld
    /\ Cardinality(S) =< MaxHeld
    /\ Carried(H, S)

MCSpec == MCInit /\ [][Next]_vars

\* The acknowledgement of the first packet was lost while half of the sequence
\* space was carried.  No other packet but a new one can be in flight again, so
\* these two are the only ones that fairness is about.
HeldSpec ==
  Carried({1}, {}) /\ [][NextNoError]_vars /\ FairnessFor({1, Base + 1})
=============================================================================
