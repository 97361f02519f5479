----------------------------- MODULE LossyQueue -----------------------------
(***************************************************************************)
(* What the DogStatsD server promises its clients, without its tasks,      *)
(* buffers and channel: items are delivered once and in the order they     *)
(* were sent.  An item may be given up when Capacity others are ahead of   *)
(* it, which is counted; items without content are skipped; and a server   *)
(* that was cancelled may forget what it had not delivered.  A server that *)
(* stops by itself forgets nothing it had taken.                           *)
(***************************************************************************)
EXTENDS Naturals, Sequences

CONSTANTS
  Items,     \* what clients may send, each at most once
  Void,      \* the items without content
  Capacity   \* how many items may wait before one is given up

VARIABLES
  unsent,     \* items not sent yet
  pending,    \* items sent and not settled yet, in order
  delivered,  \* items delivered, in order
  overflows,  \* number of items given up
  cancelled,  \* the owner asked the server to stop
  stopped     \* nothing is delivered any more

vars == <<unsent, pending, delivered, overflows, cancelled, stopped>>

Init ==
  /\ unsent = Items
  /\ pending = <<>> /\ delivered = <<>> /\ overflows = 0
  /\ cancelled = FALSE /\ stopped = FALSE

\* s without its i-th element.
Without(s, i) == SubSeq(s, 1, i - 1) \o SubSeq(s, i + 1, Len(s))

Send(x) ==
  /\ x \in unsent
  /\ unsent' = unsent \ {x}
  /\ pending' = Append(pending, x)
  /\ UNCHANGED <<delivered, overflows, cancelled, stopped>>

Deliver ==
  /\ ~stopped /\ pending # <<>>
  /\ delivered' = Append(delivered, Head(pending))
  /\ pending' = Tail(pending)
  /\ UNCHANGED <<unsent, overflows, cancelled, stopped>>

Overflow(i) ==
  /\ ~stopped /\ i > Capacity
  /\ pending' = Without(pending, i)
  /\ overflows' = overflows + 1
  /\ UNCHANGED <<unsent, delivered, cancelled, stopped>>

Skip(i) ==
  /\ pending[i] \in Void
  /\ pending' = Without(pending, i)
  /\ UNCHANGED <<unsent, delivered, overflows, cancelled, stopped>>

Cancel ==
  /\ cancelled' = TRUE
  /\ UNCHANGED <<unsent, pending, delivered, overflows, stopped>>

\* The first n items are forgotten, none unless the server was cancelled.
Stop(n) ==
  /\ ~stopped /\ stopped' = TRUE
  /\ n > 0 => cancelled
  /\ pending' = SubSeq(pending, n + 1, Len(pending))
  /\ UNCHANGED <<unsent, delivered, overflows, cancelled>>

\* What the stopped server takes after that is lost, too.
Forget(i) ==
  /\ stopped /\ cancelled
  /\ pending' = Without(pending, i)
  /\ UNCHANGED <<unsent, delivered, overflows, cancelled, stopped>>

Next ==
  \/ \E x \in Items : Send(x)
  \/ Deliver
  \/ \E i \in 1 .. Len(pending) : Overflow(i) \/ Skip(i) \/ Forget(i)
  \/ Cancel
  \/ \E n \in 0 .. Len(pending) : Stop(n)

Spec == Init /\ [][Next]_vars

=============================================================================
