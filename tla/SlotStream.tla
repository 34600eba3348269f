----------------------------- MODULE SlotStream -----------------------------
(***************************************************************************)
(* What a ring of slots between a socket and a GNU Radio stream promises:  *)
(* a queue of at most Capacity frames, each accepted whole at one end and  *)
(* read from the other in order, possibly a piece at a time.  A restart of *)
(* the block forgets what is queued.  UplinkSource implements it.          *)
(***************************************************************************)
EXTENDS Naturals, Sequences

CONSTANTS
  Capacity,   \* frames the queue may hold
  Frames      \* the frames that may be accepted: non-empty sequences

VARIABLES
  queue,      \* accepted frames, the first one without what was read of it
  out         \* what has been read since the last restart

StreamInit == queue = <<>> /\ out = <<>>

Accept(f) ==
  /\ Len(queue) < Capacity
  /\ queue' = Append(queue, f)
  /\ UNCHANGED out

Deliver(n) ==
  LET head == Head(queue) IN
  /\ queue # <<>> /\ n <= Len(head)
  /\ out' = out \o SubSeq(head, 1, n)
  /\ queue' = IF n = Len(head) THEN Tail(queue)
              ELSE <<SubSeq(head, n + 1, Len(head))>> \o Tail(queue)

Restart == queue' = <<>> /\ out' = <<>>

StreamNext ==
  \/ \E f \in Frames : Accept(f)
  \/ queue # <<>> /\ \E n \in 1 .. Len(Head(queue)) : Deliver(n)
  \/ Restart

StreamSpec == StreamInit /\ [][StreamNext]_<<queue, out>>

=============================================================================
