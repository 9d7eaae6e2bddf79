------------------------------ MODULE BoundedFifo ------------------------------
(***************************************************************************)
(* What WORK_QUEUE promises its callers, without locks or condition        *)
(* variables: a first-in first-out buffer of bounded size that can be      *)
(* closed.  A submission is answered in one step: "accepted" puts the item *)
(* at the back, "refused" changes nothing and is only given while the      *)
(* buffer is full or closed.  Once closed, nothing goes in or comes out.   *)
(***************************************************************************)
EXTENDS Naturals, Sequences

CONSTANTS
  Submitter,  \* threads that put items in
  Taker,      \* threads that take items out
  Item,       \* what is stored
  NoItem,     \* held by a taker that has nothing
  Capacity,   \* length from which a submission may be refused
  Bound       \* length the buffer never exceeds

VARIABLES
  items,      \* the buffer, oldest first
  open,       \* FALSE once closed
  answer,     \* the last answer given to each submitter
  held        \* the item each taker is working on

fifoVars == <<items, open, answer, held>>

Init ==
  /\ items = <<>>
  /\ open = TRUE
  /\ answer = [s \in Submitter |-> "none"]
  /\ held = [k \in Taker |-> NoItem]

Accept(s, x) ==
  /\ open
  /\ Len(items) < Bound
  /\ items' = Append(items, x)
  /\ answer' = [answer EXCEPT ![s] = "accepted"]
  /\ UNCHANGED <<open, held>>

Refuse(s) ==
  /\ Len(items) >= Capacity \/ ~open
  /\ answer' = [answer EXCEPT ![s] = "refused"]
  /\ UNCHANGED <<items, open, held>>

Take(k) ==
  /\ open
  /\ held[k] = NoItem
  /\ items # <<>>
  /\ held' = [held EXCEPT ![k] = Head(items)]
  /\ items' = Tail(items)
  /\ UNCHANGED <<open, answer>>

Finish(k) ==
  /\ held' = [held EXCEPT ![k] = NoItem]
  /\ UNCHANGED <<items, open, answer>>

Drain ==
  /\ items' = <<>>
  /\ UNCHANGED <<open, answer, held>>

Close ==
  /\ open' = FALSE
  /\ UNCHANGED <<items, answer, held>>

Next ==
  \/ \E s \in Submitter : Refuse(s) \/ \E x \in Item : Accept(s, x)
  \/ \E k \in Taker : Take(k) \/ Finish(k)
  \/ Drain
  \/ Close

Spec == Init /\ [][Next]_fifoVars
================================================================================
