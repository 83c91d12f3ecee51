----------------------------- MODULE UrbService -----------------------------
(***************************************************************************)
(* What a USB/IP server promises the host about the USB requests (URBs) of *)
(* one connection, whatever the device does with them: a request is        *)
(* answered at most once, only after it was submitted on this connection,  *)
(* never after the server confirmed its cancellation, and a request the    *)
(* server reports as already completed is not still waiting.  The server   *)
(* may forget a request when the firmware closes its endpoint, and forgets *)
(* all of them when the connection ends.                                   *)
(*                                                                         *)
(* RustAdapter implements this specification, and LegacyServer does while  *)
(* it has no reports piled up and nothing stale parked.                    *)
(***************************************************************************)
EXTENDS Naturals, Sequences

CONSTANT Seqnums     \* the numbers a host may give its requests

VARIABLES
  up,           \* the host is connected
  used,         \* numbers of the requests submitted on this connection
  outstanding,  \* the submitted requests that are still owed an answer
  replies       \* what was sent back on this connection, in order

urbVars == <<up, used, outstanding, replies>>

Init ==
  /\ up = FALSE
  /\ used = {}
  /\ outstanding = {}
  /\ replies = <<>>

Connect ==
  /\ ~up
  /\ up' = TRUE
  /\ used' = {}
  /\ replies' = <<>>
  /\ UNCHANGED outstanding

Submit(s) ==
  /\ up
  /\ s \notin used
  /\ used' = used \cup {s}
  /\ outstanding' = outstanding \cup {s}
  /\ UNCHANGED <<up, replies>>

\* RET_SUBMIT for a request that is waiting.
Answer(s) ==
  /\ up
  /\ s \in outstanding
  /\ outstanding' = outstanding \ {s}
  /\ replies' = Append(replies, [kind |-> "submit", seq |-> s])
  /\ UNCHANGED <<up, used>>

\* RET_UNLINK: the request is cancelled and will not be answered ...
Cancel(s) ==
  /\ up
  /\ s \in used
  /\ outstanding' = outstanding \ {s}
  /\ replies' = Append(replies, [kind |-> "unlinked", seq |-> s])
  /\ UNCHANGED <<up, used>>

\* ... or there was nothing left to cancel.
NothingToCancel(s) ==
  /\ up
  /\ s \in used \ outstanding
  /\ replies' = Append(replies, [kind |-> "completed", seq |-> s])
  /\ UNCHANGED <<up, used, outstanding>>

\* The endpoint of a waiting request was closed.
Drop(s) ==
  /\ up
  /\ s \in outstanding
  /\ outstanding' = outstanding \ {s}
  /\ UNCHANGED <<up, used, replies>>

Close ==
  /\ up
  /\ up' = FALSE
  /\ outstanding' = {}
  /\ UNCHANGED <<used, replies>>

Next ==
  \/ Connect
  \/ Close
  \/ \E s \in Seqnums : Submit(s) \/ Answer(s) \/ Cancel(s) \/ NothingToCancel(s) \/ Drop(s)

Spec == Init /\ [][Next]_urbVars
-----------------------------------------------------------------------------
(* What the host can rely on, from its replies alone.                      *)

\* An answer is the first thing the host hears of a request: none follows an
\* earlier answer, a confirmed cancellation, or the report that there was nothing
\* left to cancel.
AnswerFirst ==
  \A i, j \in 1..Len(replies) :
    i < j /\ replies[i].seq = replies[j].seq => replies[j].kind # "submit"
=============================================================================
