-------------------------------- MODULE Feed --------------------------------
(***************************************************************************)
(* What the hub promises each client about its outbound stream, without    *)
(* queues, goroutines or locks: while the connection is up messages are    *)
(* offered to it and delivered in the order they were offered; once it is  *)
(* closing nothing more is offered but what is pending may still arrive;   *)
(* once it is cut nothing arrives any more.  A client's stream is thus     *)
(* always a prefix of what was offered: no loss in the middle, no          *)
(* duplicate and no reordering.                                            *)
(***************************************************************************)
EXTENDS Sequences

CONSTANTS Conn, Msg

VARIABLES status, pending, delivered

feedVars == <<status, pending, delivered>>

Init ==
    /\ status = [c \in Conn |-> "up"]
    /\ pending = [c \in Conn |-> <<>>]
    /\ delivered = [c \in Conn |-> <<>>]

\* Some message m joins the end (m is read off pending', so that Msg may be an
\* infinite set when TLC checks a step against this action).
Offer(c) ==
    /\ status[c] = "up"
    /\ pending'[c] # <<>>
    /\ LET m == pending'[c][Len(pending'[c])]
       IN  m \in Msg /\ pending' = [pending EXCEPT ![c] = Append(@, m)]
    /\ UNCHANGED <<status, delivered>>

Deliver(c) ==
    /\ status[c] # "cut"
    /\ pending[c] # <<>>
    /\ delivered' = [delivered EXCEPT ![c] = Append(@, Head(pending[c]))]
    /\ pending' = [pending EXCEPT ![c] = Tail(@)]
    /\ UNCHANGED status

Close(c) ==
    /\ status[c] = "up"
    /\ status' = [status EXCEPT ![c] = "closing"]
    /\ UNCHANGED <<pending, delivered>>

\* The writer is gone: by a failed write, or with everything delivered.
Cut(c) ==
    /\ status[c] # "cut"
    /\ status' = [status EXCEPT ![c] = "cut"]
    /\ pending' = [pending EXCEPT ![c] = <<>>]
    /\ UNCHANGED delivered

Next == \E c \in Conn : Offer(c) \/ Deliver(c) \/ Close(c) \/ Cut(c)

Spec == Init /\ [][Next]_feedVars
=============================================================================
