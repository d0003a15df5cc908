------------------------------ MODULE AtMostOnceBus ------------------------------
(***************************************************************************)
(* What a websocket manager of market-ingestor makes of the frames that    *)
(* reach its socket, seen from its NATS client: each frame is handed over  *)
(* at most once, in the order of arrival, or it is given up.  Fairness is  *)
(* a promise of its own, kept only while the client takes messages: every  *)
(* frame leaves the queue in the end, the manager may lose messages but it *)
(* does not stop reading.                                                  *)
(***************************************************************************)
EXTENDS Sequences

CONSTANTS
    Frames,         \* what may arrive on the socket
    None            \* nothing was handed over yet

VARIABLES
    queue,          \* the frames that arrived and are not done with
    out             \* the last frame handed to the NATS client

busVars == <<queue, out>>

Init ==
    /\ queue = <<>>
    /\ out = None

Arrive(f) ==
    /\ queue' = Append(queue, f)
    /\ UNCHANGED out

Deliver ==
    /\ queue # <<>>
    /\ queue' = Tail(queue)
    /\ out' = Head(queue)

GiveUp ==
    /\ queue # <<>>
    /\ queue' = Tail(queue)
    /\ UNCHANGED out

(* The socket is closed: what was not read is gone. *)
Drop ==
    /\ queue' = <<>>
    /\ UNCHANGED out

Next ==
    \/ \E f \in Frames : Arrive(f)
    \/ Deliver
    \/ GiveUp
    \/ Drop

Safety == Init /\ [][Next]_busVars

Fairness == WF_busVars(Deliver \/ GiveUp)
================================================================================
