------------------------------ MODULE NatsPublisher ------------------------------
(***************************************************************************)
(* market-ingestor: the publisher of messaging.rs on the path of the       *)
(* websocket read loop that calls it (stream.rs).  publish() connects to   *)
(* NATS on demand, waits out a backoff when that fails, and gives the      *)
(* message up: it never returns an error.  The loop handles one frame at a *)
(* time, so while publish() waits nothing else of the loop runs: no frame  *)
(* is read, no ping answered, no universe looked at.                       *)
(*                                                                         *)
(* The NATS client is external (async-nats): its publish() sends a command *)
(* over a bounded channel to the task that writes to the server, and waits *)
(* without limit while the channel is full.  That task connects again by   *)
(* itself when the server was away and takes no command meanwhile.         *)
(*                                                                         *)
(* main.rs gives each of the two managers a publisher of its own, so a     *)
(* publisher has one caller and its mutex is never contended.  The frames  *)
(* of a socket, the universe and the NATS server are the environment.      *)
(* Abstracted: the contents of messages, the lengths of delays (backoff    *)
(* is the value waited for, in ms) and the connecting of the websocket,    *)
(* which UniverseHotSwap has in detail.                                    *)
(***************************************************************************)
EXTENDS Integers, Sequences

CONSTANTS
    Messages,       \* frames that the handlers publish
    Others,         \* frames they do not: pings, openInterest, unparsable ones
    MinBackoff,     \* 250 ms
    MaxBackoff,     \* 10 s
    ClientCap,      \* capacity of the command channel of a NATS client
    InboxMax,       \* bound of the model: frames waiting in the socket
    None            \* no message

ASSUME BackoffAssumption ==
    /\ MinBackoff \in Nat /\ MaxBackoff \in Nat
    /\ MinBackoff <= MaxBackoff
ASSUME ClientAssumption == ClientCap \in Nat \ {0}
ASSUME FramesAssumption ==
    /\ Messages \intersect Others = {}
    /\ None \notin Messages \union Others

Frames == Messages \union Others

VARIABLES
    up,             \* the NATS server can be reached (environment)
    changed,        \* the universe changed and the manager has not seen it
    inbox,          \* frames that arrived on the socket and were not read
    pc,             \* where the read loop and the publish() it awaits are
    call,           \* the message publish() was called with
    refused,        \* history: a connect or publish failed in this call
    client,         \* inner.client is Some
    queued,         \* how many commands wait in the channel of the client
    backoff,        \* inner.backoff
    slept,          \* the local backoff of ensure_connected, read before it waits
    out             \* history: the last message handed to the NATS client

vars == <<up, changed, inbox, pc, call, refused, client, queued, backoff, slept,
          out>>
env == <<up, changed>>
publisher == <<client, queued, backoff, slept>>

InPublish == {"connecting", "sleeping", "publishing"}

Doubled(b) == IF 2 * b <= MaxBackoff THEN 2 * b ELSE MaxBackoff

Init ==
    /\ up \in BOOLEAN
    /\ changed = FALSE
    /\ inbox = <<>>
    /\ pc = "read"
    /\ call = None
    /\ refused = FALSE
    /\ client = FALSE
    /\ queued = 0
    /\ backoff = MinBackoff
    /\ slept = MinBackoff
    /\ out = None

--------------------------------------------------------------------------------
(* The environment.                                                         *)

NatsUpOrDown ==
    /\ up' = ~up
    /\ UNCHANGED <<changed, inbox, pc, call, refused, publisher, out>>

(* The task of the client writes a command to the server. *)
Drain ==
    /\ client
    /\ up
    /\ queued > 0
    /\ queued' = queued - 1
    /\ UNCHANGED <<env, inbox, pc, call, refused, client, backoff, slept, out>>

Broadcast ==
    /\ ~changed
    /\ changed' = TRUE
    /\ UNCHANGED <<up, inbox, pc, call, refused, publisher, out>>

Arrive(f) ==
    /\ pc # "rejoin"
    /\ Len(inbox) < InboxMax
    /\ inbox' = Append(inbox, f)
    /\ UNCHANGED <<env, pc, call, refused, publisher, out>>

--------------------------------------------------------------------------------
(* The read loop: a select of read.next() and rx.changed().                 *)

(* Mutant: publish() does not look for a client before it publishes. *)
ReadMessage_NoConnect ==
    /\ pc = "read"
    /\ inbox # <<>>
    /\ Head(inbox) \in Messages
    /\ inbox' = Tail(inbox)
    /\ call' = Head(inbox)
    /\ refused' = FALSE
    /\ pc' = "publishing"
    /\ UNCHANGED <<env, publisher, out>>

(* A frame that is published: the handler calls publish() or publish_to(),  *)
(* which calls ensure_connected() if there is no client.                    *)
ReadMessage ==
    /\ pc = "read"
    /\ inbox # <<>>
    /\ Head(inbox) \in Messages
    /\ inbox' = Tail(inbox)
    /\ call' = Head(inbox)
    /\ refused' = FALSE
    /\ IF client THEN pc' = "publishing" /\ UNCHANGED slept
                 ELSE pc' = "connecting" /\ slept' = backoff
    /\ UNCHANGED <<env, client, queued, backoff, out>>

(* A frame that is not: answered, put in the cache, or ignored. *)
ReadOther ==
    /\ pc = "read"
    /\ inbox # <<>>
    /\ Head(inbox) \in Others
    /\ inbox' = Tail(inbox)
    /\ UNCHANGED <<env, pc, call, refused, publisher, out>>

(* rx.changed(): reconnect if the symbols differ, read on if they do not. *)
Changed ==
    /\ pc = "read"
    /\ changed
    /\ changed' = FALSE
    /\ \/ pc' = "rejoin" /\ inbox' = <<>>
       \/ UNCHANGED <<pc, inbox>>
    /\ UNCHANGED <<up, call, refused, publisher, out>>

(* Close frame, read error, end of stream, or a pong that cannot be sent. *)
SocketEnds ==
    /\ pc = "read"
    /\ pc' = "rejoin"
    /\ inbox' = <<>>
    /\ UNCHANGED <<env, call, refused, publisher, out>>

(* The outer loop has connected again, with a fresh look at the universe. *)
Rejoin ==
    /\ pc = "rejoin"
    /\ pc' = "read"
    /\ UNCHANGED <<env, inbox, call, refused, publisher, out>>

--------------------------------------------------------------------------------
(* publish(), publish_to() and ensure_connected().                          *)

(* Mutant: the new client is not kept. *)
ConnectOk_ForgetsClient ==
    /\ pc = "connecting"
    /\ up
    /\ pc' = "publishing"
    /\ backoff' = MinBackoff
    /\ UNCHANGED <<env, inbox, call, refused, client, queued, slept, out>>

ConnectOk ==
    /\ pc = "connecting"
    /\ up
    /\ pc' = "publishing"
    /\ client' = TRUE
    /\ queued' = 0
    /\ backoff' = MinBackoff
    /\ UNCHANGED <<env, inbox, call, refused, slept, out>>

ConnectErr ==
    /\ pc = "connecting"
    /\ ~up
    /\ pc' = "sleeping"
    /\ refused' = TRUE
    /\ UNCHANGED <<env, inbox, call, publisher, out>>

(* Mutant: the doubling has no limit. *)
Wake_NoLimit ==
    /\ pc = "sleeping"
    /\ pc' = "publishing"
    /\ client' = FALSE
    /\ queued' = 0
    /\ backoff' = 2 * slept
    /\ UNCHANGED <<env, inbox, call, refused, slept, out>>

(* Mutant: the call tries to connect until it succeeds. *)
Wake_Retries ==
    /\ pc = "sleeping"
    /\ pc' = "connecting"
    /\ client' = FALSE
    /\ queued' = 0
    /\ backoff' = Doubled(slept)
    /\ slept' = backoff'
    /\ UNCHANGED <<env, inbox, call, refused, out>>

(* The end of sleep(backoff). *)
Wake ==
    /\ pc = "sleeping"
    /\ pc' = "publishing"
    /\ client' = FALSE
    /\ queued' = 0
    /\ backoff' = Doubled(slept)
    /\ UNCHANGED <<env, inbox, call, refused, slept, out>>

(* publish() is inside client.publish() and finds the channel full. *)
Stalled == pc = "publishing" /\ client /\ queued = ClientCap

(* The client takes the message, also for a server that is down.  There is  *)
(* no timeout: while the channel is full the read loop waits in this call.  *)
PublishOk ==
    /\ pc = "publishing"
    /\ client
    /\ queued < ClientCap
    /\ queued' = queued + 1
    /\ pc' = "read"
    /\ call' = None
    /\ out' = call
    /\ backoff' = MinBackoff
    /\ UNCHANGED <<env, inbox, refused, client, slept>>

(* Mutant: a message whose publish failed is queued again. *)
PublishErr_Requeues ==
    /\ pc = "publishing"
    /\ client
    /\ ~up
    /\ pc' = "read"
    /\ call' = None
    /\ inbox' = Append(inbox, call)
    /\ refused' = TRUE
    /\ client' = FALSE
    /\ queued' = 0
    /\ backoff' = Doubled(backoff)
    /\ UNCHANGED <<env, slept, out>>

(* The client reports an error and is dropped: it may do so while the server *)
(* is away, but need not.                                                   *)
PublishErr ==
    /\ pc = "publishing"
    /\ client
    /\ ~up
    /\ pc' = "read"
    /\ call' = None
    /\ refused' = TRUE
    /\ client' = FALSE
    /\ queued' = 0
    /\ backoff' = Doubled(backoff)
    /\ UNCHANGED <<env, inbox, slept, out>>

(* No client after ensure_connected(): the message is given up. *)
PublishNothing ==
    /\ pc = "publishing"
    /\ ~client
    /\ pc' = "read"
    /\ call' = None
    /\ UNCHANGED <<env, inbox, refused, publisher, out>>

--------------------------------------------------------------------------------
ReadLoop == ReadMessage \/ ReadOther \/ Changed \/ SocketEnds \/ Rejoin
Publish == ConnectOk \/ ConnectErr \/ Wake \/ PublishOk \/ PublishNothing

Next ==
    \/ NatsUpOrDown
    \/ Drain
    \/ Broadcast
    \/ \E f \in Frames : Arrive(f)
    \/ ReadLoop
    \/ Publish
    \/ PublishErr

(* The runtime keeps running the task, a connection attempt ends, a sleep   *)
(* ends.  select! chooses among ready branches at random, so a branch that  *)
(* is ready again and again is taken in the end: strong fairness.  A server *)
(* that is up again and again takes a command at some time.  Nothing makes  *)
(* a client report an error, and nothing brings the server up.              *)
Fairness ==
    /\ WF_vars(Publish)
    /\ WF_vars(Rejoin)
    /\ SF_vars(ReadMessage \/ ReadOther)
    /\ SF_vars(Changed)
    /\ SF_vars(Drain)

Spec == Init /\ [][Next]_vars
LiveSpec == Spec /\ Fairness

--------------------------------------------------------------------------------
TypeOK ==
    /\ up \in BOOLEAN /\ changed \in BOOLEAN
    /\ inbox \in Seq(Frames)
    /\ pc \in InPublish \union {"read", "rejoin"}
    /\ call \in Messages \union {None}
    /\ (pc \in InPublish) => (call \in Messages)
    /\ refused \in BOOLEAN /\ client \in BOOLEAN
    /\ queued \in 0..ClientCap
    /\ (~client) => (queued = 0)
    /\ backoff \in MinBackoff..MaxBackoff
    /\ slept \in MinBackoff..MaxBackoff
    /\ out \in Messages \union {None}

(* Best effort (messaging.rs:65-69): a message is given up for want of a    *)
(* client only when NATS refused a connection in the very call it was       *)
(* passed to; an earlier failure never costs a later message its attempt.   *)
GivenUpOnlyIfRefused ==
    (pc = "publishing" /\ ~client) => refused

(* The frame in publish(), then the frames that wait behind it. *)
Pending == IF pc \in InPublish THEN <<call>> \o inbox ELSE inbox

Bus == INSTANCE AtMostOnceBus WITH queue <- Pending

(* The manager and its publisher implement the bus the consumers are        *)
(* modelled against: a frame is handed to the client at most once and in    *)
(* order.                                                                   *)
BusSafety == Bus!Safety

(* And every frame is done with in the end, although NATS may never come up *)
(* (messaging.rs:68: publish() returns, so ingestion is not stopped): all   *)
(* that stops it is a client that connected once and lost its server for    *)
(* good with a full channel.                                                *)
BusFair == []<>(up \/ ~Stalled) => Bus!Fairness

(* A universe update is seen in the end, through all failures and backoffs  *)
(* of publish() in the read loop, with the same exception.                  *)
HotSwapUnlessStalled == []<>(up \/ ~Stalled) => (changed ~> ~changed)

(* Once NATS stays up, and as long as messages keep coming, the publisher   *)
(* is connected for good with its backoff back at the start: every later    *)
(* message is passed on without another connection attempt.                 *)
Recovers ==
    (<>[]up /\ []<>(call # None)) => <>[](client /\ backoff = MinBackoff)
================================================================================
