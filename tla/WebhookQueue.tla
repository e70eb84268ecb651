---------------------------- MODULE WebhookQueue ----------------------------
(***************************************************************************)
(* How the deliveries of Jira's webhook wait for a worker.  On each plugin *)
(* server, httpSubscribeWebhook puts the body of a request into a buffered *)
(* channel and answers at once; the workers OnActivate started take bodies *)
(* from the channel and process them.  Channel and workers live in the     *)
(* memory of the plugin process: a panic in a worker, a restart or a crash *)
(* loses what they hold.  What processing does is WebhookDelivery's, with  *)
(* which this module is proved about: its names begin with Queue where     *)
(* those of the two would be the same.                                     *)
(***************************************************************************)
EXTENDS Naturals, Sequences

CONSTANTS
    Delivery,       \* the requests Jira sends
    Server,         \* the plugin servers
    Worker,         \* the workers of each (WebhookMaxProcsPerServer)
    Hanging,        \* those whose call of Jira may never return
    BufferSize,     \* capacity of a channel (WebhookBufferSize)
    NoDelivery      \* what an idle worker works on

ASSUME QueueAssumption ==
    /\ NoDelivery \notin Delivery
    /\ Hanging \subseteq Worker
    /\ BufferSize \in Nat \ {0}

VARIABLES
    up,         \* the servers whose plugin is active
    reply,      \* what Jira heard about each request
    fate,       \* what became of it
    queue,      \* each server's webhookQueue
    working,    \* the request each worker processes
    accepted,   \* the requests queued on a server since its activation, in order
    started     \* those its workers have taken, in order

queueVars == <<up, reply, fate, queue, working, accepted, started>>

Reply == {"none", "pending", "ok", "forbidden", "error", "broken"}
Fate  == {"none", "accepted", "processed", "failed", "lost"}

QueueTypeOK ==
    /\ up \in SUBSET Server
    /\ reply \in [Delivery -> Reply]
    /\ fate \in [Delivery -> Fate]
    /\ queue \in [Server -> Seq(Delivery)]
    /\ working \in [Server -> [Worker -> Delivery \cup {NoDelivery}]]
    /\ accepted \in [Server -> Seq(Delivery)]
    /\ started \in [Server -> Seq(Delivery)]

Idle == [w \in Worker |-> NoDelivery]

QueueInit ==
    /\ up = Server
    /\ reply = [d \in Delivery |-> "none"]
    /\ fate = [d \in Delivery |-> "none"]
    /\ queue = [s \in Server |-> <<>>]
    /\ working = [s \in Server |-> Idle]
    /\ accepted = [s \in Server |-> <<>>]
    /\ started = [s \in Server |-> <<>>]

-----------------------------------------------------------------------------
(* httpSubscribeWebhook                                                    *)

\* The secret is not configured or does not match, or the body cannot be read.
Refuse(d) ==
    /\ up # {}
    /\ reply[d] = "none"
    /\ \E code \in {"forbidden", "error"} : reply' = [reply EXCEPT ![d] = code]
    /\ UNCHANGED <<up, fate, queue, working, accepted, started>>

\* There is space in the channel.
Enqueue(s, d) ==
    /\ s \in up
    /\ reply[d] = "none"
    /\ Len(queue[s]) < BufferSize
    /\ queue' = [queue EXCEPT ![s] = Append(@, d)]
    /\ accepted' = [accepted EXCEPT ![s] = Append(@, d)]
    /\ fate' = [fate EXCEPT ![d] = "accepted"]
    /\ reply' = [reply EXCEPT ![d] = "pending"]
    /\ UNCHANGED <<up, working, started>>

\* There is none: respondErr calls Error of the nil error it is given, the
\* handler panics before a status is written, withRecovery recovers, and the
\* HTTP server sends the status of a handler that wrote none, 200.
QueueFull(s, d) ==
    /\ s \in up
    /\ reply[d] = "none"
    /\ Len(queue[s]) = BufferSize
    /\ reply' = [reply EXCEPT ![d] = "ok"]
    /\ UNCHANGED <<up, fate, queue, working, accepted, started>>

\* The answer to a request that was queued reaches Jira, or the connection
\* breaks first (the server went down after it queued the request).
Answer(d) ==
    /\ reply[d] = "pending"
    /\ \E a \in {"ok", "broken"} : reply' = [reply EXCEPT ![d] = a]
    /\ UNCHANGED <<up, fate, queue, working, accepted, started>>

-----------------------------------------------------------------------------
(* The workers                                                             *)

\* Mutant: the newest request first.
TakeLast(s, w) ==
    /\ s \in up
    /\ working[s][w] = NoDelivery
    /\ queue[s] # <<>>
    /\ working' = [working EXCEPT ![s][w] = queue[s][Len(queue[s])]]
    /\ started' = [started EXCEPT ![s] = Append(@, queue[s][Len(queue[s])])]
    /\ queue' = [queue EXCEPT ![s] = SubSeq(@, 1, Len(@) - 1)]
    /\ UNCHANGED <<up, reply, fate, accepted>>

\* Mutant: the request is read and stays in the channel.
TakeCopy(s, w) ==
    /\ s \in up
    /\ working[s][w] = NoDelivery
    /\ queue[s] # <<>>
    /\ working' = [working EXCEPT ![s][w] = Head(queue[s])]
    /\ started' = [started EXCEPT ![s] = Append(@, Head(queue[s]))]
    /\ UNCHANGED <<up, reply, fate, queue, accepted>>

\* The range loop of work receives from the channel.
TakeRequest(s, w) ==
    /\ s \in up
    /\ working[s][w] = NoDelivery
    /\ queue[s] # <<>>
    /\ working' = [working EXCEPT ![s][w] = Head(queue[s])]
    /\ started' = [started EXCEPT ![s] = Append(@, Head(queue[s]))]
    /\ queue' = [queue EXCEPT ![s] = Tail(@)]
    /\ UNCHANGED <<up, reply, fate, accepted>>

\* Mutant: an error ends the worker; it never takes another request.
FinishOrQuit(s, w) ==
    /\ s \in up
    /\ working[s][w] # NoDelivery
    /\ \/ /\ fate[working[s][w]] = "accepted"
          /\ fate' = [fate EXCEPT ![working[s][w]] = "failed"]
          /\ UNCHANGED working
       \/ /\ fate[working[s][w]] = "accepted"
          /\ fate' = [fate EXCEPT ![working[s][w]] = "processed"]
          /\ working' = [working EXCEPT ![s][w] = NoDelivery]
    /\ UNCHANGED <<up, reply, queue, accepted, started>>

\* process returns; an error is logged, and the loop goes on.
FinishRequest(s, w) ==
    /\ s \in up
    /\ working[s][w] # NoDelivery
    /\ \E f \in {"processed", "failed"} :
          fate' = [fate EXCEPT ![working[s][w]] = f]
    /\ working' = [working EXCEPT ![s][w] = NoDelivery]
    /\ UNCHANGED <<up, reply, queue, accepted, started>>

-----------------------------------------------------------------------------
(* The plugin process                                                      *)

Holds(s, d) ==
    \/ \E i \in DOMAIN queue[s] : queue[s][i] = d
    \/ \E w \in Worker : working[s][w] = d

\* The process ends with everything in its memory.
Down(s) ==
    /\ up' = up \ {s}
    /\ fate' = [d \in Delivery |-> IF Holds(s, d) THEN "lost" ELSE fate[d]]
    /\ queue' = [queue EXCEPT ![s] = <<>>]
    /\ working' = [working EXCEPT ![s] = Idle]
    /\ accepted' = [accepted EXCEPT ![s] = <<>>]
    /\ started' = [started EXCEPT ![s] = <<>>]
    /\ UNCHANGED reply

\* work recovers no panic of process: one ends the whole plugin.
Panic(s, w) == s \in up /\ working[s][w] # NoDelivery /\ Down(s)

\* Disabled, upgraded, or its server goes down.
Stop(s) == s \in up /\ Down(s)

\* OnActivate makes a new channel and starts the workers.
Activate(s) ==
    /\ s \notin up
    /\ up' = up \cup {s}
    /\ UNCHANGED <<reply, fate, queue, working, accepted, started>>

-----------------------------------------------------------------------------
QueueNext ==
    \/ \E d \in Delivery : Refuse(d) \/ Answer(d)
    \/ \E s \in Server, d \in Delivery : Enqueue(s, d) \/ QueueFull(s, d)
    \/ \E s \in Server, w \in Worker : TakeRequest(s, w) \/ FinishRequest(s, w) \/ Panic(s, w)
    \/ \E s \in Server : Stop(s) \/ Activate(s)

QueueSpec == QueueInit /\ [][QueueNext]_queueVars

\* The scheduler keeps an idle worker receiving, and a worker whose calls of
\* Jira return keeps processing.  The calls have no timeout: those of the
\* Hanging workers may never return.
QueueFairSpec ==
    /\ QueueSpec
    /\ \A s \in Server :
          /\ \A w \in Worker : WF_queueVars(TakeRequest(s, w))
          /\ \A w \in Worker \ Hanging : WF_queueVars(FinishRequest(s, w))

-----------------------------------------------------------------------------
(* An accepted request is in one place, one time: a queue or a worker of   *)
(* one server; one that was refused, has been processed or lost is in      *)
(* none.  Nothing is processed twice, nothing disappears while its server  *)
(* is up.                                                                  *)
QueueDistinct ==
    \A s1, s2 \in Server : \A i \in DOMAIN queue[s1], j \in DOMAIN queue[s2] :
        queue[s1][i] = queue[s2][j] => s1 = s2 /\ i = j
WorkDistinct ==
    \A s1, s2 \in Server, w1, w2 \in Worker :
        working[s1][w1] = working[s2][w2] /\ working[s1][w1] # NoDelivery
            => s1 = s2 /\ w1 = w2
QueueApartFromWork ==
    \A s1, s2 \in Server, w \in Worker : \A i \in DOMAIN queue[s1] :
        queue[s1][i] # working[s2][w]
HeldIsAccepted ==
    \A d \in Delivery : (\E s \in Server : Holds(s, d)) <=> fate[d] = "accepted"
InOnePlace == QueueDistinct /\ WorkDistinct /\ QueueApartFromWork /\ HeldIsAccepted

\* What the proof of InOnePlace needs besides: the channel never holds more
\* than fits, a server that is down holds nothing, and a request that was
\* not queued yet has no fate yet.
QueueInv ==
    /\ QueueTypeOK
    /\ InOnePlace
    /\ \A s \in Server : Len(queue[s]) <= BufferSize
    /\ \A s \in Server \ up : queue[s] = <<>> /\ working[s] = Idle
    /\ \A d \in Delivery : reply[d] \in {"none", "forbidden", "error"} => fate[d] = "none"

(* The workers of a server start the requests in the order it accepted     *)
(* them (they may well finish in another).                                 *)
StartedInOrder == \A s \in Server : accepted[s] = started[s] \o queue[s]

(* httpSubscribeWebhook: "If the queue is full, return a 503; we will not  *)
(* process that webhook event."  A request answered with 200 is or was in  *)
(* the queue.                                                              *)
OkMeansAccepted == \A d \in Delivery : reply[d] = "ok" => fate[d] # "none"

(* The fate of a request is final: what was processed, failed or lost is   *)
(* not started again, and only what is accepted gets one of these.         *)
FateIsFinal ==
    [][\A d \in Delivery :
          /\ fate[d] \in {"processed", "failed", "lost"} => fate'[d] = fate[d]
          /\ fate[d] = "none" => fate'[d] \in {"none", "accepted"}]_queueVars

(* Liveness: as long as one worker of each server does not hang, every     *)
(* request in a queue is taken by a worker or lost with its server.        *)
EveryAcceptedStarts ==
    \A s \in Server, d \in Delivery :
        (\E i \in DOMAIN queue[s] : queue[s][i] = d)
            ~> ~(\E i \in DOMAIN queue[s] : queue[s][i] = d)
=============================================================================
