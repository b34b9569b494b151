------------------------------- MODULE Streams -------------------------------
(***************************************************************************)
(* Open event streams of one inverter and the subscription they share: the *)
(* callbacks of the channel in memory, the commands on the way to Redis,   *)
(* and what Redis is subscribed to.  Redis answers commands in order; a    *)
(* reading that is published reaches the callbacks of the moment, if the   *)
(* channel is subscribed.                                                  *)
(***************************************************************************)
EXTENDS Integers, Sequences, FiniteSets, SequencesExt

CONSTANTS
  Streams,           \* requests to the stream's endpoint
  None,
  MaxOpened          \* bound: requests

VARIABLES
  callbacks,         \* subscriptions.get(channel), or None
  commands,          \* sent to Redis and not yet answered, with who awaits them
  subscribed,        \* Redis has this connection on the channel
  stream,            \* where each request is
  gone,              \* the client has disconnected
  listening,         \* streams to be told of a Redis error
  opened,
  robbed             \* history: streams that awaited Redis when their set was taken away

vars == <<callbacks, commands, subscribed, stream, gone, listening, opened, robbed>>

Init ==
  /\ callbacks = None
  /\ commands = <<>>
  /\ subscribed = FALSE
  /\ stream = [s \in Streams |-> "idle"]
  /\ gone = {} /\ listening = {} /\ robbed = {}
  /\ opened = 0

-----------------------------------------------------------------------------
Open(s) ==
  /\ stream[s] = "idle" /\ opened < MaxOpened
  /\ stream' = [stream EXCEPT ![s] = "opening"]
  /\ opened' = opened + 1
  /\ UNCHANGED <<callbacks, commands, subscribed, gone, listening, robbed>>

\* The latest row is written as the first event; a failed read is only logged.
Snapshot(s) ==
  /\ stream[s] = "opening"
  /\ stream' = [stream EXCEPT ![s] = "subscribing"]
  /\ UNCHANGED <<callbacks, commands, subscribed, gone, listening, opened, robbed>>

\* The rest of streamMetrics once subscribe has returned.  The 'close' of a client
\* that left earlier is not heard any more.
Settle(s) ==
  /\ stream' = [stream EXCEPT ![s] = "open"]
  /\ listening' = listening \cup {s}

\* The first subscriber makes the set and waits for Redis; the others join it.
SubscribeFirst(s) ==
  /\ stream[s] = "subscribing" /\ callbacks = None
  /\ callbacks' = {}
  /\ commands' = Append(commands, [op |-> "subscribe", by |-> s])
  /\ stream' = [stream EXCEPT ![s] = "awaiting"]
  /\ UNCHANGED <<subscribed, gone, listening, opened, robbed>>

SubscribeToo(s) ==
  /\ stream[s] = "subscribing" /\ callbacks # None
  /\ callbacks' = callbacks \cup {s}
  /\ Settle(s)
  /\ UNCHANGED <<commands, subscribed, gone, opened, robbed>>

\* Redis answers.  If the set was taken away meanwhile and nobody made another one,
\* adding to it throws: the request is rejected and its response stays open, mute.
Answer ==
  /\ commands # <<>>
  /\ LET c == Head(commands) s == c.by IN
     /\ commands' = Tail(commands)
     /\ subscribed' = (c.op = "subscribe")
     /\ \/ c.op = "unsubscribe" /\ UNCHANGED <<callbacks, stream, listening, robbed>>
        \/ /\ c.op = "subscribe" /\ callbacks # None
           /\ callbacks' = callbacks \cup {s}
           /\ Settle(s)
           /\ robbed' = robbed \ {s}
        \/ /\ c.op = "subscribe" /\ callbacks = None
           /\ stream' = [stream EXCEPT ![s] = "mute"]
           /\ UNCHANGED <<callbacks, listening, robbed>>
  /\ UNCHANGED <<gone, opened>>

-----------------------------------------------------------------------------
Leave(s) ==
  /\ stream[s] \in {"opening", "subscribing", "awaiting", "mute"}
  /\ s \notin gone
  /\ gone' = gone \cup {s}
  /\ UNCHANGED <<callbacks, commands, subscribed, stream, listening, opened, robbed>>

\* Mutant: the set is kept until Redis has answered.
LeftAfterAnswer(s) == callbacks \ {s}
LeftBy(s) == IF callbacks \ {s} = {} THEN None ELSE callbacks \ {s}

AwaitsRedis(t) == \E n \in 1..Len(commands) : commands[n] = [op |-> "subscribe", by |-> t]

\* The close handler: unsubscribe, which nobody awaits.
Close(s) ==
  /\ stream[s] = "open" /\ s \notin gone
  /\ callbacks' = LeftBy(s)
  /\ commands' = IF callbacks \ {s} = {}
                 THEN Append(commands, [op |-> "unsubscribe", by |-> s]) ELSE commands
  /\ stream' = [stream EXCEPT ![s] = "closed"]
  /\ listening' = listening \ {s}
  /\ robbed' = robbed \cup {t \in Streams : callbacks' = None /\ AwaitsRedis(t)}
  /\ UNCHANGED <<subscribed, gone, opened>>

\* The connection fails.  Each listener is told once and ends its response, whose
\* 'close' follows; ioredis reconnects and subscribes again.
RedisError ==
  /\ listening # {}
  /\ listening' = {}
  /\ UNCHANGED <<callbacks, commands, subscribed, stream, gone, opened, robbed>>

\* An 'error' event that nobody listens to throws: the process ends, and with it
\* every response.
RedisErrorUnheard ==
  /\ listening = {}
  /\ callbacks' = None /\ commands' = <<>> /\ subscribed' = FALSE
  /\ stream' = [s \in Streams |-> IF stream[s] = "idle" THEN "idle" ELSE "closed"]
  /\ robbed' = {}
  /\ UNCHANGED <<gone, listening, opened>>

\* A connection that is over makes room for another.
Forget(s) ==
  /\ stream[s] = "closed"
  /\ stream' = [stream EXCEPT ![s] = "idle"]
  /\ gone' = gone \ {s}
  /\ UNCHANGED <<callbacks, commands, subscribed, listening, opened, robbed>>

Next ==
  \/ Answer
  \/ \E s \in Streams :
       \/ Open(s) \/ Snapshot(s) \/ SubscribeFirst(s) \/ SubscribeToo(s)
       \/ Leave(s) \/ Close(s) \/ Forget(s)
  \/ RedisError \/ RedisErrorUnheard

Spec == Init /\ [][Next]_vars

-----------------------------------------------------------------------------
WillBeSubscribed ==
  IF commands = <<>> THEN subscribed ELSE Last(commands).op = "subscribe"

IsHeard(s) == callbacks # None /\ s \in callbacks /\ WillBeSubscribed

\* A response that is open hears its inverter: its callback is in the set, and when
\* Redis has answered what was sent the channel is subscribed, whoever else joined
\* and left in the meantime.  Only one way leads to a deaf one: the last of the
\* others left while it awaited Redis (metrics-pubsub.service.ts:82).
OpenIsHeard ==
  \A s \in Streams : stream[s] \in {"open", "mute"} => IsHeard(s) \/ s \in robbed
=============================================================================
