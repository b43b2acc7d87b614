------------------------------ MODULE EventBus ------------------------------
(***************************************************************************)
(* The agent's event bus and the event streams that read from it.  Every   *)
(* GET /events subscribes with a buffered channel of its own and forwards  *)
(* what arrives; when its client is gone it unsubscribes, which closes the *)
(* channel.  Publish copies the subscribers under the lock and sends to    *)
(* the copies after releasing it, one by one and without waiting.          *)
(*                                                                         *)
(* Bus.Close is called by tests only and is left out.                      *)
(***************************************************************************)
EXTENDS Naturals, Sequences

CONSTANTS
  Stream,      \* connections to /events; each is used once
  Publisher,   \* goroutines that publish
  Client,      \* among them: handlers of API calls that can be active at once
  Buffer       \* capacity of a subscriber's channel (128 in the code)

ASSUME BusAssumption == Buffer \in Nat \ {0} /\ Client \subseteq Publisher

VARIABLES
  stream,      \* each stream: "off", "open" or "closed"
  channel,     \* what is in its channel
  sending,     \* what each publisher has yet to send, and to whom
  panicked     \* a send has met a closed channel

bus == <<stream, channel, sending, panicked>>

InitBus ==
  /\ stream = [s \in Stream |-> "off"]
  /\ channel = [s \in Stream |-> <<>>]
  /\ sending = [p \in Publisher |-> {}]
  /\ panicked = FALSE

Subscribers == {s \in Stream : stream[s] = "open"}

\* An event whose contents no property looks at.
Notice == <<0, 0>>

Silent(p) == sending[p] = {}

\* Publish, up to the release of the lock: the event and the copied subscribers.
Publish(p, event) ==
  /\ sending' = [sending EXCEPT ![p] = {event} \X Subscribers]
  /\ UNCHANGED <<stream, channel, panicked>>

\* Bug variant: the send waits for room in the channel.
Accepts_Waiting(s, event) ==
  /\ Len(channel[s]) < Buffer
  /\ channel' = [channel EXCEPT ![s] = Append(@, event)]

\* Bug variant: the channel takes whatever comes.
Accepts_Unbounded(s, event) == channel' = [channel EXCEPT ![s] = Append(@, event)]

\* The event is dropped when the channel is full.
Accepts(s, event) ==
  IF Len(channel[s]) < Buffer THEN channel' = [channel EXCEPT ![s] = Append(@, event)]
                              ELSE UNCHANGED channel

Send(p) ==
  \E item \in sending[p] :
    /\ stream[item[2]] = "open"
    /\ Accepts(item[2], item[1])
    /\ sending' = [sending EXCEPT ![p] = @ \ {item}]
    /\ UNCHANGED <<stream, panicked>>

\* A send on a channel that was closed after the copy was made.
MeetsClosed(p) ==
  /\ \E item \in sending[p] : stream[item[2]] = "closed"
  /\ panicked' = TRUE

Subscribe(s) ==
  /\ stream[s] = "off"
  /\ stream' = [stream EXCEPT ![s] = "open"]
  /\ UNCHANGED <<channel, sending, panicked>>

\* The stream's loop takes the next event and writes it to its client.
Deliver(s) ==
  /\ stream[s] = "open" /\ channel[s] # <<>>
  /\ channel' = [channel EXCEPT ![s] = Tail(@)]
  /\ UNCHANGED <<stream, sending, panicked>>

\* The client is gone: the deferred unsubscribe.
Unsubscribe(s) ==
  /\ stream[s] = "open"
  /\ stream' = [stream EXCEPT ![s] = "closed"]
  /\ channel' = [channel EXCEPT ![s] = <<>>]
  /\ UNCHANGED <<sending, panicked>>
=============================================================================
