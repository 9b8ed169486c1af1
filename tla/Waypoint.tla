------------------------------ MODULE Waypoint ------------------------------
(***************************************************************************)
(* One server-sent-events request of the waypoint service: wait for the    *)
(* first event of a wallet and topic that carries the wanted field, and    *)
(* send it.  Three coroutines take part: the generator in process_events   *)
(* (waypoint/services/nats_service.py), which pulls batches of events from *)
(* a JetStream subscription and resubscribes when the heartbeat fails; the *)
(* consumer (waypoint/routers/sse.py), which looks at one event at a time; *)
(* and the web framework, which cancels both when the client leaves.       *)
(*                                                                         *)
(* JetStream is external.  A subscription delivers the stream in order     *)
(* from its start time, position 1; an event that was sent but not         *)
(* received is delivered again later, out of order.                        *)
(***************************************************************************)
EXTENDS Integers, Sequences

CONSTANTS
  BatchSize,     \* events per fetch
  MaxTimeouts,   \* missed heartbeats until the generator resubscribes
  Duration,      \* seconds the generator runs, SSE_TIMEOUT
  MaxEvents,     \* bound: events published
  MaxClock       \* bound: seconds that pass

ASSUME WaypointBounds ==
  /\ BatchSize \in Nat \ {0}
  /\ MaxTimeouts \in Nat \ {0}
  /\ Duration \in Nat \ {0}
  /\ MaxEvents \in Nat
  /\ MaxClock \in Nat /\ MaxClock > Duration

VARIABLES
  stream,     \* the events published so far: does each carry the wanted field?
  pc,         \* where the generator and its consumer stand
  open,       \* how many subscriptions are open
  live,       \* does the generator's variable refer to an open one?
  cursor,     \* the next position its subscription sends
  lost,       \* positions sent but not received, to be sent again
  batch,      \* positions fetched and not yet acknowledged
  timeouts,   \* num_timeout_errors
  clock,      \* seconds since the request arrived
  end,        \* end_time of the generator
  lag,        \* seconds since the generator last looked at the clock
  stop,       \* stop_event
  gone,       \* has the client left?
  answer,     \* the position of the event sent to the client, or 0
  outcome     \* why the request ended, "none" while it runs

subscription == <<open, live, cursor, lost>>
time == <<clock, end, lag>>
vars == <<stream, pc, open, live, cursor, lost, batch, timeouts,
          clock, end, lag, stop, gone, answer, outcome>>

Steps == {"subscribing", "loop", "fetching", "deliver", "ack", "answering",
          "resubscribing", "abandoned", "ended"}

TypeOK ==
  /\ stream   \in Seq(BOOLEAN) /\ Len(stream) <= MaxEvents
  /\ pc       \in Steps
  /\ open     \in Nat
  /\ live     \in BOOLEAN
  /\ cursor   \in 1 .. Len(stream) + 1
  /\ lost     \in SUBSET (1 .. Len(stream))
  /\ batch    \in Seq(1 .. Len(stream)) /\ Len(batch) <= BatchSize
  /\ timeouts \in 0 .. MaxTimeouts
  /\ clock    \in 0 .. MaxClock
  /\ end      \in 0 .. MaxClock
  /\ lag      \in Nat
  /\ stop     \in BOOLEAN
  /\ gone     \in BOOLEAN
  /\ answer   \in 0 .. Len(stream)
  /\ outcome  \in {"none", "found", "timeout", "gone", "error"}

Init ==
  /\ stream = <<>>
  /\ pc = "subscribing"
  /\ open = 0 /\ live = FALSE /\ cursor = 1 /\ lost = {}
  /\ batch = <<>>
  /\ timeouts = 0
  /\ clock = 0 /\ end = 0 /\ lag = 0
  /\ stop = FALSE /\ gone = FALSE
  /\ answer = 0 /\ outcome = "none"

-----------------------------------------------------------------------------
(* The surroundings.                                                       *)

Publish ==
  /\ Len(stream) < MaxEvents
  /\ \E matches \in BOOLEAN : stream' = Append(stream, matches)
  /\ UNCHANGED <<pc, subscription, batch, timeouts, time, stop, gone, answer, outcome>>

\* A second passes. Only a subscription that NATS does not accept, and a client
\* that does not take its event, can hold the generator up for longer than that.
Tick ==
  /\ clock < MaxClock
  /\ pc # "subscribing" \/ clock + Duration < MaxClock
  /\ pc \in {"subscribing", "resubscribing", "answering", "ended"} \/ lag = 0
  /\ clock' = clock + 1
  /\ lag' = IF pc \in {"loop", "fetching", "deliver", "ack"} THEN lag + 1 ELSE lag
  /\ UNCHANGED <<stream, pc, subscription, batch, timeouts, end, stop, gone, answer, outcome>>

ClientLeaves ==
  /\ ~gone /\ pc # "ended"
  /\ gone' = TRUE
  /\ UNCHANGED <<stream, pc, subscription, batch, timeouts, time, stop, answer, outcome>>

\* check_disconnect
CheckDisconnect ==
  /\ gone /\ ~stop /\ pc # "ended"
  /\ stop' = TRUE
  /\ UNCHANGED <<stream, pc, subscription, batch, timeouts, time, gone, answer, outcome>>

-----------------------------------------------------------------------------
(* The generator.                                                          *)

\* A new subscription: everything since the start time is sent once more.
Subscribed ==
  /\ open' = open + 1 /\ live' = TRUE
  /\ cursor' = 1 /\ lost' = {}

\* Unsubscribing what is closed already raises BadSubscriptionError, which is caught.
Unsubscribed ==
  /\ open' = IF live THEN open - 1 ELSE open
  /\ live' = FALSE
  /\ UNCHANGED <<cursor, lost>>

\* The finally clause; the request is over.
Close(why) ==
  /\ Unsubscribed
  /\ pc' = "ended"
  /\ outcome' = IF outcome = "none" THEN why ELSE outcome
  /\ batch' = <<>>

Subscribe ==
  /\ pc = "subscribing"
  /\ Subscribed
  /\ end' = clock + Duration
  /\ pc' = "loop"
  /\ UNCHANGED <<stream, batch, timeouts, clock, lag, stop, gone, answer, outcome>>

\* An error that is no TimeoutError is not retried.
SubscribeFails ==
  /\ pc \in {"subscribing", "resubscribing"}
  /\ Close("error")
  /\ UNCHANGED <<stream, timeouts, time, stop, gone, answer>>

\* The head of the loop.
Loop ==
  /\ pc = "loop"
  /\ lag' = 0
  /\ \/ /\ stop
        /\ Close("gone")
        /\ UNCHANGED stop
     \/ /\ ~stop /\ clock >= end
        /\ stop' = TRUE
        /\ Close("timeout")
     \/ /\ ~stop /\ clock < end
        /\ pc' = "fetching"
        /\ UNCHANGED <<subscription, batch, stop, outcome>>
  /\ UNCHANGED <<stream, timeouts, clock, end, gone, answer>>

\* fetch returns at least one event: the next few, or a lost one again.
Fetch ==
  /\ pc = "fetching"
  /\ \/ \E last \in cursor .. Len(stream) :
          /\ last < cursor + BatchSize
          /\ batch' = [k \in 1 .. last - cursor + 1 |-> cursor + k - 1]
          /\ cursor' = last + 1
          /\ UNCHANGED lost
     \/ \E again \in lost :
          /\ batch' = <<again>>
          /\ lost' = lost \ {again}
          /\ UNCHANGED cursor
  /\ pc' = "deliver"
  /\ UNCHANGED <<stream, open, live, timeouts, time, stop, gone, answer, outcome>>

\* FetchTimeoutError: there is nothing to deliver.
FetchTimesOut ==
  /\ pc = "fetching"
  /\ cursor > Len(stream)
  /\ pc' = "loop"
  /\ UNCHANGED <<stream, subscription, batch, timeouts, time, stop, gone, answer, outcome>>

\* Faulty variant: the generator forgets to unsubscribe before it resubscribes.
HeartbeatMissedLeaking ==
  /\ pc = "fetching"
  /\ \E last \in cursor - 1 .. Len(stream) :
       /\ lost' = lost \cup (cursor .. last)
       /\ cursor' = last + 1
  /\ timeouts' = timeouts + 1
  /\ pc' = IF timeouts' = MaxTimeouts THEN "resubscribing" ELSE "loop"
  /\ UNCHANGED <<stream, open, live, batch, time, stop, gone, answer, outcome>>

\* Any other TimeoutError: no heartbeat. What NATS was sending is lost. The
\* errors of the whole connection are counted, not only those in a row.
HeartbeatMissed ==
  /\ pc = "fetching"
  /\ \E last \in cursor - 1 .. Len(stream) :
       /\ lost' = lost \cup (cursor .. last)
       /\ cursor' = last + 1
  /\ timeouts' = timeouts + 1
  /\ IF timeouts' = MaxTimeouts
       THEN pc' = "resubscribing" /\ open' = open - 1 /\ live' = FALSE
       ELSE pc' = "loop" /\ UNCHANGED <<open, live>>
  /\ UNCHANGED <<stream, batch, time, stop, gone, answer, outcome>>

\* Faulty variant: the count is not reset, and the comparison is with ==.
ResubscribeKeepingCount ==
  /\ pc = "resubscribing"
  /\ Subscribed
  /\ pc' = "loop"
  /\ UNCHANGED <<stream, batch, timeouts, time, stop, gone, answer, outcome>>

\* Faulty variant: the new subscription starts now.
ResubscribeFromNow ==
  /\ pc = "resubscribing"
  /\ open' = open + 1 /\ live' = TRUE
  /\ cursor' = Len(stream) + 1 /\ lost' = {}
  /\ timeouts' = 0
  /\ pc' = "loop"
  /\ UNCHANGED <<stream, batch, time, stop, gone, answer, outcome>>

\* Faulty variant: the generator fetches at once, without a look at the clock.
ResubscribeAndFetch ==
  /\ pc = "resubscribing"
  /\ Subscribed
  /\ timeouts' = 0
  /\ pc' = "fetching"
  /\ UNCHANGED <<stream, batch, time, stop, gone, answer, outcome>>

\* _subscribe with the start time of the request. It tries for as long as NATS
\* times out: seconds, or for ever.
Resubscribe ==
  /\ pc = "resubscribing"
  /\ Subscribed
  /\ timeouts' = 0
  /\ pc' = "loop"
  /\ UNCHANGED <<stream, batch, time, stop, gone, answer, outcome>>

\* A NATS error in fetch or in ack, or an event that cannot be parsed.
Fails ==
  /\ pc \in {"fetching", "deliver", "ack"}
  /\ stop' = TRUE
  /\ Close("error")
  /\ UNCHANGED <<stream, timeouts, time, gone, answer>>

-----------------------------------------------------------------------------
(* The consumer.                                                           *)

\* It gets the event at the head of the batch and either leaves the loop, with
\* the generator suspended in its yield, or asks for the next one.
Consume ==
  /\ pc = "deliver"
  /\ \/ /\ gone
        /\ stop' = TRUE
        /\ pc' = "abandoned" /\ outcome' = "gone"
        /\ UNCHANGED answer
     \/ /\ ~gone /\ stream[Head(batch)]
        /\ answer' = Head(batch)
        /\ pc' = "answering"
        /\ UNCHANGED <<stop, outcome>>
     \/ /\ ~gone /\ ~stream[Head(batch)]
        /\ pc' = "ack"
        /\ UNCHANGED <<stop, answer, outcome>>
  /\ UNCHANGED <<stream, subscription, batch, timeouts, time, gone>>

\* The generator goes on after its yield.
Acknowledge ==
  /\ pc = "ack"
  /\ batch' = Tail(batch)
  /\ pc' = IF Len(batch) = 1 THEN "loop" ELSE "deliver"
  /\ UNCHANGED <<stream, subscription, timeouts, time, stop, gone, answer, outcome>>

\* The client has taken the event.
Answered ==
  /\ pc = "answering"
  /\ stop' = TRUE
  /\ pc' = "abandoned" /\ outcome' = "found"
  /\ UNCHANGED <<stream, subscription, batch, timeouts, time, gone, answer>>

\* The framework cancels the coroutines of a client that has left. The
\* generator catches that, except where it is suspended in its yield.
Cancel ==
  /\ gone
  /\ \/ /\ pc = "subscribing"
        /\ Close("gone") /\ UNCHANGED stop
     \/ /\ pc \in {"loop", "fetching", "resubscribing", "ack"}
        /\ stop' = TRUE
        /\ Close("gone")
     \/ /\ pc \in {"deliver", "answering"}
        /\ pc' = "abandoned" /\ outcome' = "gone"
        /\ UNCHANGED <<subscription, batch, stop>>
  /\ UNCHANGED <<stream, timeouts, time, gone, answer>>

\* Faulty variant: the generator unsubscribes after its loop, not in a finally.
CollectWithoutFinally ==
  /\ pc = "abandoned"
  /\ pc' = "ended"
  /\ batch' = <<>>
  /\ UNCHANGED <<stream, subscription, timeouts, time, stop, gone, answer, outcome>>

\* The event loop closes the abandoned generator when it is collected.
Collect ==
  /\ pc = "abandoned"
  /\ Close(outcome)
  /\ UNCHANGED <<stream, timeouts, time, stop, gone, answer>>

-----------------------------------------------------------------------------
Generator ==
  \/ Loop \/ Fetch \/ FetchTimesOut \/ HeartbeatMissed \/ Fails
  \/ Consume \/ Acknowledge \/ Collect

Ended == pc = "ended" /\ UNCHANGED vars

Next ==
  \/ Publish \/ Tick \/ ClientLeaves \/ CheckDisconnect
  \/ Subscribe \/ Resubscribe \/ SubscribeFails
  \/ Generator \/ Answered \/ Cancel
  \/ Ended

Spec == Init /\ [][Next]_vars

\* The event loop runs the coroutines and collects what nothing refers to, time
\* passes, NATS accepts a subscription some day, and the client takes its event
\* or leaves, which the framework notices.
FairSpec ==
  /\ Spec
  /\ WF_vars(Generator) /\ WF_vars(Tick)
  /\ WF_vars(Subscribe \/ Resubscribe \/ SubscribeFails)
  /\ WF_vars(Answered \/ Cancel)

-----------------------------------------------------------------------------
(* Correctness.                                                            *)

Matches(positions) == {q \in positions : stream[q]}

\* While the consumer waits, and when it gives up because time is over, it has
\* not passed over any event that matches: one that its subscription has sent is
\* in the batch in hand or on its way once more, also after a resubscription,
\* whatever was published or lost in between. What it answers is a match.
NothingPassedOver ==
  /\ answer # 0 => stream[answer]
  /\ \/ pc \in {"loop", "fetching", "deliver", "ack", "resubscribing"}
     \/ outcome = "timeout"
     => Matches(1 .. cursor - 1) \subseteq lost \cup {batch[k] : k \in DOMAIN batch}

\* However often it resubscribes, a request holds one subscription at most.
OneSubscription == open <= 1

\* Once its time is over the generator does not ask for events any more, even
\* if the end came while it was resubscribing.
NoFetchAfterEnd == pc = "fetching" => clock <= end

\* Every request ends and has closed its subscription by then: by an answer, by
\* an error, by the client, or by its time, with the generator suspended or not.
EndsAndReleases == <>[](pc = "ended" /\ open = 0)

\* The comment on SSE_TIMEOUT: the maximum duration of an SSE connection. A round
\* of the generator may overrun its end by a second.
ConnectionBounded ==
  pc \in {"loop", "fetching", "deliver", "ack", "resubscribing"} => clock <= end + 1
=============================================================================
