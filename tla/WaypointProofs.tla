--------------------------- MODULE WaypointProofs ---------------------------
(***************************************************************************)
(* Proofs about Waypoint: for every batch size, number of heartbeats,      *)
(* duration and stream, the request holds one subscription at most, does   *)
(* not ask for events after its end, and passes over no event that         *)
(* matches.                                                                *)
(***************************************************************************)
EXTENDS Waypoint, TLAPS

Waiting == {"loop", "fetching", "resubscribing"}  \* with no event in hand
InHand  == {"deliver", "ack"}                     \* with an event in hand
Unsub   == {"subscribing", "resubscribing", "ended"}

\* The generator's variable refers to a subscription exactly while one is open.
Attached ==
  /\ open = IF pc \in Unsub THEN 0 ELSE 1
  /\ live <=> pc \notin Unsub

\* Which events are in hand where, and what has been sent before the first subscription.
Stage ==
  /\ pc \in Waiting \cup {"subscribing"} => batch = <<>>
  /\ pc \in InHand => batch # <<>>
  /\ pc = "ack" => ~stream[batch[1]]
  /\ pc \notin {"resubscribing", "ended"} => timeouts < MaxTimeouts
  /\ pc \notin {"abandoned", "ended"} => outcome = "none"
  /\ pc = "abandoned" => outcome \in {"gone", "found"}
  /\ pc = "ended" => batch = <<>>

\* The generator looks at the clock before it asks for events, and a second later at
\* most it has them or has given up.
OnTime ==
  /\ lag \in 0 .. 1
  /\ pc = "subscribing" => clock + Duration <= MaxClock
  /\ pc = "fetching" => clock < end + lag

Inv == TypeOK /\ Attached /\ Stage /\ OnTime /\ NothingPassedOver
-----------------------------------------------------------------------------

(* Sequences of positions.                                                 *)

\* A stream that grows keeps the events that it has.
LEMMA StreamGrows ==
  ASSUME NEW s \in Seq(BOOLEAN), NEW b \in BOOLEAN
  PROVE  /\ Append(s, b) \in Seq(BOOLEAN)
         /\ Len(Append(s, b)) = Len(s) + 1
         /\ \A k \in 1 .. Len(s) : Append(s, b)[k] = s[k]
OBVIOUS

\* A batch stays one when the stream grows.
LEMMA BatchStays ==
  ASSUME NEW n \in Nat, NEW m \in Nat, n <= m, NEW b \in Seq(1 .. n)
  PROVE  b \in Seq(1 .. m)
OBVIOUS

\* What is left of a batch when its first event has been acknowledged.
LEMMA BatchTail ==
  ASSUME NEW n \in Nat, NEW b \in Seq(1 .. n), b # <<>>
  PROVE  /\ Tail(b) \in Seq(1 .. n) /\ Len(Tail(b)) = Len(b) - 1
         /\ Head(b) = b[1] /\ Head(b) \in 1 .. n
         /\ Len(b) >= 1
         /\ \A k \in DOMAIN b : k # 1 => k - 1 \in DOMAIN Tail(b) /\ Tail(b)[k - 1] = b[k]
         /\ Len(b) = 1 <=> Tail(b) = <<>>
<1>0. Len(b) \in Nat /\ Len(b) # 0
  OBVIOUS
<1>1. Len(b) \in Nat /\ Len(b) >= 1 /\ DOMAIN b = 1 .. Len(b)
  BY <1>0
<1>2. Tail(b) \in Seq(1 .. n) /\ Len(Tail(b)) = Len(b) - 1
  BY <1>1
<1>3. \A k \in 1 .. Len(b) - 1 : Tail(b)[k] = b[k + 1]
  BY <1>1
<1>4. \A k \in DOMAIN b : k # 1 => k - 1 \in 1 .. Len(b) - 1 /\ (k - 1) + 1 = k
  BY <1>1
<1>5. \A k \in DOMAIN b : k # 1 => k - 1 \in DOMAIN Tail(b) /\ Tail(b)[k - 1] = b[k]
  BY <1>1, <1>2, <1>3, <1>4
<1>6. Head(b) = b[1] /\ b[1] \in 1 .. n
  BY <1>1
<1>7. Len(b) = 1 <=> Tail(b) = <<>>
  <2>1. \A t \in Seq(1 .. n) : t = <<>> <=> Len(t) = 0
    OBVIOUS
  <2>2. Tail(b) = <<>> <=> Len(Tail(b)) = 0
    BY <1>2, <2>1, Zenon
  <2>3. Len(Tail(b)) = Len(b) - 1
    BY <1>2
  <2>4. Len(b) = 1 <=> Len(Tail(b)) = 0
    BY <1>1, <2>3
  <2>. QED
    BY <2>2, <2>4, Zenon
<1>8. Head(b) \in 1 .. n
  BY <1>6
<1>. QED
  BY <1>1, <1>2, <1>5, <1>6, <1>7, <1>8, Zenon

\* The batch of the events from c to l.
LEMMA BatchFetched ==
  ASSUME NEW n \in Nat, NEW c \in 1 .. n + 1, NEW l \in c .. n,
         NEW b, b = [k \in 1 .. l - c + 1 |-> c + k - 1]
  PROVE  /\ b \in Seq(1 .. n) /\ Len(b) = l - c + 1 /\ b # <<>>
         /\ \A q \in c .. l : q - c + 1 \in DOMAIN b /\ b[q - c + 1] = q
<1>1. l - c + 1 \in Nat \ {0}
  OBVIOUS
<1>2. \A k \in 1 .. l - c + 1 : c + k - 1 \in 1 .. n
  OBVIOUS
<1>3. b \in Seq(1 .. n)
  BY <1>1, <1>2
<1>4. Len(b) = l - c + 1
  BY <1>1, <1>3
<1>5. b # <<>>
  BY <1>1, <1>3, <1>4
<1>6. \A q \in c .. l : q - c + 1 \in DOMAIN b /\ b[q - c + 1] = q
  <2>1. TAKE q \in c .. l
  <2>2. q - c + 1 \in 1 .. l - c + 1 /\ c + (q - c + 1) - 1 = q
    OBVIOUS
  <2>. QED
    BY <2>2
<1>. QED
  BY <1>3, <1>4, <1>5, <1>6

-----------------------------------------------------------------------------
(* Every step keeps the types.                                             *)

Outcomes == {"none", "found", "timeout", "gone", "error"}

\* The end of a request keeps the types.
LEMMA EndTypes ==
  ASSUME TypeOK, Attached, Unsubscribed,
         pc' = "ended", batch' = <<>>, outcome' \in Outcomes,
         UNCHANGED <<stream, timeouts, clock, end, gone, answer>>,
         lag' \in Nat, stop' \in BOOLEAN
  PROVE  TypeOK'
<1>0. IF live THEN open = 1 ELSE open = 0
  BY DEF Attached
<1>1. open' = 0 /\ live' = FALSE /\ cursor' = cursor /\ lost' = lost
  BY <1>0 DEF Unsubscribed
<1>2. batch' \in Seq(1 .. Len(stream)) /\ Len(batch') <= BatchSize
  BY WaypointBounds
<1>. QED
  BY <1>1, <1>2 DEF TypeOK, Steps, Outcomes

\* A step keeps the types.
LEMMA TypeStep ==
  ASSUME TypeOK, OnTime, Stage, Attached, [Next]_vars
  PROVE  TypeOK'
<1> USE WaypointBounds DEF TypeOK, OnTime, Stage, Attached, InHand, Waiting, Unsub, Steps,
        subscription, time
<1>1. CASE Publish
  <2>1. PICK matches \in BOOLEAN : stream' = Append(stream, matches)
    BY <1>1 DEF Publish
  <2>2. stream' \in Seq(BOOLEAN) /\ Len(stream') = Len(stream) + 1
    BY <2>1, StreamGrows
  <2>3. batch \in Seq(1 .. Len(stream'))
    BY <2>2, BatchStays
  <2>. QED
    BY <1>1, <2>2, <2>3 DEF Publish
<1>2. CASE Tick
  BY <1>2 DEF Tick
<1>3. CASE ClientLeaves
  BY <1>3 DEF ClientLeaves
<1>4. CASE CheckDisconnect
  BY <1>4 DEF CheckDisconnect
<1>5. CASE Subscribe
  BY <1>5 DEF Subscribe, Subscribed
<1>6. CASE Resubscribe
  BY <1>6 DEF Resubscribe, Subscribed
<1>7. CASE SubscribeFails
  <2>1. Unsubscribed /\ pc' = "ended" /\ batch' = <<>> /\ outcome' \in Outcomes
    BY <1>7 DEF SubscribeFails, Close, Outcomes
  <2>2. lag' \in Nat /\ stop' \in BOOLEAN
    BY <1>7 DEF SubscribeFails
  <2>. QED
    BY <1>7, <2>1, <2>2, EndTypes DEF SubscribeFails
<1>8. CASE Loop
  <2>1. CASE pc' = "fetching"
    <3>1. UNCHANGED <<subscription, batch, stop, outcome>>
      BY <1>8, <2>1 DEF Loop, Close
    <3>. QED
      BY <1>8, <2>1, <3>1 DEF Loop
  <2>2. CASE pc' # "fetching"
    <3>1. Unsubscribed /\ pc' = "ended" /\ batch' = <<>> /\ outcome' \in Outcomes
      BY <1>8, <2>2 DEF Loop, Close, Outcomes
    <3>2. lag' \in Nat /\ stop' \in BOOLEAN
      BY <1>8 DEF Loop
    <3>. QED
      BY <1>8, <3>1, <3>2, EndTypes DEF Loop
  <2>. QED
    BY <2>1, <2>2
<1>9. CASE Fetch
  <2>1. ASSUME NEW last \in cursor .. Len(stream), last < cursor + BatchSize,
               batch' = [k \in 1 .. last - cursor + 1 |-> cursor + k - 1],
               cursor' = last + 1, UNCHANGED lost
        PROVE  TypeOK'
    <3>1. batch' \in Seq(1 .. Len(stream)) /\ Len(batch') = last - cursor + 1
      BY <2>1, BatchFetched
    <3>2. cursor' \in 1 .. Len(stream) + 1 /\ Len(batch') <= BatchSize
      BY <2>1, <3>1
    <3>. QED
      BY <1>9, <2>1, <3>1, <3>2 DEF Fetch
  <2>2. ASSUME NEW again \in lost, batch' = <<again>>, lost' = lost \ {again}, UNCHANGED cursor
        PROVE  TypeOK'
    <3>1. batch' \in Seq(1 .. Len(stream)) /\ Len(batch') = 1
      BY <2>2
    <3>. QED
      BY <1>9, <2>2, <3>1 DEF Fetch
  <2>. QED
    BY <1>9, <2>1, <2>2 DEF Fetch
<1>10. CASE FetchTimesOut
  BY <1>10 DEF FetchTimesOut
<1>11. CASE HeartbeatMissed
  <2>1. PICK last \in cursor - 1 .. Len(stream) :
              lost' = lost \cup (cursor .. last) /\ cursor' = last + 1
    BY <1>11 DEF HeartbeatMissed
  <2>2. lost' \in SUBSET (1 .. Len(stream)) /\ cursor' \in 1 .. Len(stream) + 1
    BY <2>1
  <2>3. timeouts' \in 0 .. MaxTimeouts
    BY <1>11 DEF HeartbeatMissed
  <2>4. open = 1 /\ live
    BY <1>11 DEF HeartbeatMissed
  <2>5. pc' \in Steps /\ live' \in BOOLEAN /\ open' \in {open, open - 1}
    BY <1>11, <2>4 DEF HeartbeatMissed
  <2>. QED
    BY <1>11, <2>2, <2>3, <2>4, <2>5 DEF HeartbeatMissed
<1>12. CASE Fails
  <2>1. Unsubscribed /\ pc' = "ended" /\ batch' = <<>> /\ outcome' \in Outcomes
    BY <1>12 DEF Fails, Close, Outcomes
  <2>2. lag' \in Nat /\ stop' \in BOOLEAN
    BY <1>12 DEF Fails
  <2>. QED
    BY <1>12, <2>1, <2>2, EndTypes DEF Fails
<1>13. CASE Consume
  <2>1. batch[1] \in 1 .. Len(stream) /\ Head(batch) = batch[1]
    BY <1>13, BatchTail DEF Consume
  <2>2. answer' \in 0 .. Len(stream)
    BY <1>13, <2>1 DEF Consume
  <2>3. pc' \in Steps /\ stop' \in BOOLEAN /\ outcome' \in Outcomes
    BY <1>13 DEF Consume, Outcomes
  <2>. QED
    BY <1>13, <2>2, <2>3 DEF Consume, Outcomes
<1>14. CASE Acknowledge
  <2>1. batch' \in Seq(1 .. Len(stream)) /\ Len(batch') <= BatchSize
    BY <1>14, BatchTail DEF Acknowledge
  <2>. QED
    BY <1>14, <2>1 DEF Acknowledge
<1>15. CASE Collect
  <2>1. Unsubscribed /\ pc' = "ended" /\ batch' = <<>> /\ outcome' \in Outcomes
    BY <1>15 DEF Collect, Close, Outcomes
  <2>2. lag' \in Nat /\ stop' \in BOOLEAN
    BY <1>15 DEF Collect
  <2>. QED
    BY <1>15, <2>1, <2>2, EndTypes DEF Collect
<1>16. CASE Answered
  BY <1>16 DEF Answered
<1>17. CASE Cancel
  <2>1. stop' \in BOOLEAN
    BY <1>17 DEF Cancel
  <2>2. CASE pc' = "abandoned"
    <3>1. outcome' = "gone" /\ UNCHANGED <<subscription, batch, stop>>
      BY <1>17, <2>2 DEF Cancel, Close
    <3>. QED
      BY <1>17, <2>2, <3>1 DEF Cancel
  <2>3. CASE pc' # "abandoned"
    <3>1. Unsubscribed /\ pc' = "ended" /\ batch' = <<>> /\ outcome' \in Outcomes
      BY <1>17, <2>3 DEF Cancel, Close, Outcomes
    <3>. QED
      BY <1>17, <2>1, <3>1, EndTypes DEF Cancel
  <2>. QED
    BY <2>2, <2>3
<1>18. CASE UNCHANGED vars
  BY <1>18 DEF vars
<1>19. QED
  BY <1>1, <1>2, <1>3, <1>4, <1>5, <1>6, <1>7, <1>8, <1>9, <1>10, <1>11, <1>12, <1>13,
     <1>14, <1>15, <1>16, <1>17, <1>18 DEF Next, Generator, Ended

-----------------------------------------------------------------------------
(* Every step keeps the parts of the invariant.                            *)

\* A step keeps the count of the subscriptions.
LEMMA AttachedStep ==
  ASSUME TypeOK, Attached, [Next]_vars
  PROVE  Attached'
<1> USE WaypointBounds DEF TypeOK, Attached, Unsub, Steps, subscription, time
<1>1. CASE Publish
  BY <1>1 DEF Publish
<1>2. CASE Tick
  BY <1>2 DEF Tick
<1>3. CASE ClientLeaves
  BY <1>3 DEF ClientLeaves
<1>4. CASE CheckDisconnect
  BY <1>4 DEF CheckDisconnect
<1>5. CASE Subscribe
  BY <1>5 DEF Subscribe, Subscribed
<1>6. CASE Resubscribe
  BY <1>6 DEF Resubscribe, Subscribed
<1>7. CASE SubscribeFails
  BY <1>7 DEF SubscribeFails, Close, Unsubscribed
<1>8. CASE Loop
  <2>1. CASE pc' = "fetching"
    BY <1>8, <2>1 DEF Loop, Close
  <2>2. CASE pc' # "fetching"
    <3>1. Unsubscribed /\ pc' = "ended"
      BY <1>8, <2>2 DEF Loop, Close
    <3>. QED
      BY <3>1 DEF Unsubscribed
  <2>. QED
    BY <2>1, <2>2
<1>9. CASE Fetch
  BY <1>9 DEF Fetch
<1>10. CASE FetchTimesOut
  BY <1>10 DEF FetchTimesOut
<1>11. CASE HeartbeatMissed
  <2>1. open = 1 /\ live
    BY <1>11 DEF HeartbeatMissed
  <2>2. CASE timeouts' = MaxTimeouts
    <3>1. pc' = "resubscribing" /\ open' = open - 1 /\ live' = FALSE
      BY <1>11, <2>2 DEF HeartbeatMissed
    <3>. QED
      BY <2>1, <3>1
  <2>3. CASE timeouts' # MaxTimeouts
    BY <1>11, <2>1, <2>3 DEF HeartbeatMissed
  <2>. QED
    BY <2>2, <2>3
<1>12. CASE Fails
  BY <1>12 DEF Fails, Close, Unsubscribed
<1>13. CASE Consume
  BY <1>13 DEF Consume
<1>14. CASE Acknowledge
  BY <1>14 DEF Acknowledge
<1>15. CASE Collect
  BY <1>15 DEF Collect, Close, Unsubscribed
<1>16. CASE Answered
  BY <1>16 DEF Answered
<1>17. CASE Cancel
  BY <1>17 DEF Cancel, Close, Unsubscribed
<1>18. CASE UNCHANGED vars
  BY <1>18 DEF vars
<1>19. QED
  BY <1>1, <1>2, <1>3, <1>4, <1>5, <1>6, <1>7, <1>8, <1>9, <1>10, <1>11, <1>12, <1>13,
     <1>14, <1>15, <1>16, <1>17, <1>18 DEF Next, Generator, Ended

\* A step keeps the stages.
LEMMA StageStep ==
  ASSUME TypeOK, Stage, [Next]_vars
  PROVE  Stage'
<1> USE WaypointBounds DEF TypeOK, Stage, InHand, Waiting, Steps, subscription, time
<1>1. CASE Publish
  <2>1. PICK matches \in BOOLEAN : stream' = Append(stream, matches)
    BY <1>1 DEF Publish
  <2>2. \A k \in 1 .. Len(stream) : stream'[k] = stream[k]
    BY <2>1, StreamGrows
  <2>3. batch # <<>> => batch[1] \in 1 .. Len(stream)
    BY BatchTail
  <2>4. pc' = "ack" => ~stream'[batch'[1]]
    BY <1>1, <2>2, <2>3 DEF Publish
  <2>. QED
    BY <1>1, <2>4 DEF Publish
<1>2. CASE Tick
  BY <1>2 DEF Tick
<1>3. CASE ClientLeaves
  BY <1>3 DEF ClientLeaves
<1>4. CASE CheckDisconnect
  BY <1>4 DEF CheckDisconnect
<1>5. CASE Subscribe
  BY <1>5 DEF Subscribe, Subscribed
<1>6. CASE Resubscribe
  BY <1>6 DEF Resubscribe, Subscribed
<1>7. CASE SubscribeFails
  BY <1>7 DEF SubscribeFails, Close, Unsubscribed
<1>8. CASE Loop
  <2>1. CASE Close("gone") \/ Close("timeout")
    BY <1>8, <2>1 DEF Loop, Close
  <2>2. CASE pc' = "fetching" /\ UNCHANGED <<subscription, batch, stop, outcome>>
    BY <1>8, <2>2 DEF Loop
  <2>. QED
    BY <1>8, <2>1, <2>2 DEF Loop
<1>9. CASE Fetch
  <2>1. batch' # <<>>
    BY <1>9, BatchFetched DEF Fetch
  <2>. QED
    BY <1>9, <2>1 DEF Fetch
<1>10. CASE FetchTimesOut
  BY <1>10 DEF FetchTimesOut
<1>11. CASE HeartbeatMissed
  <2>1. pc' \in {"resubscribing", "loop"} /\ (pc' # "resubscribing" => timeouts' < MaxTimeouts)
    BY <1>11 DEF HeartbeatMissed
  <2>. QED
    BY <1>11, <2>1 DEF HeartbeatMissed
<1>12. CASE Fails
  BY <1>12 DEF Fails, Close, Unsubscribed
<1>13. CASE Consume
  <2>1. Head(batch) = batch[1]
    BY <1>13, BatchTail DEF Consume
  <2>2. CASE pc' = "abandoned" /\ outcome' = "gone"
    BY <1>13, <2>2 DEF Consume
  <2>3. CASE pc' = "answering" /\ outcome' = outcome
    BY <1>13, <2>3 DEF Consume
  <2>4. CASE pc' = "ack" /\ outcome' = outcome /\ ~stream[Head(batch)]
    BY <1>13, <2>1, <2>4 DEF Consume
  <2>. QED
    BY <1>13, <2>2, <2>3, <2>4 DEF Consume
<1>14. CASE Acknowledge
  <2>1. batch # <<>> /\ batch \in Seq(1 .. Len(stream)) /\ Len(stream) \in Nat
    BY <1>14 DEF Acknowledge
  <2>3. Len(batch) = 1 <=> Tail(batch) = <<>>
    BY <2>1, BatchTail
  <2>4. batch' = Tail(batch)
    BY <1>14 DEF Acknowledge
  <2>2. pc' = IF Len(batch) = 1 THEN "loop" ELSE "deliver"
    BY <1>14 DEF Acknowledge
  <2>. QED
    BY <1>14, <2>2, <2>3, <2>4 DEF Acknowledge
<1>15. CASE Collect
  BY <1>15 DEF Collect, Close, Unsubscribed
<1>16. CASE Answered
  BY <1>16 DEF Answered
<1>17. CASE Cancel
  BY <1>17 DEF Cancel, Close, Unsubscribed
<1>18. CASE UNCHANGED vars
  BY <1>18 DEF vars
<1>19. QED
  BY <1>1, <1>2, <1>3, <1>4, <1>5, <1>6, <1>7, <1>8, <1>9, <1>10, <1>11, <1>12, <1>13,
     <1>14, <1>15, <1>16, <1>17, <1>18 DEF Next, Generator, Ended

\* A step keeps the clocks.
LEMMA OnTimeStep ==
  ASSUME TypeOK, OnTime, [Next]_vars
  PROVE  OnTime'
<1> USE WaypointBounds DEF TypeOK, OnTime, Steps, subscription, time
<1>1. CASE Publish
  BY <1>1 DEF Publish
<1>2. CASE Tick
  BY <1>2 DEF Tick
<1>3. CASE ClientLeaves
  BY <1>3 DEF ClientLeaves
<1>4. CASE CheckDisconnect
  BY <1>4 DEF CheckDisconnect
<1>5. CASE Subscribe
  BY <1>5 DEF Subscribe, Subscribed
<1>6. CASE Resubscribe
  BY <1>6 DEF Resubscribe, Subscribed
<1>7. CASE SubscribeFails
  BY <1>7 DEF SubscribeFails, Close, Unsubscribed
<1>8. CASE Loop
  BY <1>8 DEF Loop, Close, Unsubscribed
<1>9. CASE Fetch
  BY <1>9 DEF Fetch
<1>10. CASE FetchTimesOut
  BY <1>10 DEF FetchTimesOut
<1>11. CASE HeartbeatMissed
  BY <1>11 DEF HeartbeatMissed
<1>12. CASE Fails
  BY <1>12 DEF Fails, Close, Unsubscribed
<1>13. CASE Consume
  BY <1>13 DEF Consume
<1>14. CASE Acknowledge
  BY <1>14 DEF Acknowledge
<1>15. CASE Collect
  BY <1>15 DEF Collect, Close, Unsubscribed
<1>16. CASE Answered
  BY <1>16 DEF Answered
<1>17. CASE Cancel
  BY <1>17 DEF Cancel, Close, Unsubscribed
<1>18. CASE UNCHANGED vars
  BY <1>18 DEF vars
<1>19. QED
  BY <1>1, <1>2, <1>3, <1>4, <1>5, <1>6, <1>7, <1>8, <1>9, <1>10, <1>11, <1>12, <1>13,
     <1>14, <1>15, <1>16, <1>17, <1>18 DEF Next, Generator, Ended

\* A step passes over nothing that matches.
LEMMA PassedStep ==
  ASSUME TypeOK, Stage, NothingPassedOver, [Next]_vars
  PROVE  NothingPassedOver'
<1> USE WaypointBounds DEF TypeOK, Stage, NothingPassedOver, Matches, InHand, Waiting,
        Steps, subscription, time
<1>1. CASE Publish
  <2>1. PICK matches \in BOOLEAN : stream' = Append(stream, matches)
    BY <1>1 DEF Publish
  <2>2. \A k \in 1 .. Len(stream) : stream'[k] = stream[k]
    BY <2>1, StreamGrows
  <2>3. answer' # 0 => stream'[answer']
    BY <1>1, <2>2 DEF Publish
  <2>4. \A q \in 1 .. cursor - 1 : stream'[q] = stream[q]
    BY <2>2
  <2>5. UNCHANGED <<pc, outcome, cursor, lost, batch>>
    BY <1>1 DEF Publish
  <2>6. ASSUME NEW q \in 1 .. cursor - 1, stream'[q],
               \/ pc \in {"loop", "fetching", "deliver", "ack", "resubscribing"}
               \/ outcome = "timeout"
        PROVE  q \in lost \cup {batch[k] : k \in DOMAIN batch}
    BY <2>4, <2>6
  <2>. QED
    BY <2>3, <2>5, <2>6
<1>2. CASE Tick
  BY <1>2 DEF Tick
<1>3. CASE ClientLeaves
  BY <1>3 DEF ClientLeaves
<1>4. CASE CheckDisconnect
  BY <1>4 DEF CheckDisconnect
<1>5. CASE Subscribe
  <2>1. 1 .. cursor' - 1 = {} /\ stream' = stream /\ answer' = answer
    BY <1>5 DEF Subscribe, Subscribed
  <2>. QED
    BY <2>1
<1>6. CASE Resubscribe
  <2>1. 1 .. cursor' - 1 = {} /\ stream' = stream /\ answer' = answer
    BY <1>6 DEF Resubscribe, Subscribed
  <2>. QED
    BY <2>1
<1>7. CASE SubscribeFails
  BY <1>7 DEF SubscribeFails, Close, Unsubscribed
<1>8. CASE Loop
  <2>1. answer' # 0 => stream'[answer']
    BY <1>8 DEF Loop
  <2>2. Matches(1 .. cursor - 1) \subseteq lost
    BY <1>8 DEF Loop
  <2>3. cursor' = cursor /\ lost' = lost /\ stream' = stream
    BY <1>8 DEF Loop, Close, Unsubscribed
  <2>. QED
    BY <2>1, <2>2, <2>3
<1>9. CASE Fetch
  <2>1. \A q \in Matches(1 .. cursor - 1) : q \in lost
    BY <1>9 DEF Fetch
  <2>2. stream' = stream /\ answer' = answer
    BY <1>9 DEF Fetch
  <2>3. ASSUME NEW last \in cursor .. Len(stream),
               batch' = [k \in 1 .. last - cursor + 1 |-> cursor + k - 1],
               cursor' = last + 1, lost' = lost
        PROVE  \A q \in 1 .. cursor' - 1 :
                 stream[q] => q \in lost' \cup {batch'[k] : k \in DOMAIN batch'}
    <3>1. \A q \in cursor .. last : q - cursor + 1 \in DOMAIN batch' /\ batch'[q - cursor + 1] = q
      BY <2>3, BatchFetched
    <3>2. \A q \in cursor .. last : q \in {batch'[k] : k \in DOMAIN batch'}
      BY <3>1
    <3>3. \A q \in 1 .. cursor' - 1 : q \in 1 .. cursor - 1 \/ q \in cursor .. last
      BY <2>3
    <3>. QED
      BY <2>1, <2>3, <3>2, <3>3
  <2>4. ASSUME NEW again \in lost, batch' = <<again>>, lost' = lost \ {again}, cursor' = cursor
        PROVE  \A q \in 1 .. cursor' - 1 :
                 stream[q] => q \in lost' \cup {batch'[k] : k \in DOMAIN batch'}
    <3>1. 1 \in DOMAIN batch' /\ batch'[1] = again
      BY <2>4
    <3>. QED
      BY <2>1, <2>4, <3>1
  <2>5. \A q \in 1 .. cursor' - 1 :
          stream[q] => q \in lost' \cup {batch'[k] : k \in DOMAIN batch'}
    BY <1>9, <2>3, <2>4 DEF Fetch
  <2>. QED
    BY <2>2, <2>5
<1>10. CASE FetchTimesOut
  BY <1>10 DEF FetchTimesOut
<1>11. CASE HeartbeatMissed
  <2>1. \A q \in Matches(1 .. cursor - 1) : q \in lost
    BY <1>11 DEF HeartbeatMissed
  <2>2. PICK last \in cursor - 1 .. Len(stream) :
              lost' = lost \cup (cursor .. last) /\ cursor' = last + 1
    BY <1>11 DEF HeartbeatMissed
  <2>3. \A q \in 1 .. cursor' - 1 : stream[q] => q \in lost'
    BY <2>1, <2>2
  <2>4. stream' = stream /\ answer' = answer
    BY <1>11 DEF HeartbeatMissed
  <2>. QED
    BY <2>3, <2>4
<1>12. CASE Fails
  BY <1>12 DEF Fails, Close, Unsubscribed
<1>13. CASE Consume
  <2>1. Head(batch) = batch[1]
    BY <1>13, BatchTail DEF Consume
  <2>2. answer' # 0 => stream'[answer']
    BY <1>13 DEF Consume
  <2>3. UNCHANGED <<stream, cursor, lost, batch>> /\ outcome' # "timeout"
    BY <1>13 DEF Consume
  <2>. QED
    BY <1>13, <2>2, <2>3 DEF Consume, Outcomes
<1>14. CASE Acknowledge
  <2>1. batch # <<>> /\ batch \in Seq(1 .. Len(stream)) /\ Len(stream) \in Nat
    BY <1>14 DEF Acknowledge
  <2>2. batch' = Tail(batch) /\ UNCHANGED <<stream, cursor, lost, answer>>
    BY <1>14 DEF Acknowledge
  <2>3. ~stream[batch[1]]
    BY <1>14 DEF Acknowledge
  <2>4. ASSUME NEW q \in 1 .. cursor - 1, stream[q], q \notin lost
        PROVE  q \in {batch'[k] : k \in DOMAIN batch'}
    <3>1. q \in lost \cup {batch[k] : k \in DOMAIN batch}
      BY <1>14, <2>4 DEF Acknowledge
    <3>2. PICK k \in DOMAIN batch : batch[k] = q
      BY <2>4, <3>1
    <3>3. k # 1
      BY <2>3, <2>4, <3>2
    <3>4. k - 1 \in DOMAIN Tail(batch) /\ Tail(batch)[k - 1] = batch[k]
      BY <2>1, <3>3, BatchTail
    <3>. QED
      BY <2>2, <3>2, <3>4
  <2>. QED
    BY <1>14, <2>2, <2>4
<1>15. CASE Collect
  BY <1>15 DEF Collect, Close, Unsubscribed
<1>16. CASE Answered
  BY <1>16 DEF Answered
<1>17. CASE Cancel
  BY <1>17 DEF Cancel, Close, Unsubscribed
<1>18. CASE UNCHANGED vars
  BY <1>18 DEF vars
<1>19. QED
  BY <1>1, <1>2, <1>3, <1>4, <1>5, <1>6, <1>7, <1>8, <1>9, <1>10, <1>11, <1>12, <1>13,
     <1>14, <1>15, <1>16, <1>17, <1>18 DEF Next, Generator, Ended

-----------------------------------------------------------------------------
(* The theorems.                                                           *)

\* The initial states satisfy Inv.
LEMMA InvInit == Init => Inv
<1> SUFFICES ASSUME Init PROVE Inv
  OBVIOUS
<1>1. TypeOK
  <2>1. stream \in Seq(BOOLEAN) /\ Len(stream) = 0 /\ Len(stream) <= MaxEvents
    BY WaypointBounds DEF Init
  <2>2. batch \in Seq(1 .. Len(stream)) /\ Len(batch) <= BatchSize
    BY WaypointBounds DEF Init
  <2>3. cursor \in 1 .. Len(stream) + 1 /\ lost = {} /\ answer \in 0 .. Len(stream)
    BY <2>1 DEF Init
  <2>4. pc \in Steps /\ open \in Nat /\ live \in BOOLEAN /\ outcome = "none"
    BY DEF Init, Steps
  <2>5. timeouts \in 0 .. MaxTimeouts /\ clock \in 0 .. MaxClock /\ end \in 0 .. MaxClock
    BY WaypointBounds DEF Init
  <2>6. lag \in Nat /\ stop \in BOOLEAN /\ gone \in BOOLEAN
    BY DEF Init
  <2>. QED
    BY <2>1, <2>2, <2>3, <2>4, <2>5, <2>6 DEF TypeOK
<1>2. Attached /\ OnTime
  BY WaypointBounds DEF Init, Attached, OnTime, Unsub
<1>3. Stage
  BY WaypointBounds DEF Init, Stage, Waiting, InHand
<1>4. NothingPassedOver
  BY DEF Init, NothingPassedOver
<1>. QED
  BY <1>1, <1>2, <1>3, <1>4 DEF Inv

\* Every step keeps Inv.
LEMMA InvStep == Inv /\ [Next]_vars => Inv'
BY TypeStep, AttachedStep, StageStep, OnTimeStep, PassedStep DEF Inv

\* The variables of the request keep their types in every behaviour.
THEOREM TypesAreKept == Spec => []TypeOK
<1>1. Inv => TypeOK
  BY DEF Inv
<1>. QED
  BY InvInit, InvStep, <1>1, PTL DEF Spec

\* process_events unsubscribes before it subscribes once more: however often the
\* heartbeat fails, a request never holds two subscriptions.
THEOREM OneSubscriptionHolds == Spec => []OneSubscription
<1>1. Inv => OneSubscription
  BY DEF Inv, Attached, OneSubscription
<1>. QED
  BY InvInit, InvStep, <1>1, PTL DEF Spec

\* The loop of process_events looks at the clock in every round, also in the first
\* one after a resubscription that took long: no fetch starts after the end.
THEOREM NoFetchAfterEndHolds == Spec => []NoFetchAfterEnd
<1>1. Inv => NoFetchAfterEnd
  BY DEF Inv, TypeOK, OnTime, NoFetchAfterEnd
<1>. QED
  BY InvInit, InvStep, <1>1, PTL DEF Spec

\* A request that still waits, or that gives up when its time is over, has passed
\* over no event that matches: what was sent and not looked at is still to come.
THEOREM NothingPassedOverHolds == Spec => []NothingPassedOver
<1>1. Inv => NothingPassedOver
  BY DEF Inv
<1>. QED
  BY InvInit, InvStep, <1>1, PTL DEF Spec
=============================================================================
