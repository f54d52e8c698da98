---------------------------- MODULE RedisEventBus ----------------------------
(***************************************************************************)
(* The two Pub/Sub channels of event_bus.go, at most once and in order per *)
(* channel.  channel[ch] holds what Redis has delivered to the coordinator *)
(* and its select has not taken yet: the connection's buffer, then at most *)
(* one message in the hands of the forwarding goroutine.                   *)
(***************************************************************************)
EXTENDS Domain, Faults

VARIABLES
  channel,
  subscription    \* "none", "pending" (SUBSCRIBE not in effect) or "live"

busVars == <<channel, subscription>>

ChannelName == {"completed", "terminated"}

Delivered(ch, event, copies) ==
  IF subscription[ch] # "live" THEN channel
  ELSE [channel EXCEPT ![ch] = @ \o [i \in 1..copies |-> event]]

(* PUBLISH.  Every caller ignores the error, so an error after delivery is  *)
(* the same step as a success.                                              *)
Publish(ch, event) ==
  /\ UNCHANGED subscription
  /\ \/ channel' = Delivered(ch, event, 1) /\ NoFault
     \/ channel' = channel /\ Fault("publish")
     \/ channel' = Delivered(ch, event, 2) /\ Fault("dupPublish")

PublishTaskCompleted(t, row) == Publish("completed", Event(t, row, "completed"))

PublishTaskTerminated(t, row, type) == Publish("terminated", Event(t, row, type))

(* SubscribeToEvents and SubscribeToTerminationEvents return at once, ...   *)
Subscribe(ch) ==
  /\ subscription' = [subscription EXCEPT ![ch] = "pending"]
  /\ UNCHANGED channel

(* ... Redis registers the subscriber later. *)
Subscribed(ch) ==
  /\ subscription[ch] = "pending"
  /\ subscription' = [subscription EXCEPT ![ch] = "live"]
  /\ UNCHANGED channel
  /\ NoFault

(* The connection breaks: the messages in it are lost, the one the          *)
(* forwarding goroutine already holds is not; ReceiveMessage reconnects and *)
(* subscribes again.                                                        *)
Disconnect(ch) ==
  /\ subscription[ch] = "live"
  /\ subscription' = [subscription EXCEPT ![ch] = "pending"]
  /\ \E kept \in 0..1 :
       channel' = [channel EXCEPT ![ch] = SubSeq(@, 1, IF @ = <<>> THEN 0 ELSE kept)]
  /\ Fault("disconnect")

Receive(ch, event) ==
  /\ channel[ch] # <<>>
  /\ event = Head(channel[ch])
  /\ channel' = [channel EXCEPT ![ch] = Tail(@)]
  /\ UNCHANGED subscription

RedisEventBusTypeOK ==
  /\ channel \in [ChannelName -> Seq(TaskCompletedEvent \cup TaskTerminatedEvent)]
  /\ subscription \in [ChannelName -> {"none", "pending", "live"}]

NoMessages == [ch \in ChannelName |-> <<>>]

Subscriptions(coldStart) ==
  [ch \in ChannelName |-> IF coldStart THEN "none" ELSE "live"]

RedisEventBusInit(coldStart) ==
  channel = NoMessages /\ subscription = Subscriptions(coldStart)
=============================================================================
