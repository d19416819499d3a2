---------------------------- MODULE EventStream ----------------------------
(***************************************************************************)
(* The event stream: the persisted event log and the in-memory             *)
(* subscriptions of operations.Store (events.go), the GET /events handler  *)
(* that turns them into Server-Sent Events (api/ledger_events.go), and a   *)
(* browser's EventSource, which reconnects with the ID of the last frame   *)
(* it received.                                                            *)
(*                                                                         *)
(* An event is its ID, the position in the log; the log itself records     *)
(* whether ledgerEventType exposes the event on the stream.  A mutation    *)
(* holds mutateMu from its commit until it has published its event, so at  *)
(* most the last event of the log is still unpublished.                    *)
(***************************************************************************)
EXTENDS Naturals, Sequences, SequencesExt

CONSTANTS
  Buffer,    \* subscriberBuffer, the capacity of a subscription channel
  MaxLog,    \* bound on the number of events
  MaxDrops   \* bound on the number of broken connections

ASSUME StreamAssumption == Buffer \in Nat \ {0} /\ MaxLog \in Nat /\ MaxDrops \in Nat

VARIABLES
  log,        \* table events: for each ID, whether the event is exposed
  published,  \* how many events have been published to the subscribers
  channel,    \* the subscription: [state, queue]
  handler,    \* the handler: [pc, lastID, replay]
  wire,       \* frames written to the response and not received yet
  received,   \* frames the client has received
  drops       \* the number of broken connections so far

vars == <<log, published, channel, handler, wire, received, drops>>

NoChannel == [state |-> "none", queue |-> <<>>]

Stopped == [pc |-> "stopped", lastID |-> 0, replay |-> <<>>]

Init ==
  /\ log = <<>>
  /\ published = 0
  /\ channel = NoChannel
  /\ handler = Stopped
  /\ wire = <<>>
  /\ received = <<>>
  /\ drops = 0

-----------------------------------------------------------------------------
(* The store *)

\* appendEvent, in a transaction that commits.
Commit(exposed) ==
  /\ published = Len(log)
  /\ Len(log) < MaxLog
  /\ log' = Append(log, exposed)
  /\ UNCHANGED <<published, channel, handler, wire, received, drops>>

\* Mutant: an event that finds the channel full is dropped.
PublishOrDrop ==
  /\ published < Len(log)
  /\ published' = published + 1
  /\ channel' = IF channel.state = "open" /\ Len(channel.queue) < Buffer
                THEN [channel EXCEPT !.queue = Append(@, published')]
                ELSE channel
  /\ UNCHANGED <<log, handler, wire, received, drops>>

\* publish: a subscriber whose channel is full is closed, so that the
\* mutation never waits for it.
Publish ==
  /\ published < Len(log)
  /\ published' = published + 1
  /\ channel' = IF channel.state # "open" THEN channel
                ELSE IF Len(channel.queue) < Buffer
                THEN [channel EXCEPT !.queue = Append(@, published')]
                ELSE [channel EXCEPT !.state = "closed"]
  /\ UNCHANGED <<log, handler, wire, received, drops>>

-----------------------------------------------------------------------------
(* The handler *)

\* The client connects, with the ID of the last frame it has; the handler
\* subscribes.
Connect ==
  /\ handler.pc = "stopped"
  /\ wire = <<>>
  /\ channel' = [state |-> "open", queue |-> <<>>]
  /\ handler' = [pc |-> "subscribed", replay |-> <<>>,
                 lastID |-> IF received = <<>> THEN 0 ELSE Last(received)]
  /\ UNCHANGED <<log, published, wire, received, drops>>

\* EventsAfter: the persisted events after lastID.
Replay ==
  /\ handler.pc = "subscribed"
  /\ handler' = [handler EXCEPT !.pc = "replaying",
       !.replay = [i \in 1..(Len(log) - handler.lastID) |-> handler.lastID + i]]
  /\ UNCHANGED <<log, published, channel, wire, received, drops>>

\* writeLedgerFrame: events of unexposed types are skipped.
WriteFrame(id) == wire' = IF log[id] THEN Append(wire, id) ELSE wire

WriteReplay ==
  /\ handler.pc = "replaying"
  /\ IF handler.replay = <<>>
     THEN handler' = [handler EXCEPT !.pc = "live"] /\ UNCHANGED wire
     ELSE LET id == Head(handler.replay) IN
          /\ WriteFrame(id)
          /\ handler' = [handler EXCEPT !.replay = Tail(@), !.lastID = id]
  /\ UNCHANGED <<log, published, channel, received, drops>>

\* Mutant: live events that the replay has covered are written again.
WriteEvery ==
  /\ handler.pc = "live"
  /\ channel.queue # <<>>
  /\ WriteFrame(Head(channel.queue))
  /\ handler' = [handler EXCEPT !.lastID = Head(channel.queue)]
  /\ channel' = [channel EXCEPT !.queue = Tail(@)]
  /\ UNCHANGED <<log, published, received, drops>>

\* Live events already covered by the replay are skipped by ID.
WriteLive ==
  /\ handler.pc = "live"
  /\ channel.queue # <<>>
  /\ LET id == Head(channel.queue) IN
     IF id <= handler.lastID
     THEN UNCHANGED <<wire, handler>>
     ELSE WriteFrame(id) /\ handler' = [handler EXCEPT !.lastID = id]
  /\ channel' = [channel EXCEPT !.queue = Tail(@)]
  /\ UNCHANGED <<log, published, received, drops>>

\* The channel was closed and is drained: the response ends.
EndResponse ==
  /\ handler.pc = "live"
  /\ channel.queue = <<>>
  /\ channel.state = "closed"
  /\ channel' = NoChannel
  /\ handler' = Stopped
  /\ UNCHANGED <<log, published, wire, received, drops>>

-----------------------------------------------------------------------------
(* The client and the connection *)

Receive ==
  /\ wire # <<>>
  /\ received' = Append(received, Head(wire))
  /\ wire' = Tail(wire)
  /\ UNCHANGED <<log, published, channel, handler, drops>>

\* The connection breaks: frames under way are lost, the handler returns and
\* cancels its subscription.
Break ==
  /\ drops < MaxDrops
  /\ handler.pc # "stopped"
  /\ drops' = drops + 1
  /\ wire' = <<>>
  /\ channel' = NoChannel
  /\ handler' = Stopped
  /\ UNCHANGED <<log, published, received>>

Handle == Replay \/ WriteReplay \/ WriteLive \/ EndResponse

Next ==
  \/ \E exposed \in BOOLEAN : Commit(exposed)
  \/ Publish
  \/ Connect \/ Handle \/ Receive \/ Break

Spec == Init /\ [][Next]_vars

\* A mutation publishes what it has committed, the handler keeps running, and
\* the browser reads and reconnects.
FairSpec ==
  Spec /\ WF_vars(Publish) /\ WF_vars(Handle) /\ WF_vars(Connect) /\ WF_vars(Receive)

-----------------------------------------------------------------------------
(* Properties *)

\* What the client has received, followed by what is under way to it.
Arriving == received \o wire

\* The client's view never has a gap, a repeated or a reordered event: what
\* arrives are exposed events, in the order of the log, and none is missing in
\* front of one that arrives, through replays, overflows and reconnections.
NoGapNoRepeat ==
  /\ \A j \in DOMAIN Arriving : Arriving[j] \in DOMAIN log /\ log[Arriving[j]]
  /\ \A i, j \in DOMAIN Arriving : i < j => Arriving[i] < Arriving[j]
  /\ \A id \in DOMAIN log, j \in DOMAIN Arriving :
       log[id] /\ id < Arriving[j] => \E i \in DOMAIN Arriving : Arriving[i] = id

\* A connection that has gone quiet is up to date: when the handler waits on an
\* open, empty channel and nothing is under way, the client has received every
\* exposed event, wherever its subscription fell between commits, publications
\* and the replay.
QuietIsCurrent ==
  /\ handler.pc = "live"
  /\ channel = [state |-> "open", queue |-> <<>>]
  /\ published = Len(log)
  /\ wire = <<>>
  => {received[j] : j \in DOMAIN received} = {id \in DOMAIN log : log[id]}

\* Every exposed event reaches the client, also one committed while the
\* handler replayed, one that overflowed its channel, and one whose frame was
\* lost with the connection.
EverythingArrives ==
  \A i \in 1..MaxLog :
    (i <= Len(log) /\ log[i]) ~> (\E j \in DOMAIN received : received[j] = i)
=============================================================================
