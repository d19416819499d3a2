-------------------------- MODULE EventStreamProofs -------------------------
(***************************************************************************)
(* Proofs about the event stream, for every length of the log, capacity of *)
(* the channel and number of broken connections.                           *)
(*                                                                         *)
(* NoGapNoRepeat says nothing of what the channel and the replay still     *)
(* hold.  StreamInv adds that what the handler has yet to write follows,   *)
(* without a gap, the last event it wrote or skipped, and that everything  *)
(* up to that one has arrived.                                             *)
(***************************************************************************)
EXTENDS EventStream, SequenceTheorems, TLAPS

TypeInv ==
  /\ log \in Seq(BOOLEAN)
  /\ published \in Nat /\ published <= Len(log)
  /\ channel \in [state : {"none", "open", "closed"}, queue : Seq(Nat)]
  /\ handler \in [pc : {"stopped", "subscribed", "replaying", "live"}, lastID : Nat, replay : Seq(Nat)]
  /\ wire \in Seq(Nat) /\ received \in Seq(Nat)

\* The sequence s holds exposed events in order, and none is missing in front
\* of one of them.
Faithful(s) ==
  /\ \A j \in 1 .. Len(s) : s[j] \in 1 .. Len(log) /\ log[s[j]]
  /\ \A i, j \in 1 .. Len(s) : i < j => s[i] < s[j]
  /\ \A id \in 1 .. Len(log), j \in 1 .. Len(s) :
       log[id] /\ id < s[j] => \E i \in 1 .. Len(s) : s[i] = id

\* The sequence s holds exactly the exposed events up to n.
UpTo(s, n) ==
  /\ \A j \in 1 .. Len(s) : s[j] <= n
  /\ \A id \in 1 .. Len(log) : id <= n /\ log[id] => \E i \in 1 .. Len(s) : s[i] = id

\* The sequence s counts up from n + 1.
Consecutive(s, n) == \A i \in 1 .. Len(s) : s[i] = n + i

HandlerInv ==
  /\ handler.pc # "stopped" => UpTo(Arriving, handler.lastID) /\ handler.lastID <= Len(log)
  /\ handler.pc = "replaying" => /\ Consecutive(handler.replay, handler.lastID)
                                 /\ handler.lastID + Len(handler.replay) <= Len(log)
  /\ handler.pc = "live" => Len(handler.replay) = 0

\* The channel holds the events behind n, up to the last published one while
\* it is open.
Holds(n) ==
  /\ Consecutive(channel.queue, n)
  /\ n + Len(channel.queue) <= published
  /\ channel.state = "open" => n + Len(channel.queue) = published

\* The channel goes on where the replay ends, or earlier.
ChannelInv ==
  \E n \in Nat :
    /\ Holds(n)
    /\ handler.pc \in {"replaying", "live"} => n <= handler.lastID + Len(handler.replay)

StreamInv == TypeInv /\ Faithful(Arriving) /\ HandlerInv /\ ChannelInv
-----------------------------------------------------------------------------
\* Appending the next number, and taking the first, keep a sequence counting.
LEMMA CountOn ==
  ASSUME NEW n \in Nat, NEW s \in Seq(Nat), NEW e \in Nat, Consecutive(s, n), e = n + Len(s) + 1
  PROVE  /\ Append(s, e) \in Seq(Nat) /\ Len(Append(s, e)) = Len(s) + 1
         /\ Consecutive(Append(s, e), n)
<1>1. Append(s, e) \in Seq(Nat) /\ Len(Append(s, e)) = Len(s) + 1 /\ Len(s) \in Nat
      /\ Append(s, e)[Len(s) + 1] = e /\ \A i \in 1 .. Len(s) : Append(s, e)[i] = s[i]
  BY AppendProperties, LenProperties
<1>2. ASSUME NEW i \in 1 .. Len(s) + 1 PROVE Append(s, e)[i] = n + i
  <2>1. CASE i = Len(s) + 1
    BY <2>1, <1>1
  <2>2. CASE i \in 1 .. Len(s)
    BY <2>2, <1>1 DEF Consecutive
  <2>3. QED
    BY <1>1, <2>1, <2>2
<1>3. QED
  BY <1>1, <1>2 DEF Consecutive

LEMMA CountTail ==
  ASSUME NEW n \in Nat, NEW s \in Seq(Nat), s # <<>>, Consecutive(s, n)
  PROVE  /\ Head(s) = n + 1 /\ Len(s) \in Nat \ {0}
         /\ Tail(s) \in Seq(Nat) /\ Len(Tail(s)) = Len(s) - 1
         /\ Consecutive(Tail(s), Head(s))
<1>1. /\ Len(s) \in Nat \ {0} /\ Head(s) = s[1]
      /\ Tail(s) \in Seq(Nat) /\ Len(Tail(s)) = Len(s) - 1
      /\ \A i \in 1 .. Len(Tail(s)) : Tail(s)[i] = s[i + 1]
  BY HeadTailProperties, EmptySeq, LenProperties
<1>2. 1 \in 1 .. Len(s)
  BY <1>1
<1>3. Head(s) = n + 1
  BY <1>1, <1>2 DEF Consecutive
<1>4. ASSUME NEW i \in 1 .. Len(Tail(s)) PROVE Tail(s)[i] = Head(s) + i
  <2>1. i + 1 \in 1 .. Len(s) /\ Tail(s)[i] = s[i + 1] /\ i \in Nat
    BY <1>1
  <2>2. s[i + 1] = n + (i + 1)
    BY <2>1 DEF Consecutive
  <2>3. QED
    BY <1>3, <2>1, <2>2
<1>5. QED
  BY <1>1, <1>3, <1>4 DEF Consecutive

\* The exposed event behind everything that was written may be written next.
LEMMA FaithfulAppend ==
  ASSUME NEW s \in Seq(Nat), NEW n \in Nat, NEW e \in 1 .. Len(log), Len(log) \in Nat,
         e = n + 1, log[e], Faithful(s), UpTo(s, n)
  PROVE  Faithful(Append(s, e)) /\ UpTo(Append(s, e), e)
<1> DEFINE a == Append(s, e)
           m == Len(s)
<1>1. m \in Nat /\ Len(a) = m + 1 /\ a[m + 1] = e /\ \A i \in 1 .. m : a[i] = s[i] /\ s[i] \in Nat
  BY AppendProperties, LenProperties, ElementOfSeq
<1> HIDE DEF a, m
<1>2. \A j \in 1 .. m : s[j] <= n /\ s[j] \in 1 .. Len(log) /\ log[s[j]]
  BY DEF Faithful, UpTo, m
<1>3. ASSUME NEW j \in 1 .. m + 1 PROVE j = m + 1 \/ j \in 1 .. m
  BY <1>1
<1>4. ASSUME NEW j \in 1 .. m + 1
      PROVE  a[j] \in 1 .. Len(log) /\ log[a[j]] /\ a[j] <= e
  <2>1. CASE j = m + 1
    BY <2>1, <1>1
  <2>2. CASE j \in 1 .. m
    BY <2>2, <1>1, <1>2
  <2>3. QED
    BY <1>3, <2>1, <2>2
<1>5. ASSUME NEW i \in 1 .. m + 1, NEW j \in 1 .. m + 1, i < j PROVE a[i] < a[j]
  <2>1. i \in 1 .. m
    BY <1>1, <1>5
  <2>2. CASE j = m + 1
    BY <2>1, <2>2, <1>1, <1>2
  <2>3. CASE j \in 1 .. m
    BY <2>1, <2>3, <1>1, <1>5 DEF Faithful, m
  <2>4. QED
    BY <1>3, <2>2, <2>3
<1>6. ASSUME NEW k \in 1 .. Len(log), k <= e, log[k] PROVE \E i \in 1 .. m + 1 : a[i] = k
  <2>1. CASE k = e
    <3>1. m + 1 \in 1 .. m + 1 /\ a[m + 1] = k
      BY <1>1, <2>1
    <3>2. QED
      BY <3>1
  <2>2. CASE k # e
    <3>1. PICK i \in 1 .. m : s[i] = k
      BY <1>6, <2>2 DEF UpTo, m
    <3>2. i \in 1 .. m + 1 /\ a[i] = k
      BY <3>1, <1>1
    <3>3. QED
      BY <3>2
  <2>3. QED
    BY <2>1, <2>2
<1>7. ASSUME NEW k \in 1 .. Len(log), NEW j \in 1 .. m + 1, log[k], k < a[j]
      PROVE  \E i \in 1 .. m + 1 : a[i] = k
  <2>1. k <= e
    BY <1>4, <1>7
  <2>2. QED
    BY <1>6, <1>7, <2>1
<1>8. Faithful(a)
  BY <1>1, <1>4, <1>5, <1>7 DEF Faithful
<1>9. UpTo(a, e)
  BY <1>1, <1>4, <1>6 DEF UpTo
<1>10. QED
  BY <1>8, <1>9 DEF a

\* Nothing is written at first.
LEMMA InitStream == Init => StreamInv
<1> SUFFICES ASSUME Init PROVE StreamInv
  OBVIOUS
<1>1. TypeInv
  BY StreamAssumption DEF Init, TypeInv, NoChannel, Stopped
<1>2. Len(Arriving) = 0
  BY DEF Init, Arriving
<1>3. QED
  <2>1. Holds(0)
    BY DEF Init, Holds, Consecutive, NoChannel
  <2>2. QED
    BY <1>1, <1>2, <2>1 DEF Init, StreamInv, Faithful, HandlerInv, ChannelInv, Stopped

\* What is received, and what is under way behind it.
LEMMA ArrivingParts ==
  ASSUME NEW s \in Seq(Nat), NEW t \in Seq(Nat)
  PROVE  /\ s \o t \in Seq(Nat)
         /\ Len(s \o t) = Len(s) + Len(t)
         /\ \A i \in 1 .. Len(s) + Len(t) :
              (s \o t)[i] = IF i <= Len(s) THEN s[i] ELSE t[i - Len(s)]
  BY ConcatProperties

\* Receiving a frame moves it and changes nothing in what arrives.
LEMMA ReceivingKeeps ==
  ASSUME NEW s \in Seq(Nat), NEW t \in Seq(Nat), t # <<>>
  PROVE  Append(s, Head(t)) \o Tail(t) = s \o t
<1>1. Head(t) \in Nat /\ Tail(t) \in Seq(Nat) /\ Len(Tail(t)) = Len(t) - 1
      /\ \A i \in 1 .. Len(Tail(t)) : Tail(t)[i] = t[i + 1]
  BY HeadTailProperties
<1>2. Append(s, Head(t)) \in Seq(Nat)
  BY <1>1
<1> DEFINE u == Append(s, Head(t)) \o Tail(t)
<1>3. u \in Seq(Nat) /\ Len(u) = Len(s) + Len(t)
  BY <1>1, <1>2, ArrivingParts
<1>4. \A i \in 1 .. Len(s) + Len(t) : u[i] = (s \o t)[i]
  BY <1>1, <1>2, ArrivingParts
<1>5. QED
  BY <1>3, <1>4, ArrivingParts, SeqEqual

-----------------------------------------------------------------------------
\* A new event is behind everything that has been written.
LEMMA CommitKeeps ==
  ASSUME StreamInv, NEW exposed \in BOOLEAN, Commit(exposed)
  PROVE  StreamInv'
<1> USE DEF StreamInv
<1>1. /\ log' \in Seq(BOOLEAN) /\ Len(log') = Len(log) + 1
      /\ \A i \in 1 .. Len(log) : log'[i] = log[i]
  BY AppendProperties DEF Commit, TypeInv
<1>2. TypeInv' /\ Arriving' = Arriving
  BY <1>1 DEF Commit, TypeInv, Arriving
<1>3. Arriving \in Seq(Nat) /\ Len(Arriving) \in Nat /\ Len(log) \in Nat
  BY ArrivingParts DEF TypeInv, Arriving
<1>4. \A j \in 1 .. Len(Arriving) : Arriving[j] \in 1 .. Len(log)
  BY DEF Faithful
<1>5. Faithful(Arriving)'
  <2>1. \A j \in 1 .. Len(Arriving) : Arriving[j] \in 1 .. Len(log') /\ log'[Arriving[j]]
    BY <1>1, <1>3, <1>4 DEF Faithful
  <2>2. \A id \in 1 .. Len(log'), j \in 1 .. Len(Arriving) :
          log'[id] /\ id < Arriving[j] => \E i \in 1 .. Len(Arriving) : Arriving[i] = id
    <3> SUFFICES ASSUME NEW id \in 1 .. Len(log'), NEW j \in 1 .. Len(Arriving), log'[id], id < Arriving[j]
                 PROVE  \E i \in 1 .. Len(Arriving) : Arriving[i] = id
      OBVIOUS
    <3>1. id \in 1 .. Len(log) /\ log[id]
      BY <1>1, <1>3, <1>4
    <3>2. QED
      BY <3>1 DEF Faithful
  <2>3. QED
    BY <1>2, <2>1, <2>2 DEF Faithful
<1>6. HandlerInv'
  BY <1>1, <1>2, <1>3 DEF Commit, HandlerInv, UpTo, TypeInv
<1>7. ChannelInv'
  BY DEF Commit, ChannelInv, Holds
<1>8. QED
  BY <1>2, <1>5, <1>6, <1>7

\* A published event goes to the end of the queue, or closes the channel.
LEMMA PublishKeeps ==
  ASSUME StreamInv, Publish
  PROVE  StreamInv'
<1> USE DEF StreamInv
<1> DEFINE q == channel.queue
<1>1. q \in Seq(Nat) /\ Len(q) \in Nat /\ published' \in Nat
  BY DEF TypeInv, Publish
<1>2. TypeInv'
  <2>1. published' <= Len(log) /\ Append(q, published') \in Seq(Nat)
    BY <1>1, AppendProperties DEF Publish, TypeInv
  <2>2. channel' \in [state : {"none", "open", "closed"}, queue : Seq(Nat)]
    BY <1>1, <2>1 DEF Publish, TypeInv
  <2>3. QED
    BY <1>1, <2>1, <2>2 DEF Publish, TypeInv
<1>3. Arriving' = Arriving
  BY DEF Publish, Arriving
<1>4. Faithful(Arriving)' /\ HandlerInv'
  BY <1>3 DEF Publish, Faithful, HandlerInv, UpTo
<1>5. PICK n \in Nat : /\ Holds(n)
                       /\ handler.pc \in {"replaying", "live"} => n <= handler.lastID + Len(handler.replay)
  BY DEF ChannelInv
<1>6. /\ n + Len(q) <= published /\ Consecutive(q, n)
      /\ channel.state = "open" => n + Len(q) = published
  BY <1>5 DEF Holds
<1>7. published' = published + 1 /\ UNCHANGED <<log, handler>> /\ published \in Nat
  BY DEF Publish, TypeInv
<1>8. \/ channel'.queue = q /\ channel'.state # "open"
      \/ channel'.queue = Append(q, published') /\ channel.state = "open"
  BY DEF Publish, TypeInv
<1> HIDE DEF q
<1>9. Holds(n)'
  <2>1. CASE channel'.queue = q /\ channel'.state # "open"
    <3>1. n + Len(q) <= published'
      BY <1>1, <1>6, <1>7
    <3>2. QED
      BY <2>1, <3>1, <1>6 DEF Holds
  <2>2. CASE channel'.queue = Append(q, published') /\ channel.state = "open"
    <3>1. published' = n + Len(q) + 1 /\ published' = n + (Len(q) + 1)
      BY <2>2, <1>1, <1>6, <1>7
    <3>2. Len(Append(q, published')) = Len(q) + 1 /\ Consecutive(Append(q, published'), n)
      BY <3>1, <1>1, <1>6, CountOn
    <3>3. Len(channel'.queue) = Len(q) + 1 /\ Consecutive(channel'.queue, n)
      BY <2>2, <3>2
    <3>4. n + Len(channel'.queue) = published'
      BY <3>1, <3>3
    <3>5. QED
      BY <3>3, <3>4, <1>1 DEF Holds
  <2>3. QED
    BY <1>8, <2>1, <2>2
<1>10. ChannelInv'
  BY <1>5, <1>7, <1>9 DEF ChannelInv
<1>11. QED
  BY <1>2, <1>4, <1>10

\* The client has everything up to the last frame it received.
LEMMA ConnectKeeps ==
  ASSUME StreamInv, Connect
  PROVE  StreamInv'
<1> USE DEF StreamInv
<1>1. Arriving = received /\ Arriving' = Arriving
  BY ConcatEmptySeq DEF TypeInv, Connect, Arriving
<1>2. handler'.lastID \in Nat /\ handler'.lastID <= Len(log) /\ UpTo(received, handler'.lastID)
  <2>1. CASE received = <<>>
    BY <2>1 DEF Connect, TypeInv, UpTo
  <2>2. CASE received # <<>>
    <3>1. Len(received) \in Nat \ {0} /\ handler'.lastID = received[Len(received)]
      BY <2>2, EmptySeq DEF Connect, TypeInv, Last
    <3> DEFINE n == Len(received)
    <3>2. /\ received[n] \in 1 .. Len(log) /\ Len(log) \in Nat
          /\ \A j \in 1 .. n : received[j] \in Nat
          /\ \A i, j \in 1 .. n : i < j => received[i] < received[j]
      BY <3>1, <1>1, ElementOfSeq DEF TypeInv, Faithful
    <3>3. \A j \in 1 .. n : received[j] <= received[n]
      BY <3>1, <3>2
    <3>4. \A id \in 1 .. Len(log) : id <= received[n] /\ log[id] => \E i \in 1 .. n : received[i] = id
      BY <3>1, <3>2, <1>1 DEF Faithful
    <3>5. QED
      BY <3>1, <3>2, <3>3, <3>4 DEF UpTo
  <2>3. QED
    BY <2>1, <2>2
<1>3. TypeInv'
  BY <1>2 DEF Connect, TypeInv
<1>4. Holds(published)'
  BY DEF Connect, Holds, Consecutive, TypeInv
<1>5. ChannelInv'
  BY <1>4 DEF Connect, ChannelInv, TypeInv
<1>6. QED
  BY <1>1, <1>2, <1>3, <1>5 DEF Connect, Faithful, UpTo, HandlerInv

\* The replay starts behind lastID and ends with the log.
LEMMA ReplayKeeps ==
  ASSUME StreamInv, Replay
  PROVE  StreamInv'
<1> USE DEF StreamInv
<1> DEFINE n == Len(log) - handler.lastID
<1>1. n \in Nat
  BY DEF Replay, TypeInv, HandlerInv
<1>2. /\ handler'.replay \in Seq(Nat) /\ Len(handler'.replay) = n
      /\ \A i \in 1 .. n : handler'.replay[i] = handler.lastID + i
  <2>1. handler'.replay = [i \in 1 .. n |-> handler.lastID + i]
    BY DEF Replay, TypeInv
  <2>2. \A i \in 1 .. n : handler.lastID + i \in Nat
    BY <1>1 DEF TypeInv
  <2> HIDE DEF n
  <2>3. [i \in 1 .. n |-> handler.lastID + i] \in Seq(Nat)
    BY <1>1, <2>2, IsASeq
  <2>4. QED
    BY <1>1, <2>1, <2>3, LenProperties
<1>3. handler'.lastID = handler.lastID /\ handler'.pc = "replaying"
  BY DEF Replay, TypeInv
<1>4. TypeInv' /\ Arriving' = Arriving
  BY <1>2 DEF Replay, TypeInv, Arriving
<1>5. Faithful(Arriving)'
  BY <1>4 DEF Replay, Faithful
<1>6. HandlerInv'
  BY <1>1, <1>2, <1>3, <1>4 DEF Replay, HandlerInv, UpTo, TypeInv, Consecutive
<1>7. ChannelInv'
  <2>1. PICK k \in Nat : Holds(k)
    BY DEF ChannelInv
  <2>2. Holds(k)'
    BY <2>1 DEF Holds, Replay
  <2>3. handler'.lastID + Len(handler'.replay) = Len(log)
    BY <1>1, <1>2, <1>3 DEF TypeInv
  <2>4. k <= Len(log)
    BY <2>1 DEF Holds, TypeInv
  <2>5. QED
    BY <2>2, <2>3, <2>4 DEF ChannelInv
<1>8. QED
  BY <1>4, <1>5, <1>6, <1>7

\* An event that is the next one of the log, or is not exposed, or was written
\* before, keeps what arrives up to date.
LEMMA WriteFrameKeeps ==
  ASSUME StreamInv, NEW id \in 1 .. Len(log), id = handler.lastID + 1,
         handler.pc # "stopped", WriteFrame(id), UNCHANGED <<log, received>>
  PROVE  /\ wire' \in Seq(Nat)
         /\ Faithful(Arriving)'
         /\ UpTo(Arriving', id)
<1> USE DEF StreamInv
<1>1. /\ Arriving \in Seq(Nat) /\ Len(Arriving) \in Nat /\ Len(log) \in Nat
      /\ UpTo(Arriving, handler.lastID) /\ Faithful(Arriving) /\ handler.lastID \in Nat
  BY ArrivingParts DEF TypeInv, Arriving, HandlerInv
<1>2. CASE ~log[id]
  <2>1. wire' = wire /\ Arriving' = Arriving
    BY <1>2 DEF WriteFrame, Arriving
  <2>2. UpTo(Arriving, id)
    <3>1. \A j \in 1 .. Len(Arriving) : Arriving[j] \in Nat /\ Arriving[j] <= id
      BY <1>1, ElementOfSeq DEF UpTo
    <3>2. \A k \in 1 .. Len(log) : k <= id /\ log[k] => k <= handler.lastID
      BY <1>1, <1>2
    <3>3. QED
      BY <1>1, <3>1, <3>2 DEF UpTo
  <2>3. QED
    BY <2>1, <2>2, <1>1 DEF TypeInv, Faithful
<1>3. CASE log[id]
  <2>1. wire' = Append(wire, id) /\ wire' \in Seq(Nat)
    BY <1>3, AppendProperties DEF WriteFrame, TypeInv
  <2>2. Arriving' = Append(Arriving, id)
    <3>1. wire \in Seq(Nat) /\ received \in Seq(Nat) /\ id \in Nat /\ <<id>> \in Seq(Nat)
      BY <1>1 DEF TypeInv
    <3>2. Append(wire, id) = wire \o <<id>> /\ Append(Arriving, id) = Arriving \o <<id>>
      BY <1>1, <3>1, AppendIsConcat
    <3>3. Arriving' = received \o (wire \o <<id>>)
      BY <2>1, <3>2 DEF Arriving
    <3>4. received \o (wire \o <<id>>) = (received \o wire) \o <<id>>
      BY <3>1, ConcatAssociative
    <3>5. QED
      BY <3>2, <3>3, <3>4 DEF Arriving
  <2>3. Faithful(Append(Arriving, id)) /\ UpTo(Append(Arriving, id), id)
    BY <1>1, <1>3, FaithfulAppend
  <2>4. QED
    BY <2>1, <2>2, <2>3 DEF Faithful, UpTo
<1>4. QED
  BY <1>2, <1>3 DEF TypeInv

\* The replay is written in order.
LEMMA WriteReplayKeeps ==
  ASSUME StreamInv, WriteReplay
  PROVE  StreamInv'
<1> USE DEF StreamInv
<1> DEFINE r == handler.replay
<1>1. /\ r \in Seq(Nat) /\ handler.lastID \in Nat /\ Len(r) \in Nat /\ Len(log) \in Nat
      /\ handler.pc = "replaying" /\ UNCHANGED <<log, published, channel, received>>
  BY DEF TypeInv, WriteReplay
<1>2. CASE r = <<>>
  <2>1. handler'.pc = "live" /\ handler'.replay = r /\ handler'.lastID = handler.lastID /\ Len(r) = 0
        /\ UNCHANGED wire
    BY <1>2 DEF WriteReplay, TypeInv
  <2>2. TypeInv' /\ Arriving' = Arriving
    BY <1>1, <1>2 DEF WriteReplay, TypeInv, Arriving
  <2>3. Faithful(Arriving)' /\ HandlerInv' /\ ChannelInv'
    BY <1>1, <2>1, <2>2 DEF Faithful, HandlerInv, UpTo, ChannelInv, Holds
  <2>4. QED
    BY <2>2, <2>3
<1>3. CASE r # <<>>
  <2> DEFINE id == Head(r)
             t == Tail(r)
  <2>1. Consecutive(r, handler.lastID) /\ handler.lastID + Len(r) <= Len(log)
    BY <1>1 DEF HandlerInv
  <2>2. /\ id = handler.lastID + 1 /\ t \in Seq(Nat) /\ Len(t) = Len(r) - 1
        /\ Len(r) \in Nat \ {0} /\ Consecutive(t, id)
    BY <1>1, <1>3, <2>1, CountTail
  <2>3. handler' = [handler EXCEPT !.replay = t, !.lastID = id] /\ WriteFrame(id)
    BY <1>3 DEF WriteReplay
  <2> HIDE DEF id, t, r
  <2>4. id \in 1 .. Len(log) /\ id + Len(t) = handler.lastID + Len(r) /\ id \in Nat
    <3>1. id = handler.lastID + 1 /\ Len(t) = Len(r) - 1 /\ Len(r) \in Nat \ {0}
      BY <2>2
    <3>2. handler.lastID + Len(r) <= Len(log) /\ handler.lastID \in Nat /\ Len(log) \in Nat
      BY <1>1, <2>1
    <3>3. QED
      BY <3>1, <3>2
  <2>5. wire' \in Seq(Nat) /\ Faithful(Arriving)' /\ UpTo(Arriving', id)
    BY <1>1, <2>2, <2>3, <2>4, WriteFrameKeeps
  <2>6. handler'.pc = "replaying" /\ handler'.replay = t /\ handler'.lastID = id
    BY <1>1, <2>3 DEF TypeInv
  <2>7. TypeInv'
    BY <1>1, <2>2, <2>3, <2>4, <2>5 DEF TypeInv
  <2>8. HandlerInv'
    <3>1. UpTo(Arriving, handler.lastID)'
      BY <1>1, <2>5, <2>6 DEF UpTo
    <3>2. id <= Len(log) /\ id + Len(t) <= Len(log)
      BY <2>1, <2>4
    <3>3. QED
      BY <1>1, <2>2, <2>6, <3>1, <3>2 DEF HandlerInv
  <2>9. ChannelInv'
    BY <1>1, <2>4, <2>6 DEF ChannelInv, Holds, r
  <2>10. QED
    BY <2>5, <2>7, <2>8, <2>9
<1>4. QED
  BY <1>2, <1>3

\* A live event is the next one, or was replayed.
LEMMA WriteLiveKeeps ==
  ASSUME StreamInv, WriteLive
  PROVE  StreamInv'
<1> USE DEF StreamInv
<1> DEFINE q == channel.queue
           id == Head(q)
           t == Tail(q)
<1>1. /\ q \in Seq(Nat) /\ q # <<>> /\ handler.lastID \in Nat /\ Len(log) \in Nat
      /\ Len(handler.replay) = 0 /\ handler.pc = "live" /\ published \in Nat /\ published <= Len(log)
      /\ UNCHANGED <<log, published, received>>
  BY DEF TypeInv, WriteLive, HandlerInv
<1>2. PICK n \in Nat : Holds(n) /\ n <= handler.lastID
  BY <1>1 DEF ChannelInv
<1>3. /\ id = n + 1 /\ t \in Seq(Nat) /\ Len(t) = Len(q) - 1
      /\ Len(q) \in Nat \ {0} /\ Consecutive(t, id)
  BY <1>1, <1>2, CountTail DEF Holds
<1>4. channel' = [channel EXCEPT !.queue = t] /\ channel'.queue = t
      /\ channel'.state = channel.state
  BY DEF WriteLive, TypeInv
<1>5. /\ id <= handler.lastID => UNCHANGED <<wire, handler>>
      /\ ~(id <= handler.lastID) => WriteFrame(id) /\ handler' = [handler EXCEPT !.lastID = id]
  BY DEF WriteLive
<1>6. /\ n + Len(q) <= published
      /\ channel.state = "open" => n + Len(q) = published
  BY <1>2 DEF Holds
<1> HIDE DEF q, id, t
<1>7. id \in Nat /\ id + Len(t) = n + Len(q)
  BY <1>3
<1>8. Holds(n + 1)' /\ n + 1 \in Nat
  <2>1. (n + 1) + Len(t) = n + Len(q) /\ n + 1 \in Nat
    BY <1>3, <1>7
  <2>2. Consecutive(channel'.queue, n + 1) /\ (n + 1) + Len(channel'.queue) = n + Len(q)
    BY <1>3, <1>4, <2>1
  <2>3. QED
    BY <1>1, <1>4, <1>6, <2>1, <2>2 DEF Holds
<1>9. id \in 1 .. Len(log) /\ id <= handler.lastID + 1
  BY <1>1, <1>2, <1>3, <1>6
<1>10. CASE id <= handler.lastID
  <2>1. UNCHANGED <<wire, handler>> /\ Arriving' = Arriving
    BY <1>1, <1>5, <1>10 DEF Arriving
  <2>2. TypeInv'
    BY <2>1, <1>1, <1>3, <1>4 DEF TypeInv
  <2>3. ChannelInv'
    <3>1. n + 1 <= (handler.lastID + Len(handler.replay))'
      BY <2>1, <1>1, <1>3, <1>7, <1>10
    <3>2. QED
      BY <3>1, <1>8 DEF ChannelInv
  <2>4. QED
    BY <2>1, <2>2, <2>3, <1>1 DEF Faithful, HandlerInv, UpTo
<1>11. CASE ~(id <= handler.lastID)
  <2>1. handler' = [handler EXCEPT !.lastID = id] /\ WriteFrame(id)
    BY <1>5, <1>11
  <2>2. id = handler.lastID + 1
    BY <1>1, <1>7, <1>9, <1>11
  <2>3. wire' \in Seq(Nat) /\ Faithful(Arriving)' /\ UpTo(Arriving', id)
    BY <1>1, <1>9, <2>1, <2>2, WriteFrameKeeps
  <2>4. handler'.lastID = id /\ handler'.pc = "live" /\ handler'.replay = handler.replay
    BY <2>1, <1>1 DEF TypeInv
  <2>5. TypeInv'
    BY <2>1, <2>3, <1>1, <1>3, <1>4, <1>7 DEF TypeInv
  <2>6. HandlerInv'
    BY <2>3, <2>4, <1>1, <1>9 DEF HandlerInv, UpTo
  <2>7. ChannelInv'
    <3>1. n + 1 <= (handler.lastID + Len(handler.replay))'
      BY <2>4, <1>1, <1>3, <1>7
    <3>2. QED
      BY <3>1, <1>8 DEF ChannelInv
  <2>8. QED
    BY <2>3, <2>5, <2>6, <2>7
<1>12. QED
  BY <1>10, <1>11

\* A frame that is received still arrives; a frame that is lost was the last.
LEMMA ReceiveKeeps ==
  ASSUME StreamInv, Receive
  PROVE  StreamInv'
<1> USE DEF StreamInv
<1>1. Arriving' = Arriving
  BY ReceivingKeeps DEF Receive, Arriving, TypeInv
<1>2. TypeInv'
  BY HeadTailProperties, AppendProperties DEF Receive, TypeInv
<1>3. QED
  BY <1>1, <1>2 DEF Receive, Faithful, HandlerInv, UpTo, ChannelInv, Holds

LEMMA BreakKeeps ==
  ASSUME StreamInv, Break
  PROVE  StreamInv'
<1> USE DEF StreamInv
<1>1. Arriving' = received /\ received \in Seq(Nat) /\ Len(received) \in Nat
  BY ConcatEmptySeq DEF Break, Arriving, TypeInv
<1>2. Len(received) <= Len(Arriving) /\ Len(Arriving) \in Nat
      /\ \A i \in 1 .. Len(received) : received[i] = Arriving[i]
  BY ArrivingParts DEF Arriving, TypeInv
<1>3. Faithful(received)
  <2> DEFINE a == Arriving
             n == Len(received)
  <2>1. \A j \in 1 .. n : j \in 1 .. Len(a) /\ a[j] \in 1 .. Len(log)
    BY <1>1, <1>2 DEF Faithful
  <2>2. ASSUME NEW k \in 1 .. Len(log), NEW j \in 1 .. n, log[k], k < received[j]
        PROVE  \E i \in 1 .. n : received[i] = k
    <3>1. j \in 1 .. Len(a) /\ k < a[j]
      BY <2>1, <2>2, <1>2
    <3>2. PICK i \in 1 .. Len(a) : a[i] = k
      BY <3>1, <2>2 DEF Faithful
    <3>3. ~(j < i) /\ i # j
      BY <3>1, <3>2, <2>1 DEF Faithful
    <3>4. i \in 1 .. n
      BY <3>3, <1>1, <1>2
    <3>5. QED
      BY <3>2, <3>4, <1>2
  <2>3. /\ \A j \in 1 .. n : received[j] \in 1 .. Len(log) /\ log[received[j]]
        /\ \A i, j \in 1 .. n : i < j => received[i] < received[j]
    BY <1>2, <2>1 DEF Faithful
  <2>4. QED
    BY <2>2, <2>3 DEF Faithful
<1>4. Faithful(Arriving)'
  BY <1>1, <1>3 DEF Break, Faithful
<1>5. Holds(0)'
  BY DEF Break, NoChannel, Holds, Consecutive, TypeInv
<1>6. QED
  BY <1>4, <1>5 DEF Break, TypeInv, HandlerInv, ChannelInv, NoChannel, Stopped

LEMMA EndResponseKeeps ==
  ASSUME StreamInv, EndResponse
  PROVE  StreamInv'
<1>1. Holds(0)'
  BY DEF StreamInv, EndResponse, NoChannel, Holds, Consecutive, TypeInv
<1>2. QED
  BY <1>1 DEF StreamInv, EndResponse, TypeInv, Arriving, Faithful, HandlerInv, ChannelInv,
              NoChannel, Stopped

-----------------------------------------------------------------------------
LEMMA StepStream == StreamInv /\ [Next]_vars => StreamInv'
<1> SUFFICES ASSUME StreamInv, [Next]_vars PROVE StreamInv'
  OBVIOUS
<1>1. ASSUME NEW exposed \in BOOLEAN, Commit(exposed) PROVE StreamInv'
  BY <1>1, CommitKeeps
<1>2. CASE Publish
  BY <1>2, PublishKeeps
<1>3. CASE Connect
  BY <1>3, ConnectKeeps
<1>4. CASE Handle
  BY <1>4, ReplayKeeps, WriteReplayKeeps, WriteLiveKeeps, EndResponseKeeps DEF Handle
<1>5. CASE Receive
  BY <1>5, ReceiveKeeps
<1>6. CASE Break
  BY <1>6, BreakKeeps
<1>7. CASE UNCHANGED vars
  BY <1>7 DEF vars, StreamInv, TypeInv, Arriving, Faithful, UpTo, HandlerInv, ChannelInv, Holds
<1>8. QED
  BY <1>1, <1>2, <1>3, <1>4, <1>5, <1>6, <1>7 DEF Next

\* The inductive invariant: what has arrived, what the handler has replayed
\* and what the channel holds follow one another without a gap.
THEOREM StreamInvariant == Spec => []StreamInv
  BY InitStream, StepStream, PTL DEF Spec

\* The client's view has no gap and no repetition (ledgerAPI.events and the
\* subscription of operations.Store).
THEOREM NeverAGap == Spec => []NoGapNoRepeat
<1>1. StreamInv => NoGapNoRepeat
  <2> SUFFICES ASSUME StreamInv PROVE NoGapNoRepeat
    OBVIOUS
  <2>1. DOMAIN Arriving = 1 .. Len(Arriving) /\ DOMAIN log = 1 .. Len(log)
    BY ArrivingParts, LenProperties DEF StreamInv, TypeInv, Arriving
  <2>2. QED
    BY <2>1 DEF StreamInv, Faithful, NoGapNoRepeat
<1>2. QED
  BY <1>1, StreamInvariant, PTL

\* A connection that has gone quiet has delivered every exposed event.
THEOREM QuietMeansCurrent == Spec => []QuietIsCurrent
<1>1. StreamInv => QuietIsCurrent
  <2> SUFFICES ASSUME StreamInv, handler.pc = "live", published = Len(log), wire = <<>>,
                      channel = [state |-> "open", queue |-> <<>>]
               PROVE  {received[j] : j \in DOMAIN received} = {id \in DOMAIN log : log[id]}
    BY DEF QuietIsCurrent
  <2>1. Arriving = received
    BY ConcatEmptySeq DEF Arriving, StreamInv, TypeInv
  <2>2. DOMAIN received = 1 .. Len(received) /\ DOMAIN log = 1 .. Len(log)
    BY LenProperties DEF StreamInv, TypeInv
  <2>3. handler.lastID = Len(log)
    BY EmptySeq DEF StreamInv, TypeInv, HandlerInv, ChannelInv, Holds
  <2>4. /\ \A j \in 1 .. Len(received) : received[j] \in 1 .. Len(log) /\ log[received[j]]
        /\ \A id \in 1 .. Len(log) : log[id] => \E j \in 1 .. Len(received) : received[j] = id
    BY <2>1, <2>3 DEF StreamInv, TypeInv, HandlerInv, Faithful, UpTo
  <2>5. QED
    BY <2>2, <2>4
<1>2. QED
  BY <1>1, StreamInvariant, PTL
=============================================================================
