-------------------------- MODULE HandshakeProofs --------------------------
(***************************************************************************)
(* Proofs about HostHandshake, for any number of delivery threads and      *)
(* whether or not the timeout outlasts what is under way.                  *)
(***************************************************************************)
EXTENDS HostHandshake, FiniteSetTheorems, TLAPS

LEMMA Peers ==
  \A s \in Sides : Peer(s) \in Sides /\ Peer(s) # s /\ Peer(Peer(s)) = s
  BY DEF Sides, Peer

LEMMA NoneLeft == \A a, b \in Nat : a = 0 /\ (b > 0 => a > 0) => b = 0
  OBVIOUS

\* Every change of the state is one of these.
LEMMA NextCases ==
  ASSUME [Next]_vars
  PROVE  \/ Connect \/ Disconnect \/ CallGetDevice \/ CallFails
         \/ \E s \in Sides :
              \/ Construct(s) \/ AddResponder(s) \/ AddReplyListener(s)
              \/ SendHandshake(s) \/ SendHandshakeFails(s) \/ Wait(s) \/ WaitTimeout(s)
              \/ RemoveResponder(s) \/ CheckReply(s) \/ RegisterConnection(s)
              \/ Receive(s) \/ FireClosed(s)
              \/ Answer(s) \/ StoreReply(s) \/ Notify(s) \/ Invoke(s) \/ Release(s) \/ Result(s)
         \/ UNCHANGED vars
  BY DEF Next, SetUp, Deliver

Types ==
  /\ pc \in [Sides -> Locations]
  /\ listeners \in [Sides -> SUBSET {"responder", "reply", "invoke"}]
  /\ channel \in [Sides -> Seq(Messages)]
  /\ threads \in [Sides -> [Threads -> 0 .. MaxThreads]]
  /\ reply \in [Sides -> BOOLEAN]
  /\ receiving \in SUBSET Sides
  /\ expected \in BOOLEAN
  /\ open \in BOOLEAN

LEMMA TypesInit == Init => Types
<1> SUFFICES ASSUME Init PROVE Types
  OBVIOUS
<1>1. 0 \in 0 .. MaxThreads
  BY HandshakeAssumption
<1>2. threads \in [Sides -> [Threads -> 0 .. MaxThreads]]
  BY <1>1 DEF Init
<1>3. channel \in [Sides -> Seq(Messages)]
  BY DEF Init
<1> QED
  BY <1>2, <1>3 DEF Init, Types, Locations

LEMMA PutTypes ==
  ASSUME Types, NEW s \in Sides, NEW m \in Messages, Put(s, m)
  PROVE  channel' \in [Sides -> Seq(Messages)]
  BY Peers DEF Types, Put

LEMMA RunsTypes ==
  ASSUME Types, NEW s \in Sides, NEW t \in Threads, Runs(s, t)
  PROVE  threads' \in [Sides -> [Threads -> 0 .. MaxThreads]]
<1>1. threads[s] \in [Threads -> 0 .. MaxThreads] /\ threads[s][t] \in 0 .. MaxThreads
  BY DEF Types
<1>2. threads[s][t] - 1 \in 0 .. MaxThreads
  BY <1>1, HandshakeAssumption DEF Runs
<1>3. [threads[s] EXCEPT ![t] = @ - 1] \in [Threads -> 0 .. MaxThreads]
  BY <1>1, <1>2
<1> QED
  BY <1>1, <1>3 DEF Types, Runs

LEMMA TypesNext == Types /\ [Next]_vars => Types'
<1> SUFFICES ASSUME Types, [Next]_vars PROVE Types'
  OBVIOUS
<1>1. CASE Connect
  BY <1>1 DEF Types, Connect, Locations
<1>12. CASE Disconnect
  <2>1. <<>> \in Seq(Messages)
    OBVIOUS
  <2>2. channel' \in [Sides -> Seq(Messages)]
    BY <1>12, <2>1 DEF Disconnect
  <2> QED
    BY <1>12, <2>2 DEF Types, Disconnect
<1>2. CASE CallGetDevice
  <2>1. channel' \in [Sides -> Seq(Messages)]
    BY <1>2, PutTypes DEF CallGetDevice, Sides, Messages
  <2> QED
    BY <1>2, <2>1 DEF Types, CallGetDevice, Goto, Locations
<1>3. CASE CallFails
  BY <1>3 DEF Types, CallFails, Goto, Locations
<1>4. ASSUME NEW s \in Sides,
             \/ Construct(s) \/ AddResponder(s) \/ AddReplyListener(s)
             \/ SendHandshakeFails(s) \/ Wait(s) \/ WaitTimeout(s)
             \/ RemoveResponder(s) \/ CheckReply(s) \/ RegisterConnection(s)
      PROVE  Types'
  <2>1. pc' \in [Sides -> Locations]
    BY <1>4 DEF Types, Locations, Goto, Fails, Construct, AddResponder, AddReplyListener,
                SendHandshakeFails, Wait, WaitTimeout, RemoveResponder, CheckReply,
                RegisterConnection
  <2>2. listeners' \in [Sides -> SUBSET {"responder", "reply", "invoke"}]
    <3>1. \/ UNCHANGED listeners
          \/ \E l \in {"responder", "reply", "invoke"} :
               listeners' = [listeners EXCEPT ![s] = @ \cup {l}]
          \/ listeners' = [listeners EXCEPT ![s] = @ \ {"responder"}]
      BY <1>4 DEF Construct, AddResponder, AddReplyListener, SendHandshakeFails, Wait,
                  WaitTimeout, RemoveResponder, CheckReply, RegisterConnection
    <3> DEFINE all == {"responder", "reply", "invoke"}
    <3>2. listeners \in [Sides -> SUBSET all]
      BY DEF Types
    <3>3. ASSUME NEW l \in all, listeners' = [listeners EXCEPT ![s] = @ \cup {l}]
          PROVE  listeners' \in [Sides -> SUBSET all]
      <4>1. listeners[s] \cup {l} \in SUBSET all
        BY <3>2
      <4> HIDE DEF all
      <4> QED
        BY <3>2, <3>3, <4>1
    <3>4. ASSUME listeners' = [listeners EXCEPT ![s] = @ \ {"responder"}]
          PROVE  listeners' \in [Sides -> SUBSET all]
      <4>1. listeners[s] \ {"responder"} \in SUBSET all
        BY <3>2
      <4> HIDE DEF all
      <4> QED
        BY <3>2, <3>4, <4>1
    <3> QED
      BY <3>1, <3>2, <3>3, <3>4
  <2>3. UNCHANGED <<channel, threads, reply, expected, open>> /\ receiving' \in SUBSET Sides
    BY <1>4 DEF Types, Construct, AddResponder, AddReplyListener, SendHandshakeFails, Wait,
                WaitTimeout, RemoveResponder, CheckReply, RegisterConnection
  <2> QED
    BY <2>1, <2>2, <2>3 DEF Types
<1>5. ASSUME NEW s \in Sides, SendHandshake(s) PROVE Types'
  <2>1. channel' \in [Sides -> Seq(Messages)]
    BY <1>5, PutTypes DEF SendHandshake, Messages
  <2> QED
    BY <1>5, <2>1 DEF Types, SendHandshake, Goto, Locations
<1>6. ASSUME NEW s \in Sides, Receive(s) PROVE Types'
  <2> DEFINE spawned == Spawned(s, Head(channel[s]))
             n == [t \in Threads |-> threads[s][t] + IF t \in spawned THEN 1 ELSE 0]
  <2>1. \A t \in spawned : threads[s][t] < MaxThreads
    BY <1>6 DEF Receive
  <2>2. threads[s] \in [Threads -> 0 .. MaxThreads]
    BY DEF Types
  <2>3. n \in [Threads -> 0 .. MaxThreads]
    <3> HIDE DEF spawned
    <3> QED
      BY <2>1, <2>2, HandshakeAssumption
  <2>4. threads' = [threads EXCEPT ![s] = n]
    BY <1>6 DEF Receive
  <2>5. threads' \in [Sides -> [Threads -> 0 .. MaxThreads]]
    BY <2>3, <2>4 DEF Types
  <2>6. Tail(channel[s]) \in Seq(Messages)
    BY <1>6 DEF Receive, Types
  <2> QED
    BY <1>6, <2>5, <2>6 DEF Receive, Types
<1>7. ASSUME NEW s \in Sides, Answer(s) PROVE Types'
  <2>1. channel' \in [Sides -> Seq(Messages)]
    BY <1>7, PutTypes DEF Answer, Messages, Types
  <2>2. threads' \in [Sides -> [Threads -> 0 .. MaxThreads]]
    BY <1>7, RunsTypes DEF Answer, Threads
  <2> QED
    BY <1>7, <2>1, <2>2 DEF Types, Answer
<1>8. ASSUME NEW s \in Sides, StoreReply(s) PROVE Types'
  <2>1. threads[s] \in [Threads -> 0 .. MaxThreads] /\ {"store", "notify"} \subseteq Threads
    BY DEF Types, Threads
  <2>2. /\ threads[s]["store"] - 1 \in 0 .. MaxThreads
        /\ threads[s]["notify"] + 1 \in 0 .. MaxThreads
    BY <1>8, <2>1, HandshakeAssumption DEF StoreReply
  <2>3. threads' = [threads EXCEPT ![s] = [threads[s] EXCEPT !["store"] = @ - 1,
                                                             !["notify"] = @ + 1]]
    BY <1>8, <2>1 DEF StoreReply, Types
  <2>4. threads' \in [Sides -> [Threads -> 0 .. MaxThreads]]
    BY <2>1, <2>2, <2>3 DEF Types
  <2> QED
    BY <1>8, <2>4 DEF Types, StoreReply
<1>9. ASSUME NEW s \in Sides, Notify(s) \/ Result(s) PROVE Types'
  <2>1. threads' \in [Sides -> [Threads -> 0 .. MaxThreads]]
    BY <1>9, RunsTypes DEF Notify, Result, Threads
  <2> QED
    BY <1>9, <2>1 DEF Types, Notify, Result, Goto, Locations
<1>10. ASSUME NEW s \in Sides, Invoke(s) PROVE Types'
  <2>1. channel' \in [Sides -> Seq(Messages)]
    BY <1>10, PutTypes DEF Invoke, Messages, Types
  <2>2. threads' \in [Sides -> [Threads -> 0 .. MaxThreads]]
    BY <1>10, RunsTypes DEF Invoke, Threads
  <2> QED
    BY <1>10, <2>1, <2>2 DEF Types, Invoke
<1>11. CASE UNCHANGED vars
  BY <1>11 DEF Types, vars
<1>13. ASSUME NEW s \in Sides, FireClosed(s) PROVE Types'
  <2>1. 1 \in 0 .. MaxThreads /\ "release" \in Threads
    BY HandshakeAssumption DEF Threads
  <2>2. threads' \in [Sides -> [Threads -> 0 .. MaxThreads]]
    <3>1. \/ UNCHANGED threads
          \/ threads' = [threads EXCEPT ![s] = [threads[s] EXCEPT !["release"] = 1]]
      BY <1>13 DEF FireClosed
    <3>2. threads[s] \in [Threads -> 0 .. MaxThreads]
      BY DEF Types
    <3>3. [threads[s] EXCEPT !["release"] = 1] \in [Threads -> 0 .. MaxThreads]
      BY <2>1, <3>2
    <3> QED
      BY <3>1, <3>3 DEF Types
  <2> QED
    BY <1>13, <2>2 DEF Types, FireClosed
<1>14. ASSUME NEW s \in Sides, Release(s) PROVE Types'
  <2>1. threads' \in [Sides -> [Threads -> 0 .. MaxThreads]]
    BY <1>14, RunsTypes DEF Release, Threads
  <2>2. listeners[s] \ {"invoke"} \in SUBSET {"responder", "reply", "invoke"}
    BY DEF Types
  <2>3. listeners' \in [Sides -> SUBSET {"responder", "reply", "invoke"}]
    BY <1>14, <2>2 DEF Types, Release
  <2> QED
    BY <1>14, <2>1, <2>3 DEF Types, Release
<1> QED
  BY <1>1, <1>2, <1>3, <1>4, <1>5, <1>6, <1>7, <1>8, <1>9, <1>10, <1>11, <1>12, <1>13, <1>14,
     NextCases

\* The thread that runs leaves its kind, and joins no other.
LEMMA RunsFewer ==
  ASSUME Types, NEW s \in Sides, NEW t \in Threads, Runs(s, t)
  PROVE  /\ threads[s][t] > 0
         /\ \A r \in Sides, u \in Threads : threads'[r][u] > 0 => threads[r][u] > 0
<1>1. \A r \in Sides, u \in Threads : threads[r][u] \in 0 .. MaxThreads
  BY DEF Types
<1>2. ASSUME NEW r \in Sides, NEW u \in Threads, r # s \/ u # t
      PROVE  threads'[r][u] = threads[r][u]
  BY <1>2 DEF Types, Runs
<1>3. threads[s][t] > 0
  BY DEF Runs
<1> QED
  BY <1>1, <1>2, <1>3

-----------------------------------------------------------------------------
(* Who serves invocations *)

Serving ==
  /\ \A s \in receiving :
       /\ pc[s] \in {"calling", "awaitingDevice", "connected"} => "invoke" \in listeners[s]
       /\ threads[s]["release"] = 0
  /\ \A s \in Sides : pc[s] \in {"connecting", "accepting", "constructing"} =>
       s \notin receiving /\ threads[s]["release"] = 0

\* Only RegisterConnection gets a side through; the connection is released by a thread
\* that the end of the receive thread starts.
LEMMA ServingNext == Types /\ Serving /\ [Next]_vars => Serving'
<1> SUFFICES ASSUME Types, Serving, [Next]_vars PROVE Serving'
  OBVIOUS
<1> USE DEF Types, Serving
<1>1. CASE Connect \/ Disconnect \/ CallGetDevice \/ CallFails
  BY <1>1 DEF Connect, Disconnect, CallGetDevice, CallFails, Goto, At, Sides
<1>2. ASSUME NEW s \in Sides,
             \/ Construct(s) \/ AddResponder(s) \/ AddReplyListener(s)
             \/ SendHandshake(s) \/ SendHandshakeFails(s) \/ Wait(s) \/ WaitTimeout(s)
             \/ RemoveResponder(s) \/ CheckReply(s) \/ RegisterConnection(s)
      PROVE  Serving'
  <2>1. UNCHANGED threads
    BY <1>2 DEF Construct, AddResponder, AddReplyListener, SendHandshake,
                SendHandshakeFails, Wait, WaitTimeout, RemoveResponder, CheckReply,
                RegisterConnection
  <2>2. CASE Construct(s)
    BY <2>1, <2>2 DEF At, Goto, Fails, Construct
  <2>3. CASE ~Construct(s)
    BY <1>2, <2>1, <2>3 DEF At, Goto, Fails, AddResponder, AddReplyListener,
              SendHandshake, SendHandshakeFails, Wait, WaitTimeout, RemoveResponder,
              CheckReply, RegisterConnection
  <2> QED
    BY <2>2, <2>3
<1>3. ASSUME NEW s \in Sides, NEW t \in Threads, Runs(s, t),
             UNCHANGED <<listeners, receiving>> \/ (t = "release" /\ Release(s)),
             \/ UNCHANGED pc
             \/ At(s, "waiting") /\ Goto(s, "woken")
             \/ At(s, "awaitingDevice") /\ Goto(s, "dead")
      PROVE  Serving'
  <2>1. /\ threads[s][t] > 0
        /\ \A r \in Sides, u \in Threads : threads'[r][u] > 0 => threads[r][u] > 0
    BY <1>3, RunsFewer
  <2>2. \A r \in Sides : threads[r]["release"] \in Nat /\ threads'[r]["release"] \in Nat
    <3>1. threads' \in [Sides -> [Threads -> 0 .. MaxThreads]] /\ "release" \in Threads
      BY <1>3, RunsTypes DEF Threads
    <3> QED
      BY <3>1, HandshakeAssumption
  <2>3. \A r \in Sides : threads[r]["release"] = 0 => threads'[r]["release"] = 0
    <3>1. "release" \in Threads
      BY DEF Threads
    <3>2. \A r \in Sides : threads'[r]["release"] > 0 => threads[r]["release"] > 0
      BY <2>1, <3>1
    <3> QED
      BY <2>2, <3>2, NoneLeft, Zenon
  <2>4. UNCHANGED receiving /\ \A r \in receiving : UNCHANGED listeners[r]
    <3>1. CASE UNCHANGED <<listeners, receiving>>
      BY <3>1
    <3>2. CASE t = "release" /\ Release(s)
      <4>1. s \notin receiving
        BY <2>1, <3>2
      <4> QED
        BY <3>2, <4>1 DEF Release
    <3> QED
      BY <1>3, <3>1, <3>2
  <2> QED
    BY <1>3, <2>3, <2>4 DEF At, Goto
<1>4. CASE UNCHANGED vars
  BY <1>4 DEF vars
<1>5. ASSUME NEW s \in Sides, Answer(s) \/ Notify(s) \/ Invoke(s) \/ Release(s) \/ Result(s)
      PROVE  Serving'
  <2>1. CASE Answer(s)
    BY <1>3, <2>1 DEF Answer, Threads
  <2>2. CASE Notify(s)
    BY <1>3, <2>2 DEF Notify, Threads
  <2>3. CASE Invoke(s)
    BY <1>3, <2>3 DEF Invoke, Threads
  <2>4. CASE Release(s)
    BY <1>3, <2>4 DEF Release, Threads
  <2>5. CASE Result(s)
    BY <1>3, <2>5 DEF Result, Threads
  <2> QED
    BY <1>5, <2>1, <2>2, <2>3, <2>4, <2>5
<1>6. ASSUME NEW s \in Sides, StoreReply(s) PROVE Serving'
  <2>1. UNCHANGED <<pc, listeners, receiving>>
    BY <1>6 DEF StoreReply
  <2>2. \A r \in Sides : threads'[r]["release"] = threads[r]["release"]
    BY <1>6 DEF StoreReply, Threads
  <2> QED
    BY <2>1, <2>2
<1>7. ASSUME NEW s \in Sides, Receive(s) PROVE Serving'
  <2> DEFINE spawned == Spawned(s, Head(channel[s]))
  <2>1. UNCHANGED <<pc, listeners, receiving>> /\ "release" \notin spawned
    BY <1>7 DEF Receive, Spawned
  <2>2. threads' = [threads EXCEPT ![s] =
                      [t \in Threads |-> @[t] + IF t \in spawned THEN 1 ELSE 0]]
    BY <1>7 DEF Receive
  <2>3. \A r \in Sides : threads[r]["release"] \in 0 .. MaxThreads
    BY DEF Threads
  <2>4. \A r \in Sides : threads'[r]["release"] = threads[r]["release"]
    <3> HIDE DEF spawned
    <3> QED
      BY <2>1, <2>2, <2>3, HandshakeAssumption DEF Threads
  <2> QED
    BY <2>1, <2>4
<1>8. ASSUME NEW s \in Sides, FireClosed(s) PROVE Serving'
  <2>1. s \in receiving /\ receiving' = receiving \ {s} /\ UNCHANGED <<pc, listeners>>
    BY <1>8 DEF FireClosed
  <2>2. \A r \in Sides \ {s} : threads'[r] = threads[r]
    BY <1>8 DEF FireClosed
  <2>3. pc[s] \notin {"connecting", "accepting", "constructing"}
    BY <2>1
  <2> QED
    BY <2>1, <2>2, <2>3
<1> QED
  BY <1>1, <1>2, <1>4, <1>5, <1>6, <1>7, <1>8, NextCases

\* Every variable keeps its type; a side that got through serves invocations for as
\* long as its receive thread runs (registerConnection, releaseConnection).
THEOREM TypeCorrect == Spec => []TypeOK
<1>1. Init => Types /\ Serving
  BY TypesInit DEF Init, Serving, Threads
<1>2. Types /\ Serving => TypeOK
  BY DEF Types, Serving, TypeOK
<1> QED
  BY <1>1, <1>2, TypesNext, ServingNext, PTL DEF Spec

-----------------------------------------------------------------------------
(* Who has been heard *)

\* The side has installed its responder, or has failed.
Past(s) == pc[s] \notin {"connecting", "accepting", "constructing", "addResponder"}

\* The side has opened the exchange, or has failed.
Sent(s) == Past(s) /\ pc[s] \notin {"addReplyListener", "sending"}

\* Nobody goes back to an earlier part of the set-up.
LEMMA PastStays ==
  ASSUME Types, [Next]_vars, NEW s \in Sides
  PROVE  (Past(s) => Past(s)') /\ (Sent(s) => Sent(s)')
<1> USE DEF Types, Past, Sent
<1>1. CASE Connect
  BY <1>1 DEF Connect, At, Sides
<1>5. CASE Disconnect
  BY <1>5 DEF Disconnect
<1>6. CASE CallGetDevice \/ CallFails
  BY <1>6 DEF CallGetDevice, CallFails, Goto
<1>2. ASSUME NEW r \in Sides,
             \/ Construct(r) \/ AddResponder(r) \/ AddReplyListener(r)
             \/ SendHandshake(r) \/ SendHandshakeFails(r) \/ Wait(r) \/ WaitTimeout(r)
             \/ RemoveResponder(r) \/ CheckReply(r) \/ RegisterConnection(r)
      PROVE  (Past(s) => Past(s)') /\ (Sent(s) => Sent(s)')
  BY <1>2 DEF At, Goto, Fails, Construct, AddResponder, AddReplyListener, SendHandshake,
              SendHandshakeFails, Wait, WaitTimeout, RemoveResponder, CheckReply,
              RegisterConnection
<1>3. ASSUME NEW r \in Sides,
             \/ Receive(r) \/ FireClosed(r)
             \/ Answer(r) \/ StoreReply(r) \/ Notify(r) \/ Invoke(r) \/ Release(r) \/ Result(r)
      PROVE  (Past(s) => Past(s)') /\ (Sent(s) => Sent(s)')
  BY <1>3 DEF Goto, Receive, FireClosed, Answer, StoreReply, Notify, Invoke, Release, Result
<1>4. CASE UNCHANGED vars
  BY <1>4 DEF vars
<1> QED
  BY <1>1, <1>2, <1>3, <1>4, <1>5, <1>6, NextCases

\* A handshake is on its way to s.
Coming(s) == \E k \in DOMAIN channel[s] : channel[s][k] = "handshake"

\* A handshake is sent, as an opening or as an answer, only by a side that is past the
\* installation of its responder; the rest follows its way to the reply.
Heard ==
  \A s \in Sides :
    /\ "responder" \in listeners[s] \/ threads[s]["answer"] > 0 => Past(s)
    /\ \/ Coming(s) \/ threads[s]["store"] > 0 \/ threads[s]["notify"] > 0 \/ reply[s]
       => Past(Peer(s))

\* Sides go on only with a reply, the client only with the right one.
Checked ==
  /\ \A s \in Sides :
       pc[s] \in {"registering", "calling", "awaitingDevice", "connected"} => reply[s]
  /\ pc["client"] \in {"registering", "calling", "connected"} => expected

LEMMA ComingOnlyIfSent ==
  ASSUME Types, NEW s \in Sides, NEW m \in Messages, Put(s, m), NEW r \in Sides, Coming(r)'
  PROVE  Coming(r) \/ (m = "handshake" /\ r = Peer(s))
<1>1. PICK k \in DOMAIN channel'[r] : channel'[r][k] = "handshake"
  BY DEF Coming
<1>2. channel[Peer(s)] \in Seq(Messages) /\ channel \in [Sides -> Seq(Messages)]
  BY Peers DEF Types
<1>3. CASE r # Peer(s)
  BY <1>1, <1>2, <1>3 DEF Put, Coming
<1>4. CASE r = Peer(s)
  <2>1. channel'[r] = Append(channel[r], m) /\ channel[r] \in Seq(Messages)
    BY <1>2, <1>4 DEF Put
  <2>2. CASE k = Len(channel[r]) + 1
    BY <1>1, <1>4, <2>1, <2>2
  <2>3. CASE k # Len(channel[r]) + 1
    <3>1. k \in DOMAIN channel[r] /\ channel[r][k] = "handshake"
      BY <1>1, <2>1, <2>3
    <3> QED
      BY <3>1 DEF Coming
  <2> QED
    BY <2>2, <2>3
<1> QED
  BY <1>3, <1>4

\* HeardBy(s): all that a handshake received by s has set off, at s.
HeardBy(s) ==
  Coming(s) \/ threads[s]["store"] > 0 \/ threads[s]["notify"] > 0 \/ reply[s]

LEMMA HeardNext == Types /\ Heard /\ [Next]_vars => Heard'
<1> SUFFICES ASSUME Types, Heard, [Next]_vars, NEW s \in Sides
             PROVE  /\ "responder" \in listeners'[s] \/ threads'[s]["answer"] > 0 => Past(s)'
                    /\ HeardBy(s)' => Past(Peer(s))'
  BY DEF Heard, HeardBy, Coming
<1>0. /\ Peer(s) \in Sides /\ Peer(Peer(s)) = s
      /\ Past(s) => Past(s)'
      /\ Past(Peer(s)) => Past(Peer(s))'
      /\ "responder" \in listeners[s] \/ threads[s]["answer"] > 0 => Past(s)
      /\ "responder" \in listeners[Peer(s)] \/ threads[Peer(s)]["answer"] > 0 => Past(Peer(s))
      /\ HeardBy(s) => Past(Peer(s))
  BY Peers, PastStays DEF Heard, HeardBy
\* What an action may add without anybody having heard.
<1> DEFINE NewListener == "responder" \in listeners'[s] /\ ~("responder" \in listeners[s])
           NewAnswer == threads'[s]["answer"] > 0 /\ ~(threads[s]["answer"] > 0)
<1> SUFFICES /\ NewListener \/ NewAnswer => Past(s)'
             /\ HeardBy(s)' => HeardBy(s) \/ Past(Peer(s))'
  BY <1>0
<1> USE DEF Types
<1>1. CASE Connect \/ CallFails \/ UNCHANGED vars
  BY <1>1 DEF Connect, CallFails, vars, HeardBy, Coming
<1>11. ASSUME NEW r \in Sides, FireClosed(r)
       PROVE  /\ NewListener \/ NewAnswer => Past(s)'
              /\ HeardBy(s)' => HeardBy(s) \/ Past(Peer(s))'
  <2>1. UNCHANGED <<pc, listeners, channel, reply>>
    BY <1>11 DEF FireClosed
  <2>2. \A t \in Threads \ {"release"} : threads'[s][t] = threads[s][t]
    BY <1>11 DEF FireClosed
  <2> QED
    BY <2>1, <2>2 DEF HeardBy, Coming, Threads
<1>12. ASSUME NEW r \in Sides, Release(r)
       PROVE  /\ NewListener \/ NewAnswer => Past(s)'
              /\ HeardBy(s)' => HeardBy(s) \/ Past(Peer(s))'
  <2>1. Runs(r, "release") /\ UNCHANGED <<pc, channel, reply>>
    BY <1>12 DEF Release
  <2>2. \A u \in Sides, t \in Threads : threads'[u][t] > 0 => threads[u][t] > 0
    BY <2>1, RunsFewer DEF Threads
  <2>3. ~NewListener
    BY <1>12 DEF Release
  <2> QED
    BY <2>1, <2>2, <2>3 DEF HeardBy, Coming, Threads
<1>2. CASE Disconnect
  BY <1>2 DEF Disconnect, HeardBy, Coming
<1>3. CASE CallGetDevice
  <2>1. Put("server", "getDevice") /\ UNCHANGED <<listeners, threads, reply>>
    BY <1>3 DEF CallGetDevice
  <2>2. Coming(s)' => Coming(s)
    BY <2>1, ComingOnlyIfSent DEF Sides, Messages
  <2> QED
    BY <2>1, <2>2 DEF HeardBy
<1>4. ASSUME NEW r \in Sides,
             \/ Construct(r) \/ AddReplyListener(r) \/ SendHandshakeFails(r) \/ Wait(r)
             \/ WaitTimeout(r) \/ RemoveResponder(r) \/ CheckReply(r) \/ RegisterConnection(r)
      PROVE  /\ NewListener \/ NewAnswer => Past(s)'
             /\ HeardBy(s)' => HeardBy(s) \/ Past(Peer(s))'
  <2>1. UNCHANGED <<channel, threads, reply>>
    BY <1>4 DEF Construct, AddReplyListener, SendHandshakeFails, Wait, WaitTimeout,
                RemoveResponder, CheckReply, RegisterConnection
  <2>2. CASE RemoveResponder(r)
    BY <2>1, <2>2 DEF RemoveResponder, HeardBy, Coming
  <2>3. CASE AddReplyListener(r) \/ RegisterConnection(r)
    <3>1. PICK l \in {"reply", "invoke"} : listeners' = [listeners EXCEPT ![r] = @ \cup {l}]
      BY <2>3 DEF AddReplyListener, RegisterConnection
    <3>2. ~NewListener
      BY <3>1
    <3> QED
      BY <2>1, <3>2 DEF HeardBy, Coming
  <2>4. CASE UNCHANGED listeners
    BY <2>1, <2>4 DEF HeardBy, Coming
  <2> QED
    BY <1>4, <2>2, <2>3, <2>4 DEF Construct, SendHandshakeFails, Wait, WaitTimeout, CheckReply
<1>5. ASSUME NEW r \in Sides, AddResponder(r)
      PROVE  /\ NewListener \/ NewAnswer => Past(s)'
             /\ HeardBy(s)' => HeardBy(s) \/ Past(Peer(s))'
  <2>1. UNCHANGED <<channel, threads, reply>> /\ Past(r)'
    BY <1>5 DEF AddResponder, Goto, Past
  <2>2. NewListener => r = s
    BY <1>5 DEF AddResponder
  <2> QED
    BY <2>1, <2>2 DEF HeardBy, Coming
<1>6. ASSUME NEW r \in Sides, SendHandshake(r)
      PROVE  /\ NewListener \/ NewAnswer => Past(s)'
             /\ HeardBy(s)' => HeardBy(s) \/ Past(Peer(s))'
  <2>1. Put(r, "handshake") /\ UNCHANGED <<listeners, threads, reply>> /\ Past(r)'
    BY <1>6 DEF SendHandshake, Goto, Past
  <2>2. Coming(s)' => Coming(s) \/ Peer(s) = r
    BY <2>1, ComingOnlyIfSent, Peers DEF Messages
  <2> QED
    BY <2>1, <2>2 DEF HeardBy
<1>7. ASSUME NEW r \in Sides, Receive(r)
      PROVE  /\ NewListener \/ NewAnswer => Past(s)'
             /\ HeardBy(s)' => HeardBy(s) \/ Past(Peer(s))'
  <2> DEFINE spawned == Spawned(r, Head(channel[r]))
  <2>1. /\ UNCHANGED <<pc, listeners, reply>>
        /\ channel' = [channel EXCEPT ![r] = Tail(@)] /\ channel[r] # <<>>
        /\ threads' = [threads EXCEPT ![r] =
                         [t \in Threads |-> @[t] + IF t \in spawned THEN 1 ELSE 0]]
    BY <1>7 DEF Receive
  <2>2. Coming(s)' => Coming(s)
    <3> SUFFICES ASSUME NEW k \in DOMAIN channel'[s], channel'[s][k] = "handshake"
                 PROVE  Coming(s)
      BY DEF Coming
    <3>1. CASE r # s
      BY <2>1, <3>1 DEF Coming
    <3>2. CASE r = s
      <4>1. channel[s] \in Seq(Messages) /\ channel[s] # <<>> /\ channel'[s] = Tail(channel[s])
        BY <2>1, <3>2
      <4>2. k + 1 \in DOMAIN channel[s] /\ channel[s][k + 1] = "handshake"
        BY <4>1
      <4> QED
        BY <4>2 DEF Coming
    <3> QED
      BY <3>1, <3>2
  <2>3. \A t \in Threads :
          threads'[s][t] > 0 => threads[s][t] > 0 \/ (r = s /\ t \in spawned)
    <3> HIDE DEF spawned
    <3> QED
      BY <2>1
  <2>4. "answer" \in spawned => "responder" \in listeners[r]
    BY DEF Spawned
  <2>5. "store" \in spawned => Coming(r)
    <3> SUFFICES ASSUME Head(channel[r]) = "handshake" PROVE Coming(r)
      BY DEF Spawned
    <3>1. channel[r] \in Seq(Messages) /\ channel[r] # <<>>
      BY <2>1
    <3>2. 1 \in DOMAIN channel[r] /\ channel[r][1] = "handshake"
      BY <3>1
    <3> QED
      BY <3>2 DEF Coming
  <2>6. "notify" \notin spawned
    BY DEF Spawned
  <2> HIDE DEF spawned
  <2>7. NewAnswer => Past(s)
    BY <1>0, <2>3, <2>4 DEF Threads
  <2> QED
    BY <1>0, <2>1, <2>2, <2>3, <2>5, <2>6, <2>7 DEF HeardBy, Threads
<1>8. ASSUME NEW r \in Sides, Answer(r)
      PROVE  /\ NewListener \/ NewAnswer => Past(s)'
             /\ HeardBy(s)' => HeardBy(s) \/ Past(Peer(s))'
  <2>1. Runs(r, "answer") /\ UNCHANGED <<pc, listeners, reply>>
    BY <1>8 DEF Answer
  <2>2. Put(r, "handshake") \/ UNCHANGED channel
    BY <1>8 DEF Answer
  <2>3. \A u \in Sides, t \in Threads : threads'[u][t] > 0 => threads[u][t] > 0
    <3>1. {"answer", "notify", "result", "invoke"} \subseteq Threads
      BY DEF Threads
    <3> QED
      BY <2>1, <3>1, RunsFewer
  <2>4. threads[r]["answer"] > 0
    BY <2>1 DEF Runs
  <2>5. Coming(s)' => Coming(s) \/ Peer(s) = r
    BY <2>2, ComingOnlyIfSent, Peers DEF Messages, Coming
  <2> QED
    BY <1>0, <2>1, <2>3, <2>4, <2>5 DEF HeardBy, Threads
<1>9. ASSUME NEW r \in Sides, StoreReply(r)
      PROVE  /\ NewListener \/ NewAnswer => Past(s)'
             /\ HeardBy(s)' => HeardBy(s) \/ Past(Peer(s))'
  <2>1. UNCHANGED <<pc, listeners, channel>> /\ threads[r]["store"] > 0
    BY <1>9 DEF StoreReply
  <2>2. /\ threads'[s]["answer"] = threads[s]["answer"]
        /\ r # s => threads'[s] = threads[s] /\ reply'[s] = reply[s]
    BY <1>9 DEF StoreReply, Threads
  <2> QED
    BY <2>1, <2>2 DEF HeardBy, Coming
<1>10. ASSUME NEW r \in Sides, Notify(r) \/ Result(r) \/ Invoke(r)
      PROVE  /\ NewListener \/ NewAnswer => Past(s)'
             /\ HeardBy(s)' => HeardBy(s) \/ Past(Peer(s))'
  <2>1. /\ Runs(r, "notify") \/ Runs(r, "result") \/ Runs(r, "invoke")
        /\ UNCHANGED <<listeners, reply>>
    BY <1>10 DEF Notify, Result, Invoke
  <2>2. Put(r, "error") \/ UNCHANGED channel
    BY <1>10 DEF Notify, Result, Invoke
  <2>3. \A u \in Sides, t \in Threads : threads'[u][t] > 0 => threads[u][t] > 0
    <3>1. {"answer", "notify", "result", "invoke"} \subseteq Threads
      BY DEF Threads
    <3> QED
      BY <2>1, <3>1, RunsFewer
  <2>4. Coming(s)' => Coming(s)
    BY <2>2, ComingOnlyIfSent DEF Messages, Coming
  <2> QED
    BY <2>1, <2>3, <2>4 DEF HeardBy, Threads
<1> QED
  BY <1>1, <1>2, <1>3, <1>4, <1>5, <1>6, <1>7, <1>8, <1>9, <1>10, <1>11, <1>12,
     NextCases

\* reply is only ever set, and the client goes on only where CheckReply lets it.
LEMMA CheckedNext == Types /\ Checked /\ [Next]_vars => Checked'
<1> SUFFICES ASSUME Types, Checked, [Next]_vars PROVE Checked'
  OBVIOUS
<1> USE DEF Types, Checked, At
<1>1. CASE Connect
  BY <1>1 DEF Connect, Sides
<1>2. CASE Disconnect \/ UNCHANGED vars
  BY <1>2 DEF Disconnect, vars
<1>3. CASE CallGetDevice \/ CallFails
  BY <1>3 DEF CallGetDevice, CallFails, Goto, Sides
<1>4. ASSUME NEW s \in Sides,
             \/ Construct(s) \/ AddResponder(s) \/ AddReplyListener(s)
             \/ SendHandshake(s) \/ SendHandshakeFails(s) \/ Wait(s) \/ WaitTimeout(s)
             \/ RemoveResponder(s)
      PROVE  Checked'
  <2>1. /\ UNCHANGED <<reply, expected>> /\ s \in DOMAIN pc
        /\ \E l \in Locations :
             /\ l \notin {"registering", "calling", "awaitingDevice", "connected"}
             /\ pc' = [pc EXCEPT ![s] = l]
    BY <1>4 DEF Goto, Fails, Construct, AddResponder, AddReplyListener, SendHandshake,
                SendHandshakeFails, Wait, WaitTimeout, RemoveResponder, Locations
  <2> QED
    BY <2>1 DEF Sides
<1>5. ASSUME NEW s \in Sides, CheckReply(s) \/ RegisterConnection(s) PROVE Checked'
  BY <1>5 DEF Goto, Fails, CheckReply, RegisterConnection, Sides
<1>6. ASSUME NEW s \in Sides,
             \/ Receive(s) \/ FireClosed(s)
             \/ Answer(s) \/ StoreReply(s) \/ Notify(s) \/ Invoke(s) \/ Release(s) \/ Result(s)
      PROVE  Checked'
  <2>1. /\ UNCHANGED expected
        /\ \A r \in Sides : reply[r] => reply'[r]
    BY <1>6 DEF Receive, FireClosed, Answer, StoreReply, Notify, Invoke, Release, Result
  <2>2. UNCHANGED pc \/ \E l \in {"woken", "dead"} : pc' = [pc EXCEPT ![s] = l]
    BY <1>6 DEF Goto, Receive, FireClosed, Answer, StoreReply, Notify, Invoke, Release, Result
  <2> QED
    BY <2>1, <2>2 DEF Sides
<1> QED
  BY <1>1, <1>2, <1>3, <1>4, <1>5, <1>6, NextCases

\* The client connects only to the device it expects, and neither side gets through
\* without the other's being past its responder (setupConnection, lines 118-138).
THEOREM OnlyToExpected == Spec => []ConnectedToExpected
<1>1. Init => Types /\ Heard /\ Checked
  <2> SUFFICES ASSUME Init PROVE Heard /\ Checked
    BY TypesInit
  <2>1. \A s \in Sides : pc[s] \in {"connecting", "accepting"}
    BY DEF Init
  <2>2. \A s \in Sides, t \in Threads : threads[s][t] = 0
    BY DEF Init
  <2>3. \A s \in Sides : listeners[s] = {} /\ channel[s] = <<>> /\ ~reply[s]
    BY DEF Init
  <2>4. \A s \in Sides : ~Coming(s)
    BY <2>3 DEF Coming
  <2>5. Heard
    BY <2>2, <2>3, <2>4 DEF Heard, Threads
  <2>6. Checked
    BY <2>1 DEF Checked, Sides
  <2> QED
    BY <2>5, <2>6
<1>2. Types /\ Heard /\ Checked => ConnectedToExpected
  BY DEF Heard, Checked, ConnectedToExpected, Past
<1> QED
  BY <1>1, <1>2, TypesNext, HeardNext, CheckedNext, PTL DEF Spec

-----------------------------------------------------------------------------
(* How many handshakes are about *)

Places(queue) == {k \in DOMAIN queue : queue[k] = "handshake"}

LEMMA PlacesFinite ==
  ASSUME NEW queue \in Seq(Messages)
  PROVE  IsFiniteSet(Places(queue)) /\ Handshakes(queue) \in Nat
<1>1. Places(queue) \in SUBSET (1 .. Len(queue)) /\ Len(queue) \in Int
  BY DEF Places
<1>2. IsFiniteSet(1 .. Len(queue))
  BY <1>1, FS_Interval
<1>3. IsFiniteSet(Places(queue))
  BY <1>1, <1>2, FS_Subset
<1> QED
  BY <1>3, FS_CardinalityType DEF Handshakes, Places

LEMMA NoneInEmpty == Handshakes(<<>>) = 0
<1>1. {k \in DOMAIN <<>> : <<>>[k] = "handshake"} = {}
  OBVIOUS
<1> QED
  BY <1>1, FS_EmptySet DEF Handshakes

LEMMA OneMore ==
  ASSUME NEW queue \in Seq(Messages), NEW m \in Messages
  PROVE  Handshakes(Append(queue, m)) =
           Handshakes(queue) + (IF m = "handshake" THEN 1 ELSE 0)
<1> DEFINE longer == Append(queue, m)
           n == Len(queue) + 1
<1>1. /\ DOMAIN queue = 1 .. Len(queue) /\ DOMAIN longer = 1 .. n /\ Len(queue) \in Nat
      /\ longer[n] = m /\ \A k \in 1 .. Len(queue) : longer[k] = queue[k]
  OBVIOUS
<1>2. n \notin Places(queue)
  BY <1>1 DEF Places
<1>3. CASE m = "handshake"
  <2>1. Places(longer) = Places(queue) \cup {n}
    <3> HIDE DEF longer
    <3> QED
      BY <1>1, <1>3 DEF Places
  <2>2. Cardinality(Places(longer)) = Cardinality(Places(queue)) + 1
    BY <2>1, <1>2, PlacesFinite, FS_AddElement
  <2> QED
    BY <1>3, <2>2 DEF Handshakes, Places
<1>4. CASE m # "handshake"
  <2>1. Places(longer) = Places(queue)
    <3> HIDE DEF longer
    <3> QED
      BY <1>1, <1>4 DEF Places
  <2>2. Handshakes(longer) = Handshakes(queue) /\ Handshakes(queue) \in Nat
    BY <2>1, PlacesFinite DEF Handshakes, Places
  <2> QED
    BY <1>4, <2>2
<1> QED
  BY <1>3, <1>4

LEMMA OneLess ==
  ASSUME NEW queue \in Seq(Messages), queue # <<>>
  PROVE  Handshakes(queue) =
           Handshakes(Tail(queue)) + (IF Head(queue) = "handshake" THEN 1 ELSE 0)
<1> DEFINE rest == Tail(queue)
           moved == {k \in Places(queue) : k # 1}
<1>1. /\ rest \in Seq(Messages) /\ Len(queue) \in Nat \ {0}
      /\ DOMAIN queue = 1 .. Len(queue) /\ DOMAIN rest = 1 .. (Len(queue) - 1)
      /\ Head(queue) = queue[1] /\ \A k \in DOMAIN rest : rest[k] = queue[k + 1]
  OBVIOUS
<1>2. IsFiniteSet(Places(rest))
  BY <1>1, PlacesFinite
<1>3. ExistsBijection(Places(rest), moved)
  <2> DEFINE f == [k \in Places(rest) |-> k + 1]
  <2> HIDE DEF rest
  <2>1. \A k \in Places(rest) : k \in Nat /\ k + 1 \in moved
    BY <1>1 DEF Places
  <2>2. \A j \in moved : j - 1 \in Places(rest) /\ (j - 1) + 1 = j
    BY <1>1 DEF Places
  <2>3. f \in [Places(rest) -> moved]
    BY <2>1
  <2>4. \A k, l \in Places(rest) : f[k] = f[l] => k = l
    BY <2>1
  <2>5. \A j \in moved : \E k \in Places(rest) : f[k] = j
    BY <2>2
  <2>6. f \in Bijection(Places(rest), moved)
    <3> HIDE DEF f, moved
    <3> QED
      BY <2>3, <2>4, <2>5 DEF Bijection, Injection, Surjection, IsInjective
  <2> QED
    BY <2>6 DEF ExistsBijection
<1>4. IsFiniteSet(moved) /\ Cardinality(moved) = Cardinality(Places(rest))
  BY <1>2, <1>3, FS_Bijection
<1>5. CASE Head(queue) = "handshake"
  <2>1. Places(queue) = moved \cup {1} /\ 1 \notin moved
    BY <1>1, <1>5 DEF Places
  <2>2. Cardinality(Places(queue)) = Cardinality(moved) + 1
    <3> HIDE DEF moved
    <3> QED
      BY <1>4, <2>1, FS_AddElement
  <2> QED
    BY <1>4, <1>5, <2>2 DEF Handshakes, Places
<1>6. CASE Head(queue) # "handshake"
  <2>1. Places(queue) = moved
    BY <1>1, <1>6 DEF Places
  <2>2. Handshakes(queue) = Handshakes(rest)
    BY <1>4, <2>1 DEF Handshakes, Places
  <2>3. Handshakes(rest) \in Nat
    BY <1>1, PlacesFinite
  <2> QED
    BY <1>6, <2>2, <2>3
<1> QED
  BY <1>5, <1>6

\* Side s has its part in at most two handshakes: those on their way to it, those it is
\* about to answer, and the one it is yet to open with.
Unsent(s) == IF Sent(s) THEN 0 ELSE 1
About(s) == Handshakes(channel[s]) + threads[s]["answer"] + Unsent(s)

InBudget == About("client") + About("server") <= 2

LEMMA AboutTypes ==
  ASSUME Types, NEW s \in Sides
  PROVE  /\ Handshakes(channel[s]) \in Nat
         /\ threads[s]["answer"] \in Nat
         /\ Unsent(s) \in {0, 1}
<1>1. channel[s] \in Seq(Messages) /\ threads[s]["answer"] \in 0 .. MaxThreads
  BY DEF Types, Threads
<1> QED
  BY <1>1, PlacesFinite, HandshakeAssumption DEF Unsent

\* Each step leaves both sides with no more than they had, or passes one handshake from
\* one side to the other.
LEMMA NoneAdded ==
  ASSUME Types, Types', [Next]_vars
  PROVE  \/ \A s \in Sides : About(s)' <= About(s)
         \/ \E s \in Sides : /\ About(s)' <= About(s) - 1
                            /\ About(Peer(s))' <= About(Peer(s)) + 1
<1> DEFINE Goal == \/ \A s \in Sides : About(s)' <= About(s)
                   \/ \E s \in Sides : /\ About(s)' <= About(s) - 1
                                      /\ About(Peer(s))' <= About(Peer(s)) + 1
<1>0. \A s \in Sides : /\ Handshakes(channel[s]) \in Nat /\ Handshakes(channel'[s]) \in Nat
                       /\ threads[s]["answer"] \in Nat /\ threads'[s]["answer"] \in Nat
                       /\ Unsent(s) \in {0, 1} /\ Unsent(s)' \in {0, 1}
                       /\ Unsent(s)' <= Unsent(s)
  <2> SUFFICES ASSUME NEW s \in Sides
               PROVE  /\ Handshakes(channel'[s]) \in Nat
                      /\ threads'[s]["answer"] \in Nat
                      /\ Unsent(s)' \in {0, 1}
                      /\ Unsent(s)' <= Unsent(s)
    BY AboutTypes
  <2>1. channel'[s] \in Seq(Messages) /\ threads'[s]["answer"] \in 0 .. MaxThreads
    BY DEF Types, Threads
  <2>2. Handshakes(channel'[s]) \in Nat
    BY <2>1, PlacesFinite
  <2>3. Sent(s) => Sent(s)'
    BY PastStays
  <2> QED
    BY <2>1, <2>2, <2>3, HandshakeAssumption DEF Unsent
\* A step that puts nothing on the way, or something that is no handshake.
<1>1. ASSUME \A s \in Sides : Handshakes(channel'[s]) <= Handshakes(channel[s]),
             \A s \in Sides : threads'[s]["answer"] <= threads[s]["answer"]
      PROVE  Goal
  BY <1>0, <1>1 DEF About
<1>2. ASSUME NEW s \in Sides, NEW m \in Messages, Put(s, m)
      PROVE  /\ channel'[s] = channel[s]
             /\ Handshakes(channel'[Peer(s)]) =
                  Handshakes(channel[Peer(s)]) + (IF m = "handshake" THEN 1 ELSE 0)
  <2>1. /\ channel'[s] = channel[s]
        /\ channel'[Peer(s)] = Append(channel[Peer(s)], m)
        /\ channel[Peer(s)] \in Seq(Messages)
    BY <1>2, Peers DEF Put, Types
  <2> QED
    BY <2>1, OneMore
<1>3. ASSUME NEW s \in Sides, NEW m \in Messages, Put(s, m), m # "handshake"
      PROVE  \A r \in Sides : Handshakes(channel'[r]) <= Handshakes(channel[r])
  <2>1. \A r \in Sides : r = s \/ r = Peer(s)
    BY DEF Sides, Peer
  <2> QED
    BY <1>0, <1>2, <1>3, <2>1
<1>4. CASE Connect \/ CallFails \/ UNCHANGED vars
  <2>1. UNCHANGED <<channel, threads>>
    BY <1>4 DEF Connect, CallFails, vars
  <2> QED
    BY <1>0, <1>1, <2>1
<1>5. CASE Disconnect
  <2>1. UNCHANGED threads /\ \A s \in Sides : channel'[s] = <<>>
    BY <1>5 DEF Disconnect
  <2>2. \A s \in Sides : Handshakes(channel'[s]) = 0
    BY <2>1, NoneInEmpty
  <2> QED
    BY <1>0, <1>1, <2>1, <2>2
<1>6. CASE CallGetDevice
  <2>1. UNCHANGED threads /\ Put("server", "getDevice")
    BY <1>6 DEF CallGetDevice
  <2>2. "server" \in Sides /\ "getDevice" \in Messages /\ "getDevice" # "handshake"
    BY DEF Sides, Messages
  <2> QED
    BY <1>0, <1>1, <1>3, <2>1, <2>2
<1>7. ASSUME NEW s \in Sides,
             \/ Construct(s) \/ AddResponder(s) \/ AddReplyListener(s)
             \/ SendHandshakeFails(s) \/ Wait(s) \/ WaitTimeout(s)
             \/ RemoveResponder(s) \/ CheckReply(s) \/ RegisterConnection(s)
      PROVE  Goal
  <2>1. UNCHANGED <<channel, threads>>
    BY <1>7 DEF Construct, AddResponder, AddReplyListener, SendHandshakeFails, Wait,
                WaitTimeout, RemoveResponder, CheckReply, RegisterConnection
  <2> QED
    BY <1>0, <1>1, <2>1
\* The opening handshake: from what is yet to be sent to what is on its way.
<1>8. ASSUME NEW s \in Sides, SendHandshake(s) PROVE Goal
  <2>1. Put(s, "handshake") /\ UNCHANGED threads /\ "handshake" \in Messages
    BY <1>8 DEF SendHandshake, Messages
  <2>2. Unsent(s) = 1 /\ Unsent(s)' = 0
    BY <1>8 DEF SendHandshake, At, Goto, Unsent, Sent, Past, Types
  <2>3. /\ About(s)' <= About(s) - 1
        /\ About(Peer(s))' <= About(Peer(s)) + 1
    BY <1>0, <1>2, <2>1, <2>2, Peers DEF About
  <2> QED
    BY <2>3
\* A handshake is taken from the way, and at most one answer is due for it.
<1>9. ASSUME NEW s \in Sides, Receive(s) PROVE Goal
  <2> DEFINE message == Head(channel[s])
             spawned == Spawned(s, message)
             one == IF message = "handshake" THEN 1 ELSE 0
  <2>1. /\ channel[s] \in Seq(Messages) /\ channel[s] # <<>>
        /\ channel' = [channel EXCEPT ![s] = Tail(@)]
        /\ threads' = [threads EXCEPT ![s] =
                         [t \in Threads |-> @[t] + IF t \in spawned THEN 1 ELSE 0]]
    BY <1>9 DEF Receive, Types
  <2>2. "answer" \in spawned => message = "handshake"
    BY DEF Spawned
  <2>3. threads'[s]["answer"] <= threads[s]["answer"] + one
    <3> HIDE DEF spawned, message
    <3>1. threads'[s]["answer"] =
            threads[s]["answer"] + IF "answer" \in spawned THEN 1 ELSE 0
      BY <2>1 DEF Types, Threads
    <3> QED
      BY <1>0, <2>2, <3>1
  <2>4. Handshakes(channel[s]) = Handshakes(channel'[s]) + one
    BY <2>1, OneLess DEF Types
  <2>5. About(s)' <= About(s)
    <3> HIDE DEF one
    <3>1. one \in {0, 1}
      BY DEF one
    <3> QED
      BY <1>0, <2>3, <2>4, <3>1 DEF About
  <2>6. \A r \in Sides : r # s => channel'[r] = channel[r] /\ threads'[r] = threads[r]
    BY <2>1 DEF Types
  <2>7. \A r \in Sides : r # s => About(r)' <= About(r)
    BY <1>0, <2>6 DEF About
  <2> QED
    BY <2>5, <2>7
\* An answer: from what is due to what is on its way.
<1>10. ASSUME NEW s \in Sides, Answer(s) PROVE Goal
  <2>1. Runs(s, "answer") /\ "answer" \in Threads /\ "handshake" \in Messages
    BY <1>10 DEF Answer, Threads, Messages
  <2>2. /\ threads'[s]["answer"] = threads[s]["answer"] - 1
        /\ threads'[Peer(s)]["answer"] = threads[Peer(s)]["answer"]
    BY <2>1, Peers DEF Runs, Types
  <2>3. CASE Put(s, "handshake")
    <3>1. /\ About(s)' <= About(s) - 1
          /\ About(Peer(s))' <= About(Peer(s)) + 1
      BY <1>0, <1>2, <2>1, <2>2, <2>3, Peers DEF About
    <3> QED
      BY <3>1
  <2>4. CASE UNCHANGED channel
    <3>1. \A r \in Sides : r = s \/ r = Peer(s)
      BY DEF Sides, Peer
    <3>2. \A r \in Sides : threads'[r]["answer"] <= threads[r]["answer"]
      BY <1>0, <2>2, <3>1
    <3> QED
      BY <1>0, <1>1, <2>4, <3>2
  <2> QED
    BY <1>10, <2>3, <2>4 DEF Answer
<1>11. ASSUME NEW s \in Sides, StoreReply(s) PROVE Goal
  <2>1. UNCHANGED channel /\ \A r \in Sides : threads'[r]["answer"] = threads[r]["answer"]
    <3>1. threads[s] \in [Threads -> 0 .. MaxThreads] /\ "answer" \in Threads
      BY DEF Types, Threads
    <3>2. threads' = [threads EXCEPT ![s] = [threads[s] EXCEPT !["store"] = @ - 1,
                                                               !["notify"] = @ + 1]]
      BY <1>11, <3>1 DEF StoreReply, Types
    <3>3. UNCHANGED channel
      BY <1>11 DEF StoreReply
    <3> QED
      BY <3>1, <3>2, <3>3 DEF Types
  <2> QED
    BY <1>0, <1>1, <2>1
<1>12. ASSUME NEW s \in Sides, Notify(s) \/ Invoke(s) \/ Result(s) PROVE Goal
  <2>1. \E t \in {"notify", "invoke", "result"} : Runs(s, t)
    BY <1>12 DEF Notify, Invoke, Result
  <2>2. \A r \in Sides : threads'[r]["answer"] = threads[r]["answer"]
    BY <2>1 DEF Runs, Types, Threads
  <2>3. UNCHANGED channel \/ Put(s, "error")
    BY <1>12 DEF Notify, Invoke, Result
  <2>4. "error" \in Messages /\ "error" # "handshake"
    BY DEF Messages
  <2> QED
    BY <1>0, <1>1, <1>3, <2>2, <2>3, <2>4
<1>13. ASSUME NEW s \in Sides, FireClosed(s) \/ Release(s) PROVE Goal
  <2>1. UNCHANGED channel /\ \A r \in Sides : threads'[r]["answer"] = threads[r]["answer"]
    <3>1. UNCHANGED channel
      BY <1>13 DEF FireClosed, Release
    <3>2. CASE FireClosed(s)
      <4>1. \/ UNCHANGED threads
            \/ threads' = [threads EXCEPT ![s] = [threads[s] EXCEPT !["release"] = 1]]
        BY <3>2 DEF FireClosed
      <4>2. [threads[s] EXCEPT !["release"] = 1]["answer"] = threads[s]["answer"]
        BY DEF Types, Threads
      <4> QED
        BY <3>1, <4>1, <4>2 DEF Types
    <3>3. CASE Release(s)
      BY <3>3 DEF Release, Runs, Types, Threads
    <3> QED
      BY <1>13, <3>1, <3>2, <3>3
  <2> QED
    BY <1>0, <1>1, <2>1
<1> QED
  BY <1>4, <1>5, <1>6, <1>7, <1>8, <1>9, <1>10, <1>11, <1>12, <1>13, NextCases

\* However often answers are answered, and however many threads answer them, no more
\* handshakes are about than the two that opened the exchange (HandshakeResponder).
THEOREM NeverMoreHandshakes == Spec => []HandshakesBounded
<1>1. Init => Types /\ InBudget
  <2> SUFFICES ASSUME Init PROVE InBudget
    BY TypesInit
  <2>1. \A s \in Sides : channel[s] = <<>> /\ threads[s]["answer"] = 0
    BY DEF Init, Threads
  <2>2. \A s \in Sides : Handshakes(channel[s]) = 0
    BY <2>1, NoneInEmpty
  <2>3. \A s \in Sides : About(s) <= 1
    BY <2>1, <2>2 DEF About, Unsent
  <2>4. \A s \in Sides : About(s) \in Int
    BY <2>1, <2>2 DEF About, Unsent
  <2> QED
    BY <2>3, <2>4 DEF InBudget, Sides
<1>2. Types /\ InBudget /\ [Next]_vars => InBudget'
  <2> SUFFICES ASSUME Types, InBudget, [Next]_vars PROVE InBudget'
    OBVIOUS
  <2>1. Types'
    BY TypesNext
  <2>2. \A s \in Sides : About(s) \in Int
    BY AboutTypes DEF About
  <2>3. \A s \in Sides : About(s)' \in Int
    <3>1. \A s \in Sides : /\ channel'[s] \in Seq(Messages)
                          /\ threads'[s]["answer"] \in 0 .. MaxThreads
      BY <2>1 DEF Types, Threads
    <3> QED
      BY <3>1, PlacesFinite, HandshakeAssumption DEF About, Unsent
  <2> QED
    BY <2>1, <2>2, <2>3, NoneAdded DEF InBudget, Sides, Peer
<1>3. Types /\ InBudget => HandshakesBounded
  <2> SUFFICES ASSUME Types, InBudget PROVE HandshakesBounded
    OBVIOUS
  <2> QED
    BY AboutTypes DEF InBudget, About, HandshakesBounded, HandshakesTowards, Peer, Sides
<1> QED
  BY <1>1, <1>2, <1>3, TypesNext, PTL DEF Spec
=============================================================================
