--------------------------- MODULE HostHandshake ---------------------------
(***************************************************************************)
(* The set-up of one connection between two blackbird hosts: the client    *)
(* runs HostDeviceImplementationBuilder.build after its connector reached  *)
(* the server's socket, the server's accept thread runs setupConnection.   *)
(* Both perform the same handshake over a HostConnection, whose receive    *)
(* thread reads from the moment the connection is constructed, before any  *)
(* listener is there, and whose deliveries are threads of their own.       *)
(* Afterwards both register the connection with RMI and the server asks    *)
(* the client for its device (Blackbird.registerImplementation).           *)
(***************************************************************************)
EXTENDS Naturals, Sequences, FiniteSets, SequencesExt

CONSTANTS
  MaxThreads,  \* bound: delivery threads of one kind a host has at a time
  Patient      \* TRUE: the 2 s of the handshake outlast everything that is under
               \* way, FALSE: they may pass at any moment (a slow host or network)

ASSUME HandshakeAssumption == MaxThreads \in Nat \ {0} /\ Patient \in BOOLEAN

Sides == {"client", "server"}
Peer(s) == IF s = "client" THEN "server" ELSE "client"

\* What travels over the connection.  A handshake carries the sender's device and
\* the ID of its implementation, nothing that says whether it opens the exchange or
\* answers one.
Messages == {"handshake", "getDevice", "error"}

\* The delivery threads: the responder's packetReceived, the two steps of the
\* reply listener's, the InvokeListener's packetReceived and closed, and the RMI
\* caller's.
Threads == {"answer", "store", "notify", "invoke", "release", "result"}

VARIABLES
  pc,         \* where each side is in setting up the connection
  listeners,  \* the listeners of each side's HostConnection
  channel,    \* the packets on their way to each side
  threads,    \* how many delivery threads of each kind each side runs
  reply,      \* reply[0] # null, of each side's performHandshake
  receiving,  \* the sides whose receive thread runs
  expected,   \* the server's device is the one the client expects
  open        \* the socket works

vars == <<pc, listeners, channel, threads, reply, receiving, expected, open>>

Locations == {"connecting", "accepting", "constructing", "addResponder",
  "addReplyListener", "sending", "entering", "waiting", "woken", "checking",
  "registering", "calling", "awaitingDevice", "connected", "failed",
  "refused", "dead"}

\* The handshake announces localDeviceImplementationID, a field that only
\* getLocalDeviceImplementationID assigns; nothing calls that method, so 0 is
\* announced and no object is registered under it.
LocalDeviceRegistered == FALSE

Init ==
  /\ pc = [s \in Sides |-> IF s = "client" THEN "connecting" ELSE "accepting"]
  /\ listeners = [s \in Sides |-> {}]
  /\ channel = [s \in Sides |-> <<>>]
  /\ threads = [s \in Sides |-> [t \in Threads |-> 0]]
  /\ reply = [s \in Sides |-> FALSE]
  /\ receiving = {}
  /\ expected \in BOOLEAN
  /\ open = TRUE

Goto(s, location) == pc' = [pc EXCEPT ![s] = location]
At(s, location) == pc[s] = location

\* An exception in setupConnection: build collects it and throws an
\* ImplementationFailedException, the accept loop logs it and goes on.
Fails(s) == Goto(s, IF s = "client" THEN "failed" ELSE "refused")

Put(s, message) == channel' = [channel EXCEPT ![Peer(s)] = Append(@, message)]

-----------------------------------------------------------------------------
(* setupConnection *)

\* NetworkConnector.connect, Server.run: the sockets are connected.
Connect ==
  /\ At("client", "connecting") /\ At("server", "accepting")
  /\ pc' = [s \in Sides |-> "constructing"]
  /\ UNCHANGED <<listeners, channel, threads, reply, receiving, expected, open>>

\* new HostConnection: the stream headers are exchanged, the receive thread runs.
Construct(s) ==
  /\ At(s, "constructing")
  /\ IF open THEN Goto(s, "addResponder") /\ receiving' = receiving \cup {s}
             ELSE Fails(s) /\ UNCHANGED receiving
  /\ UNCHANGED <<listeners, channel, threads, reply, expected, open>>

AddResponder(s) ==
  /\ At(s, "addResponder")
  /\ listeners' = [listeners EXCEPT ![s] = @ \cup {"responder"}]
  /\ Goto(s, "addReplyListener")
  /\ UNCHANGED <<channel, threads, reply, receiving, expected, open>>

AddReplyListener(s) ==
  /\ At(s, "addReplyListener")
  /\ listeners' = [listeners EXCEPT ![s] = @ \cup {"reply"}]
  /\ Goto(s, "sending")
  /\ UNCHANGED <<channel, threads, reply, receiving, expected, open>>

SendHandshake(s) ==
  /\ At(s, "sending")
  /\ open
  /\ Put(s, "handshake")
  /\ Goto(s, "entering")
  /\ UNCHANGED <<listeners, threads, reply, receiving, expected, open>>

\* send throws: performHandshake is left with its listeners installed.
SendHandshakeFails(s) ==
  /\ At(s, "sending")
  /\ ~open
  /\ Fails(s)
  /\ UNCHANGED <<listeners, channel, threads, reply, receiving, expected, open>>

\* lock.wait(timeout), without looking at the reply first.
Wait(s) ==
  /\ At(s, "entering")
  /\ Goto(s, "waiting")
  /\ UNCHANGED <<listeners, channel, threads, reply, receiving, expected, open>>

\* Nothing is under way that could still wake side s.
Quiet(s) ==
  /\ \A r \in Sides : channel[r] = <<>> /\ \A t \in Threads : threads[r][t] = 0
  /\ pc[Peer(s)] \in {"waiting", "connected", "failed", "refused", "dead"}

WaitTimeout(s) ==
  /\ At(s, "waiting")
  /\ Patient /\ open => Quiet(s)
  /\ Goto(s, "woken")
  /\ UNCHANGED <<listeners, channel, threads, reply, receiving, expected, open>>

\* The mutants of this module stand before the action they replace.
KeepResponder(s) ==
  /\ At(s, "woken")
  /\ Goto(s, "checking")
  /\ UNCHANGED <<listeners, channel, threads, reply, receiving, expected, open>>

\* Only the responder is removed, the reply listener stays for good.
RemoveResponder(s) ==
  /\ At(s, "woken")
  /\ listeners' = [listeners EXCEPT ![s] = @ \ {"responder"}]
  /\ Goto(s, "checking")
  /\ UNCHANGED <<channel, threads, reply, receiving, expected, open>>

CheckReplyOnly(s) ==
  /\ At(s, "checking")
  /\ IF reply[s] THEN Goto(s, "registering") ELSE Fails(s)
  /\ UNCHANGED <<listeners, channel, threads, reply, receiving, expected, open>>

\* The client insists on the device it wanted to reach, the server takes any.
CheckReply(s) ==
  /\ At(s, "checking")
  /\ IF reply[s] /\ (s = "client" => expected) THEN Goto(s, "registering")
                                                ELSE Fails(s)
  /\ UNCHANGED <<listeners, channel, threads, reply, receiving, expected, open>>

RegisterConnectionOnly(s) ==
  /\ At(s, "registering")
  /\ Goto(s, IF s = "client" THEN "connected" ELSE "calling")
  /\ UNCHANGED <<listeners, channel, threads, reply, receiving, expected, open>>

RegisterConnection(s) ==
  /\ At(s, "registering")
  /\ listeners' = [listeners EXCEPT ![s] = @ \cup {"invoke"}]
  /\ Goto(s, IF s = "client" THEN "connected" ELSE "calling")
  /\ UNCHANGED <<channel, threads, reply, receiving, expected, open>>

\* registerImplementation(remoteInterface) begins with the remote getDevice().
CallGetDevice ==
  /\ At("server", "calling")
  /\ open
  /\ Put("server", "getDevice")
  /\ Goto("server", "awaitingDevice")
  /\ UNCHANGED <<listeners, threads, reply, receiving, expected, open>>

\* The proxy throws: an IOException (send failed, or no reply within 5 s) that
\* getDevice does not declare becomes an UndeclaredThrowableException.  Server.run
\* catches neither that nor a NullPointerException: the accept thread ends.
CallFails ==
  /\ \/ At("server", "calling") /\ ~open
     \/ At("server", "awaitingDevice")
  /\ Goto("server", "dead")
  /\ UNCHANGED <<listeners, channel, threads, reply, receiving, expected, open>>

-----------------------------------------------------------------------------
(* The receive threads and the deliveries they start *)

Spawned(s, message) ==
  {t \in Threads :
     \/ t = "answer" /\ message = "handshake" /\ "responder" \in listeners[s]
     \/ t = "store" /\ message = "handshake" /\ "reply" \in listeners[s]
     \/ t = "invoke" /\ message = "getDevice" /\ "invoke" \in listeners[s]
     \/ t = "result" /\ message = "error"}

Receive(s) ==
  /\ channel[s] # <<>>
  /\ open /\ s \in receiving
  /\ LET message == Head(channel[s])
         spawned == Spawned(s, message)
     IN /\ \A t \in spawned : threads[s][t] < MaxThreads
        /\ threads' = [threads EXCEPT ![s] =
                         [t \in Threads |-> @[t] + IF t \in spawned THEN 1 ELSE 0]]
  /\ channel' = [channel EXCEPT ![s] = Tail(@)]
  /\ UNCHANGED <<pc, listeners, reply, receiving, expected, open>>

Runs(s, t) ==
  /\ threads[s][t] > 0
  /\ threads' = [threads EXCEPT ![s][t] = @ - 1]

AnswerTwice(s) ==
  /\ Runs(s, "answer")
  /\ IF open THEN channel' = [channel EXCEPT ![Peer(s)] =
                                @ \o <<"handshake", "handshake">>]
             ELSE UNCHANGED channel
  /\ UNCHANGED <<pc, listeners, reply, receiving, expected, open>>

\* HandshakeResponder: every handshake is answered, an answer too.
Answer(s) ==
  /\ Runs(s, "answer")
  /\ IF open THEN Put(s, "handshake") ELSE UNCHANGED channel
  /\ UNCHANGED <<pc, listeners, reply, receiving, expected, open>>

StoreReply(s) ==
  /\ threads[s]["store"] > 0
  /\ threads[s]["notify"] < MaxThreads
  /\ threads' = [threads EXCEPT ![s]["store"] = @ - 1, ![s]["notify"] = @ + 1]
  /\ reply' = [reply EXCEPT ![s] = TRUE]
  /\ UNCHANGED <<pc, listeners, channel, receiving, expected, open>>

Notify(s) ==
  /\ Runs(s, "notify")
  /\ IF At(s, "waiting") THEN Goto(s, "woken") ELSE UNCHANGED pc
  /\ UNCHANGED <<listeners, channel, reply, receiving, expected, open>>

\* The InvokeListener finds no object with the announced ID: an Error without an
\* exception.  (With one it would answer the device.)
Invoke(s) ==
  /\ Runs(s, "invoke")
  /\ IF open /\ ~LocalDeviceRegistered THEN Put(s, "error") ELSE UNCHANGED channel
  /\ UNCHANGED <<pc, listeners, reply, receiving, expected, open>>

\* `throw error.getException()` with a null exception.
Result(s) ==
  /\ Runs(s, "result")
  /\ IF At(s, "awaitingDevice") THEN Goto(s, "dead") ELSE UNCHANGED pc
  /\ UNCHANGED <<listeners, channel, reply, receiving, expected, open>>

\* The connection breaks: what was under way is lost, the receive threads end.
Disconnect ==
  /\ open
  /\ \A s \in Sides : pc[s] \notin {"connecting", "accepting"}
  /\ open' = FALSE
  /\ channel' = [s \in Sides |-> <<>>]
  /\ UNCHANGED <<pc, listeners, threads, reply, receiving, expected>>

\* HostConnection.run ends and fires closed: the listeners that are there then get
\* it, and only the InvokeListener has something to do.  A connection that is
\* registered after this stays registered for good.
FireClosed(s) ==
  /\ s \in receiving
  /\ ~open
  /\ IF "invoke" \in listeners[s] THEN threads' = [threads EXCEPT ![s]["release"] = 1]
                                  ELSE UNCHANGED threads
  /\ receiving' = receiving \ {s}
  /\ UNCHANGED <<pc, listeners, channel, reply, expected, open>>

\* InvokeListener.closed, releaseConnection: the removal may be undone by the remote
\* call of the accept thread, which adds and removes its own listener at the same time.
Release(s) ==
  /\ Runs(s, "release")
  /\ \/ listeners' = [listeners EXCEPT ![s] = @ \ {"invoke"}]
     \/ pc[s] \in {"calling", "awaitingDevice"} /\ UNCHANGED listeners
  /\ UNCHANGED <<pc, channel, reply, receiving, expected, open>>

-----------------------------------------------------------------------------
SetUp(s) ==
  \/ Construct(s) \/ AddResponder(s) \/ AddReplyListener(s)
  \/ SendHandshake(s) \/ SendHandshakeFails(s) \/ Wait(s) \/ WaitTimeout(s)
  \/ RemoveResponder(s) \/ CheckReply(s) \/ RegisterConnection(s)

Deliver(s) ==
  \/ Answer(s) \/ StoreReply(s) \/ Notify(s) \/ Invoke(s) \/ Release(s) \/ Result(s)

Next ==
  \/ Connect \/ Disconnect \/ CallGetDevice \/ CallFails
  \/ \E s \in Sides : SetUp(s) \/ Receive(s) \/ FireClosed(s) \/ Deliver(s)

Spec == Init /\ [][Next]_vars

\* Threads that can run do; waits with a timeout end; a packet that was sent over
\* a working connection arrives.
Fairness ==
  /\ WF_vars(Connect) /\ WF_vars(CallGetDevice) /\ WF_vars(CallFails)
  /\ \A s \in Sides :
       /\ WF_vars(SetUp(s)) /\ WF_vars(Receive(s))
       /\ WF_vars(Answer(s)) /\ WF_vars(StoreReply(s)) /\ WF_vars(Notify(s))
       /\ WF_vars(Invoke(s)) /\ WF_vars(Result(s))

FairSpec == Spec /\ Fairness
-----------------------------------------------------------------------------
(* Properties *)

\* Every variable keeps its type; a side that got through serves invocations for as
\* long as its receive thread runs, and gives that up only after it (registerConnection,
\* releaseConnection).
TypeOK ==
  /\ pc \in [Sides -> Locations]
  /\ listeners \in [Sides -> SUBSET {"responder", "reply", "invoke"}]
  /\ channel \in [Sides -> Seq(Messages)]
  /\ threads \in [Sides -> [Threads -> 0 .. MaxThreads]]
  /\ reply \in [Sides -> BOOLEAN]
  /\ receiving \in SUBSET Sides
  /\ expected \in BOOLEAN
  /\ open \in BOOLEAN
  /\ \A s \in receiving :
       /\ pc[s] \in {"calling", "awaitingDevice", "connected"} => "invoke" \in listeners[s]
       /\ threads[s]["release"] = 0

\* Handshakes under way to a side, or about to be answered by the other one.
Handshakes(queue) == Cardinality({k \in DOMAIN queue : queue[k] = "handshake"})
HandshakesTowards(s) == Handshakes(channel[s]) + threads[Peer(s)]["answer"]

\* The responders answer answers, so handshakes go back and forth; but one is only
\* sent for another that was received, so that never more than two are about.
HandshakesBounded ==
  HandshakesTowards("client") + HandshakesTowards("server") <= 2

\* The exchange of handshakes comes to an end, because both sides remove their
\* responders.
HandshakesCease ==
  <>[](\A s \in Sides : HandshakesTowards(s) = 0)

\* The client connects only to the device it expects (lines 124-129), and neither
\* side gets through without having heard from the other.
ConnectedToExpected ==
  /\ pc["client"] = "connected" => expected
  /\ \A s \in Sides :
       pc[s] \in {"registering", "calling", "awaitingDevice", "connected"} =>
         reply[s] /\ pc[Peer(s)] \notin {"constructing", "addResponder"}

\* "a local network server accepting connections ... allowing external devices to
\* connect" (NetworkConnector.java:118-121): its accept thread survives an attempt.
AcceptThreadSurvives == pc["server"] # "dead"
=============================================================================
