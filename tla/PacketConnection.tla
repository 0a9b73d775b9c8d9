-------------------------- MODULE PacketConnection --------------------------
(***************************************************************************)
(* PacketConnection.sendAndReceive: synchronous request/reply on top of an *)
(* event driven connection.  Threads that take part:                       *)
(*   - the callers, each executing sendAndReceive over and over;           *)
(*   - the receive thread of the connection, which fires every packet it   *)
(*     reads to all listeners registered at that moment (ListenerList);    *)
(*   - one delivery thread per listener and packet, started by fire.       *)
(* A SynchronousListener is created per call, so a call and its listener   *)
(* have one identity, <<caller, number of the call>>.                      *)
(*                                                                         *)
(* AVRConnection overrides sendAndReceive with synchronized methods: only  *)
(* one call runs at a time (Exclusive = TRUE).  HostConnection does not.   *)
(* On neither does that keep other threads from the list of listeners:     *)
(* the receivers of codes add theirs to an AVR connection (RCReceiver.java *)
(* :117, InfraredReceiverImplementation.java:15, AVRI2CMasterImplemen-     *)
(* tation.java:16), the remote method invocation adds and removes one on a *)
(* host connection.                                                        *)
(***************************************************************************)
EXTENDS Naturals, FiniteSets

CONSTANTS
  Callers,      \* the threads that call sendAndReceive
  Untimed,      \* those that pass timeout 0, "0 for infinite wait"
  Correlating,  \* those whose filter compares the answered request's ID
  Others,       \* threads that add listeners of their own
  Removing,     \* those that remove them again
  Exclusive,    \* TRUE: AVRConnection's synchronized overrides
  MaxCalls,     \* bound: calls per caller
  MaxReplies,   \* bound: packets the peer sends in answer to one request
  MaxEarly,     \* bound: waits that end with neither reply nor timeout
  NoPacket      \* Java's null

ASSUME CallersAssumption ==
  /\ Untimed \subseteq Callers
  /\ Correlating \subseteq Callers
  /\ Removing \subseteq Others
  /\ Others \cap Callers = {}
  /\ Exclusive \in BOOLEAN
  /\ MaxCalls \in Nat \ {0}
  /\ MaxReplies \in Nat \ {0}
  /\ MaxEarly \in Nat

Threads == Callers \cup Others
Calls == Callers \X (1 .. MaxCalls)
Packets == [to : Calls, copy : 1 .. MaxReplies]
Deliveries == [listener : Calls, packet : Packets,
               step : {"test", "store", "notify"}]

ASSUME NoPacketAssumption == NoPacket \notin Packets

VARIABLES
  pc,           \* where each thread is
  number,       \* the number of the caller's current or last call
  listeners,    \* the ListenerList, its entries of calls
  overlapped,   \* the thread's change of the ListenerList met another one
  gone,         \* what others took from the list since the thread's change began
  replyPacket,  \* SynchronousListener.replyPacket, of every listener
  deliveries,   \* the delivery threads that are running
  requests,     \* the requests that were sent
  replies,      \* how many answers to each request have arrived
  open,         \* the underlying connection still works
  outcome,      \* history: how each call ended
  returned,     \* history: what it returned
  offered,      \* history: the packets fired to its listener
  raced,        \* history: the calls during which changes of the list overlapped,
                \*   or the list was read in the middle of a change
  cutShort      \* history: the calls whose wait was interrupted or ended by itself

vars == <<pc, number, listeners, overlapped, gone, replyPacket, deliveries,
          requests, replies, open, outcome, returned, offered, raced, cutShort>>
list == <<listeners, overlapped, gone, raced>>
network == <<requests, replies, open>>
history == <<outcome, returned, offered, cutShort>>

Locations == {"idle", "adding", "sending", "checking", "entering", "waiting",
              "woken", "removing", "reading", "done"}

Current(c) == <<c, number[c]>>
Active(c) == pc[c] # "idle"
UnderWay == {Current(c) : c \in {d \in Callers : Active(d)}}

\* The filter: sendAndReceiveAnswer compares getAnswerTo with the ID of the
\* request, the other callers look at the type of the packet (and fields that
\* two calls for the same thing share).
AnyReplyAccepted(k, p) == TRUE
Accepts(k, p) == k[1] \in Correlating => p.to = k

Init ==
  /\ pc = [t \in Threads |-> "idle"]
  /\ number = [c \in Callers |-> 0]
  /\ listeners = {}
  /\ overlapped = [t \in Threads |-> FALSE]
  /\ gone = [t \in Threads |-> {}]
  /\ replyPacket = [k \in Calls |-> NoPacket]
  /\ deliveries = {}
  /\ requests = {}
  /\ replies = [k \in Calls |-> 0]
  /\ open = TRUE
  /\ outcome = [k \in Calls |-> "none"]
  /\ returned = [k \in Calls |-> NoPacket]
  /\ offered = [k \in Calls |-> {}]
  /\ raced = {}
  /\ cutShort = {}

-----------------------------------------------------------------------------
(* The ListenerList is an ArrayList without any synchronization.  Changing  *)
(* it takes two steps; of two changes that overlap, each may leave any part *)
(* of what it has seen: entries are lost, or come back.                     *)

Changing(t) == pc[t] \in {"adding", "removing"}

BeginChange(t) ==
  LET others == {u \in Threads \ {t} : Changing(u)} IN
  /\ overlapped' = [u \in Threads |->
       IF u = t THEN others # {} ELSE overlapped[u] \/ Changing(u)]
  /\ UNCHANGED gone
  /\ raced' = IF others = {} THEN raced ELSE raced \cup UnderWay'

EndChange(t, result) ==
  /\ listeners' \in IF overlapped[t]
                     THEN SUBSET (listeners \cup gone[t] \cup result)
                     ELSE {result}
  /\ overlapped' = [overlapped EXCEPT ![t] = FALSE]
  /\ gone' = [u \in Threads |->
       IF u # t /\ Changing(u) THEN gone[u] \cup (listeners \ listeners') ELSE {}]
  /\ UNCHANGED raced

\* The array may be read while a removal moves its entries, or while two
\* changes overlap.
Torn == \E t \in Threads : Changing(t) /\ (pc[t] = "removing" \/ overlapped[t])

\* toArray, the first step of fire.
Snapshots ==
  IF Torn THEN SUBSET (listeners \cup UNION {gone[t] : t \in Threads})
          ELSE {listeners}

-----------------------------------------------------------------------------
(* The caller *)

Goto(c, location) == pc' = [pc EXCEPT ![c] = location]

\* The mutants of this module (operators named after what they forget or do
\* wrong) stand before the action they replace.
BeginCallSending(c) ==
  /\ pc[c] = "idle"
  /\ number[c] < MaxCalls
  /\ Exclusive => \A d \in Callers : pc[d] = "idle"
  /\ number' = [number EXCEPT ![c] = @ + 1]
  /\ requests' = requests \cup {<<c, number[c] + 1>>}
  /\ Goto(c, "adding")
  /\ BeginChange(c)
  /\ UNCHANGED <<listeners, replyPacket, deliveries, replies, open, history>>

\* new SynchronousListener(filter), and the call of addListener.
BeginCall(c) ==
  /\ pc[c] = "idle"
  /\ number[c] < MaxCalls
  /\ Exclusive => \A d \in Callers : pc[d] = "idle"
  /\ number' = [number EXCEPT ![c] = @ + 1]
  /\ Goto(c, "adding")
  /\ BeginChange(c)
  /\ UNCHANGED <<listeners, replyPacket, deliveries, network, history>>

AddListener(c) ==
  /\ pc[c] = "adding"
  /\ EndChange(c, listeners \cup {Current(c)})
  /\ Goto(c, "sending")
  /\ UNCHANGED <<number, replyPacket, deliveries, network, history>>

\* ArrayList.add and remove may find another thread's size or array and throw:
\* the exception leaves sendAndReceive.
ChangeThrows(c) ==
  /\ Changing(c)
  /\ overlapped[c]
  /\ EndChange(c, listeners)
  /\ outcome' = [outcome EXCEPT ![Current(c)] = "failed"]
  /\ Goto(c, "idle")
  /\ UNCHANGED <<number, replyPacket, deliveries, network, returned, offered, cutShort>>

Send(c) ==
  /\ pc[c] = "sending"
  /\ requests' = requests \cup {Current(c)}
  /\ Goto(c, "checking")
  /\ UNCHANGED <<number, list, replyPacket, deliveries,
                 replies, open, history>>

\* send throws, before or after the request is out, because the stream is closed
\* or because the packet cannot be written; the exception leaves sendAndReceive
\* at once: the listener is not removed.
SendFails(c) ==
  /\ pc[c] = "sending"
  /\ requests' \in {requests, requests \cup {Current(c)}}
  /\ outcome' = [outcome EXCEPT ![Current(c)] = "failed"]
  /\ Goto(c, "idle")
  /\ UNCHANGED <<number, list, replyPacket, deliveries, replies, open, returned,
                 offered, cutShort>>

\* waitForReply, its first test of replyPacket, outside of the lock.
CheckReply(c) ==
  /\ pc[c] = "checking"
  /\ Goto(c, IF replyPacket[Current(c)] # NoPacket THEN "woken" ELSE "entering")
  /\ UNCHANGED <<number, list, replyPacket, deliveries,
                 network, history>>

\* synchronized (lock) { lock.wait(timeout) }: no test of replyPacket inside.
Wait(c) ==
  /\ pc[c] = "entering"
  /\ Goto(c, "waiting")
  /\ UNCHANGED <<number, list, replyPacket, deliveries,
                 network, history>>

TimeoutOfAnyCall(c) ==
  /\ pc[c] = "waiting"
  /\ Goto(c, "woken")
  /\ UNCHANGED <<number, list, replyPacket, deliveries,
                 network, history>>

TimeoutWhenDisconnected(c) ==
  /\ pc[c] = "waiting"
  /\ c \notin Untimed
  /\ ~open
  /\ Goto(c, "woken")
  /\ UNCHANGED <<number, list, replyPacket, deliveries,
                 network, history>>

\* lock.wait(timeout) returns; with timeout 0 it never does by itself.
Timeout(c) ==
  /\ pc[c] = "waiting"
  /\ c \notin Untimed
  /\ Goto(c, "woken")
  /\ UNCHANGED <<number, list, replyPacket, deliveries,
                 network, history>>

\* lock.wait ends by itself, as Java allows, or by an InterruptedException, which
\* is caught and logged: with timeout 0, too, and nothing waits again.
WakeEarly(c) ==
  /\ pc[c] = "waiting"
  /\ Cardinality(cutShort) < MaxEarly
  /\ cutShort' = cutShort \cup {Current(c)}
  /\ Goto(c, "woken")
  /\ UNCHANGED <<number, list, replyPacket, deliveries, network, outcome,
                 returned, offered>>

BeginRemove(c) ==
  /\ pc[c] = "woken"
  /\ Goto(c, "removing")
  /\ UNCHANGED <<number, listeners, replyPacket, deliveries, network, history>>
  /\ BeginChange(c)

RemoveAnsweredListener(c) ==
  /\ pc[c] = "removing"
  /\ EndChange(c, IF replyPacket[Current(c)] = NoPacket THEN listeners
                  ELSE listeners \ {Current(c)})
  /\ Goto(c, "reading")
  /\ UNCHANGED <<number, replyPacket, deliveries, network, history>>

RemoveListener(c) ==
  /\ pc[c] = "removing"
  /\ EndChange(c, listeners \ {Current(c)})
  /\ Goto(c, "reading")
  /\ UNCHANGED <<number, replyPacket, deliveries, network, history>>

GetReplyUnchecked(c) ==
  LET k == Current(c) IN
  /\ pc[c] = "reading"
  /\ outcome' = [outcome EXCEPT ![k] = "replied"]
  /\ returned' = [returned EXCEPT ![k] = replyPacket[k]]
  /\ Goto(c, "idle")
  /\ UNCHANGED <<number, list, replyPacket, deliveries,
                 network, offered, cutShort>>

\* getReplyPacket, and the NoReplyException when it is null.
GetReply(c) ==
  LET k == Current(c) IN
  /\ pc[c] = "reading"
  /\ outcome' = [outcome EXCEPT ![k] =
                   IF replyPacket[k] = NoPacket THEN "noReply" ELSE "replied"]
  /\ returned' = [returned EXCEPT ![k] = replyPacket[k]]
  /\ Goto(c, "idle")
  /\ UNCHANGED <<number, list, replyPacket, deliveries,
                 network, offered, cutShort>>

-----------------------------------------------------------------------------
(* The other threads that change the list, each of them once.  Their entries  *)
(* have no part in any call and are left out; what they do to those of the    *)
(* calls is not.                                                              *)

BeginOther(o) ==
  /\ pc[o] = "idle"
  /\ \E change \in {"adding"} \cup (IF o \in Removing THEN {"removing"} ELSE {}) :
       Goto(o, change)
  /\ UNCHANGED <<number, listeners, replyPacket, deliveries, network, history>>
  /\ BeginChange(o)

EndOther(o) ==
  /\ Changing(o)
  /\ EndChange(o, listeners)
  /\ Goto(o, "done")
  /\ UNCHANGED <<number, replyPacket, deliveries, network, history>>

-----------------------------------------------------------------------------
(* The receive thread *)

\* A packet that answers request k is read and fired: every listener of the
\* moment gets a thread of its own.  A listener that a torn array shows twice gets
\* the packet twice, which TestReply makes the same as once.
Receive(k) ==
  LET p == [to |-> k, copy |-> replies[k] + 1] IN
  /\ open
  /\ k \in requests
  /\ replies[k] < MaxReplies
  /\ replies' = [replies EXCEPT ![k] = @ + 1]
  /\ \E array \in Snapshots :
       /\ deliveries' = deliveries \cup
            {[listener |-> l, packet |-> p, step |-> "test"] : l \in array}
       /\ offered' = [l \in Calls |-> IF l \in array THEN offered[l] \cup {p}
                                                     ELSE offered[l]]
  /\ raced' = IF Torn THEN raced \cup {k2 \in UnderWay : ~Changing(k2[1])} ELSE raced
  /\ UNCHANGED <<pc, number, listeners, overlapped, gone, replyPacket, requests,
                 open, outcome, returned, cutShort>>

\* The stream ends or fails.  SynchronousListener.closed does nothing, so no
\* caller learns of it.
Disconnect ==
  /\ open
  /\ open' = FALSE
  /\ UNCHANGED <<pc, number, list, replyPacket, deliveries,
                 requests, replies, history>>

-----------------------------------------------------------------------------
(* A delivery thread: SynchronousListener.packetReceived *)

Proceed(d, step) == deliveries' = (deliveries \ {d}) \cup {[d EXCEPT !.step = step]}

TestReplyUnfiltered(d) ==
  /\ d.step = "test"
  /\ IF replyPacket[d.listener] = NoPacket
     THEN Proceed(d, "store")
     ELSE deliveries' = deliveries \ {d}
  /\ UNCHANGED <<pc, number, list, replyPacket, network, history>>

\* The filter, and the test for an earlier reply.
TestReply(d) ==
  /\ d.step = "test"
  /\ IF Accepts(d.listener, d.packet) /\ replyPacket[d.listener] = NoPacket
     THEN Proceed(d, "store")
     ELSE deliveries' = deliveries \ {d}
  /\ UNCHANGED <<pc, number, list, replyPacket, network, history>>

StoreReply(d) ==
  /\ d.step = "store"
  /\ replyPacket' = [replyPacket EXCEPT ![d.listener] = d.packet]
  /\ Proceed(d, "notify")
  /\ UNCHANGED <<pc, number, list, network, history>>

\* lock.notify() wakes the caller if it waits on this listener's lock now.
Notify(d) ==
  LET c == d.listener[1] IN
  /\ d.step = "notify"
  /\ deliveries' = deliveries \ {d}
  /\ IF pc[c] = "waiting" /\ Current(c) = d.listener
     THEN Goto(c, "woken")
     ELSE UNCHANGED pc
  /\ UNCHANGED <<number, list, replyPacket, network, history>>

-----------------------------------------------------------------------------
Caller(c) ==
  \/ BeginCall(c) \/ AddListener(c) \/ Send(c) \/ SendFails(c)
  \/ CheckReply(c) \/ Wait(c) \/ Timeout(c)
  \/ BeginRemove(c) \/ RemoveListener(c) \/ ChangeThrows(c) \/ GetReply(c)

Other(o) == BeginOther(o) \/ EndOther(o)

Delivery(d) == TestReply(d) \/ StoreReply(d) \/ Notify(d)

Next ==
  \/ \E c \in Callers : Caller(c) \/ WakeEarly(c)
  \/ \E o \in Others : Other(o)
  \/ \E k \in Calls : Receive(k)
  \/ Disconnect
  \/ \E d \in deliveries : Delivery(d)

Spec == Init /\ [][Next]_vars

\* A caller that has begun a call, and a delivery thread that was started, are
\* Java threads: the scheduler runs them and an expired timeout wakes its
\* thread.  Nobody has to begin a call, to add another listener or to interrupt a
\* wait, and the peer owes nothing.
Proceeds(c) == Caller(c) /\ pc[c] # "idle"
Delivers(k, p) ==
  \E d \in deliveries : d.listener = k /\ d.packet = p /\ Delivery(d)

Fairness ==
  /\ \A c \in Callers : WF_vars(Proceeds(c))
  /\ \A k \in Calls, p \in Packets : WF_vars(Delivers(k, p))

FairSpec == Spec /\ Fairness

-----------------------------------------------------------------------------
(* Properties *)

\* Every variable keeps its type, and a call returned a packet exactly when it
\* ended with a reply: sendAndReceive never returns null (lines 136-138).
TypeOK ==
  /\ pc \in [Threads -> Locations]
  /\ number \in [Callers -> 0 .. MaxCalls]
  /\ listeners \subseteq Calls
  /\ overlapped \in [Threads -> BOOLEAN]
  /\ gone \in [Threads -> SUBSET Calls]
  /\ replyPacket \in [Calls -> Packets \cup {NoPacket}]
  /\ deliveries \subseteq Deliveries
  /\ requests \subseteq Calls
  /\ replies \in [Calls -> 0 .. MaxReplies]
  /\ open \in BOOLEAN
  /\ outcome \in [Calls -> {"none", "replied", "noReply", "failed"}]
  /\ returned \in [Calls -> Packets \cup {NoPacket}]
  /\ offered \in [Calls -> SUBSET Packets]
  /\ raced \subseteq Calls
  /\ cutShort \subseteq Calls
  /\ \A k \in Calls : outcome[k] = "replied" <=> returned[k] # NoPacket

\* A call without a timeout ends in a NoReplyException only when its wait ended
\* by itself or by an interrupt: a notification never wakes it before the reply
\* is stored, and a connection that breaks does not wake it.
UntimedNeverGivesUp ==
  \A k \in Calls :
    k[1] \in Untimed /\ outcome[k] = "noReply" => k \in cutShort

\* A reply that arrives while its call waits reaches the call's listener:
\* "returns the expected reply if received" (PacketConnection.java:120).  Only
\* changes of the ListenerList by several threads at once, or a list read in the
\* middle of a change, can keep it from there; one thread's change never does.
ReplyReachesListener ==
  \A c \in Callers :
    /\ pc[c] \in {"checking", "entering", "waiting", "woken"}
    /\ Current(c) \notin raced
    => \A p \in Packets : p.to = Current(c) /\ p.copy <= replies[p.to] =>
         p \in offered[Current(c)]

\* Listeners do not pile up: besides the calls in progress, only a call that
\* failed leaves its listener in the list, or one that met the change of another
\* thread; a timeout, an interrupt or a broken connection does not.
NoListenerLeft ==
  \A k \in listeners :
    k \in UnderWay \/ outcome[k] = "failed" \/ k \in raced

\* When the filter compares IDs, a reply is returned by the call it answers, by
\* no concurrent call and by no later one: a reply that comes after its call
\* timed out is not mistaken for the next call's.
ReplyAnswersCall ==
  \A k \in Calls :
    k[1] \in Correlating /\ outcome[k] = "replied" => returned[k].to = k

\* "Blocks until a reply is received or timeout is reached." (line 325): once
\* its reply is stored, a call comes back.
AnsweredCallReturns ==
  \A c \in Callers :
    (Active(c) /\ replyPacket[Current(c)] # NoPacket) ~> ~Active(c)

-----------------------------------------------------------------------------
(* The promise of sendAndReceive, and how its state appears here *)

AbstractStatus ==
  [k \in Calls |->
     CASE outcome[k] # "none"    -> outcome[k]
       [] k[2] <= number[k[1]] /\ outcome[k] = "none" -> "open"
       [] OTHER                  -> "new"]

Promise == INSTANCE SynchronousCall WITH
  Calls <- Calls, Timed <- {k \in Calls : k[1] \notin Untimed},
  interrupted <- cutShort,
  Packets <- Packets, Accepts <- Accepts, NoPacket <- NoPacket,
  status <- AbstractStatus, offered <- offered, returned <- returned

\* The code implements the promise: every step of a thread is a step of
\* SynchronousCall or invisible there, and every call with a timeout ends.  How
\* the threads change the list, they break none of it.
PromiseKept == Promise!AFairSpec
=============================================================================
