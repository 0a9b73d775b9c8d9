----------------------- MODULE PacketConnectionProofs -----------------------
(***************************************************************************)
(* Proofs about PacketConnection, for any set of callers and of other      *)
(* threads, any number of calls and replies, synchronized or not, and      *)
(* waits that end early.                                                   *)
(***************************************************************************)
EXTENDS PacketConnection, TLAPS

\* Every change of the state is made by one of these seventeen actions: a step of
\* a caller or of another thread, an interrupt, a packet read by the receive
\* thread, the end of the connection, or the step of a delivery thread.
LEMMA NextCases ==
  ASSUME [Next]_vars
  PROVE  \/ \E c \in Callers :
              \/ BeginCall(c) \/ AddListener(c) \/ Send(c) \/ SendFails(c)
              \/ CheckReply(c) \/ Wait(c) \/ Timeout(c) \/ WakeEarly(c)
              \/ BeginRemove(c) \/ RemoveListener(c) \/ ChangeThrows(c) \/ GetReply(c)
         \/ \E o \in Others : BeginOther(o) \/ EndOther(o)
         \/ \E k \in Calls : Receive(k)
         \/ Disconnect
         \/ \E d \in deliveries : TestReply(d) \/ StoreReply(d) \/ Notify(d)
         \/ UNCHANGED vars
  BY DEF Next, Caller, Other, Delivery

\* The typing of the program state, without the history variables' relation.
Types ==
  /\ pc \in [Threads -> Locations]
  /\ number \in [Callers -> 0 .. MaxCalls]
  /\ \A c \in Callers : pc[c] # "idle" => number[c] \in 1 .. MaxCalls
  /\ listeners \subseteq Calls
  /\ overlapped \in [Threads -> BOOLEAN]
  /\ gone \in [Threads -> SUBSET Calls]
  /\ replyPacket \in [Calls -> Packets \cup {NoPacket}]
  /\ deliveries \subseteq Deliveries
  /\ requests \subseteq Calls
  /\ replies \in [Calls -> 0 .. MaxReplies]
  /\ open \in BOOLEAN
  /\ outcome \in [Calls -> {"none", "replied", "noReply", "failed"}]
  /\ returned \in [Calls -> Packets \cup {NoPacket}]
  /\ offered \in [Calls -> SUBSET Packets]
  /\ raced \subseteq Calls
  /\ cutShort \subseteq Calls

LEMMA CurrentIsCall ==
  ASSUME Types, NEW c \in Callers, pc[c] # "idle"
  PROVE  Current(c) \in Calls
  BY DEF Types, Current, Calls

LEMMA UnderWayCalls ==
  ASSUME number \in [Callers -> 0 .. MaxCalls],
         \A c \in Callers : pc[c] # "idle" => number[c] \in 1 .. MaxCalls
  PROVE  UnderWay \subseteq Calls
  BY DEF UnderWay, Active, Current, Calls

LEMMA TypesInit == Init => Types
  BY CallersAssumption DEF Init, Types, Locations, Calls, Threads

\* Beginning a change of the list keeps the types of what describes the list.
LEMMA BeginChangeType ==
  ASSUME Types, NEW t \in Threads, BeginChange(t), UnderWay' \subseteq Calls
  PROVE  /\ overlapped' \in [Threads -> BOOLEAN]
         /\ gone' \in [Threads -> SUBSET Calls]
         /\ raced' \subseteq Calls
<1>1. ASSUME NEW u \in Threads
      PROVE  (IF u = t THEN {v \in Threads \ {t} : Changing(v)} # {}
              ELSE overlapped[u] \/ Changing(u)) \in BOOLEAN
  BY Zenon DEF Types, Changing
<1>2. overlapped' \in [Threads -> BOOLEAN]
  BY <1>1, Zenon DEF BeginChange
<1> QED
  BY <1>2 DEF BeginChange, Types

\* So does ending one.
LEMMA EndChangeType ==
  ASSUME Types, NEW t \in Threads, NEW result \in SUBSET Calls, EndChange(t, result)
  PROVE  /\ listeners' \subseteq Calls
         /\ overlapped' \in [Threads -> BOOLEAN]
         /\ gone' \in [Threads -> SUBSET Calls]
         /\ raced' \subseteq Calls
<1>1. listeners' \subseteq Calls
  BY DEF EndChange, Types
<1>2. overlapped' \in [Threads -> BOOLEAN]
  BY DEF EndChange, Types
<1>3. gone' \in [Threads -> SUBSET Calls]
  BY DEF EndChange, Types
<1> QED
  BY <1>1, <1>2, <1>3 DEF EndChange, Types

LEMMA TypesNext == Types /\ [Next]_vars => Types'
<1> SUFFICES ASSUME Types, [Next]_vars PROVE Types'
  OBVIOUS
<1> USE CallersAssumption
<1>th. Callers \subseteq Threads /\ Others \subseteq Threads
  BY DEF Threads
<1>1. ASSUME NEW c \in Callers, BeginCall(c) PROVE Types'
  <2>1. /\ pc' \in [Threads -> Locations]
        /\ number' \in [Callers -> 0 .. MaxCalls]
        /\ \A b \in Callers : pc'[b] # "idle" => number'[b] \in 1 .. MaxCalls
    BY <1>1, <1>th DEF BeginCall, Goto, Types, Locations
  <2>2. UnderWay' \subseteq Calls
    BY <2>1 DEF UnderWay, Active, Current, Calls
  <2>3. c \in Threads /\ BeginChange(c)
    BY <1>1, <1>th DEF BeginCall
  <2>4. /\ overlapped' \in [Threads -> BOOLEAN]
        /\ gone' \in [Threads -> SUBSET Calls]
        /\ raced' \subseteq Calls
    BY <2>2, <2>3, BeginChangeType
  <2> QED
    BY <1>1, <2>1, <2>4 DEF BeginCall, Types, network, history
<1>2. ASSUME NEW c \in Callers, AddListener(c) PROVE Types'
  <2>1. c \in Threads /\ EndChange(c, listeners \cup {Current(c)}) /\ listeners \cup {Current(c)} \in SUBSET Calls
    BY <1>2, <1>th, CurrentIsCall DEF AddListener, Types, Changing
  <2>2. /\ listeners' \subseteq Calls
        /\ overlapped' \in [Threads -> BOOLEAN]
        /\ gone' \in [Threads -> SUBSET Calls]
        /\ raced' \subseteq Calls
    BY <2>1, EndChangeType
  <2> QED
    BY <1>2, <1>th, <2>2 DEF AddListener, Goto, Types, Locations, network, history
<1>3. ASSUME NEW c \in Callers, Send(c) PROVE Types'
  BY <1>3, <1>th, CurrentIsCall DEF Send, Goto, Types, Locations, list, network, history
<1>4. ASSUME NEW c \in Callers, SendFails(c) PROVE Types'
  BY <1>4, <1>th, CurrentIsCall DEF SendFails, Goto, Types, Locations, list, network, history
<1>5. ASSUME NEW c \in Callers, CheckReply(c) PROVE Types'
  BY <1>5, <1>th DEF CheckReply, Goto, Types, Locations, list, network, history
<1>6. ASSUME NEW c \in Callers, Wait(c) PROVE Types'
  BY <1>6, <1>th DEF Wait, Goto, Types, Locations, list, network, history
<1>7. ASSUME NEW c \in Callers, Timeout(c) PROVE Types'
  BY <1>7, <1>th DEF Timeout, Goto, Types, Locations, list, network, history
<1>8. ASSUME NEW c \in Callers, BeginRemove(c) PROVE Types'
  <2>1. /\ pc' \in [Threads -> Locations]
        /\ number' \in [Callers -> 0 .. MaxCalls]
        /\ \A b \in Callers : pc'[b] # "idle" => number'[b] \in 1 .. MaxCalls
    BY <1>8, <1>th DEF BeginRemove, Goto, Types, Locations
  <2>2. UnderWay' \subseteq Calls
    BY <2>1 DEF UnderWay, Active, Current, Calls
  <2>3. c \in Threads /\ BeginChange(c)
    BY <1>8, <1>th DEF BeginRemove
  <2>4. /\ overlapped' \in [Threads -> BOOLEAN]
        /\ gone' \in [Threads -> SUBSET Calls]
        /\ raced' \subseteq Calls
    BY <2>2, <2>3, BeginChangeType
  <2> QED
    BY <1>8, <2>1, <2>4 DEF BeginRemove, Types, network, history
<1>9. ASSUME NEW c \in Callers, RemoveListener(c) PROVE Types'
  <2>1. c \in Threads /\ EndChange(c, listeners \ {Current(c)}) /\ listeners \ {Current(c)} \in SUBSET Calls
    BY <1>9, <1>th, CurrentIsCall DEF RemoveListener, Types, Changing
  <2>2. /\ listeners' \subseteq Calls
        /\ overlapped' \in [Threads -> BOOLEAN]
        /\ gone' \in [Threads -> SUBSET Calls]
        /\ raced' \subseteq Calls
    BY <2>1, EndChangeType
  <2> QED
    BY <1>9, <1>th, <2>2 DEF RemoveListener, Goto, Types, Locations, network, history
<1>10. ASSUME NEW c \in Callers, GetReply(c) PROVE Types'
  BY <1>10, <1>th, CurrentIsCall DEF GetReply, Goto, Types, Locations, list, network, history
<1>11. ASSUME NEW k \in Calls, Receive(k) PROVE Types'
  <2> DEFINE p == [to |-> k, copy |-> replies[k] + 1]
  <2>1. p \in Packets
    BY <1>11 DEF Receive, Types, Packets
  <2>2. PICK array \in Snapshots :
          /\ deliveries' = deliveries \cup
               {[listener |-> l, packet |-> p, step |-> "test"] : l \in array}
          /\ offered' = [l \in Calls |-> IF l \in array THEN offered[l] \cup {p}
                                                        ELSE offered[l]]
    BY <1>11 DEF Receive
  <2>3. array \subseteq Calls
    BY DEF Snapshots, Types
  <2>4. deliveries' \subseteq Deliveries
    BY <2>1, <2>2, <2>3 DEF Types, Deliveries
  <2>5. replies' \in [Calls -> 0 .. MaxReplies]
    BY <1>11 DEF Receive, Types
  <2>6. offered' \in [Calls -> SUBSET Packets]
    BY <2>1, <2>2 DEF Types
  <2>7. raced' \subseteq Calls
    <3>1. UnderWay \subseteq Calls
      BY UnderWayCalls DEF Types
    <3> QED
      BY <3>1, <1>11 DEF Receive, Types
  <2> QED
    BY <1>11, <2>4, <2>5, <2>6, <2>7 DEF Receive, Types
<1>12. CASE Disconnect
  BY <1>12 DEF Disconnect, Types, list, history
<1>13. ASSUME NEW d \in deliveries, TestReply(d) PROVE Types'
  <2>1. [d EXCEPT !.step = "store"] \in Deliveries
    BY DEF Types, Deliveries
  <2> QED
    BY <1>13, <2>1 DEF TestReply, Proceed, Types, list, network, history
<1>14. ASSUME NEW d \in deliveries, StoreReply(d) PROVE Types'
  <2>1. /\ [d EXCEPT !.step = "notify"] \in Deliveries
        /\ d.listener \in Calls /\ d.packet \in Packets
    BY DEF Types, Deliveries
  <2> QED
    BY <1>14, <2>1 DEF StoreReply, Proceed, Types, list, network, history
<1>15. ASSUME NEW d \in deliveries, Notify(d) PROVE Types'
  BY <1>15, <1>th DEF Notify, Goto, Current, Types, Locations, list, network, history
<1>16. CASE UNCHANGED vars
  BY <1>16 DEF vars, network, history, Types
<1>17. ASSUME NEW c \in Callers, WakeEarly(c) PROVE Types'
  BY <1>17, <1>th, CurrentIsCall DEF WakeEarly, Goto, Types, Locations, list, network
<1>18. ASSUME NEW c \in Callers, ChangeThrows(c) PROVE Types'
  <2>1. c \in Threads /\ EndChange(c, listeners) /\ listeners \in SUBSET Calls
    BY <1>18, <1>th DEF ChangeThrows, Types
  <2>2. /\ listeners' \subseteq Calls
        /\ overlapped' \in [Threads -> BOOLEAN]
        /\ gone' \in [Threads -> SUBSET Calls]
        /\ raced' \subseteq Calls
    BY <2>1, EndChangeType
  <2>3. Current(c) \in Calls
    BY <1>18, CurrentIsCall DEF ChangeThrows, Changing
  <2> QED
    BY <1>18, <1>th, <2>2, <2>3 DEF ChangeThrows, Goto, Types, Locations, network
<1>19. ASSUME NEW o \in Others, BeginOther(o) PROVE Types'
  <2>1. /\ pc' \in [Threads -> Locations]
        /\ number' \in [Callers -> 0 .. MaxCalls]
        /\ \A b \in Callers : pc'[b] # "idle" => number'[b] \in 1 .. MaxCalls
    BY <1>19, <1>th DEF BeginOther, Goto, Types, Locations
  <2>2. UnderWay' \subseteq Calls
    BY <2>1 DEF UnderWay, Active, Current, Calls
  <2>3. o \in Threads /\ BeginChange(o)
    BY <1>19, <1>th DEF BeginOther
  <2>4. /\ overlapped' \in [Threads -> BOOLEAN]
        /\ gone' \in [Threads -> SUBSET Calls]
        /\ raced' \subseteq Calls
    BY <2>2, <2>3, BeginChangeType
  <2> QED
    BY <1>19, <2>1, <2>4 DEF BeginOther, Types, network, history
<1>20. ASSUME NEW o \in Others, EndOther(o) PROVE Types'
  <2>1. o \in Threads /\ EndChange(o, listeners) /\ listeners \in SUBSET Calls
    BY <1>20, <1>th DEF EndOther, Types, Changing
  <2>2. /\ listeners' \subseteq Calls
        /\ overlapped' \in [Threads -> BOOLEAN]
        /\ gone' \in [Threads -> SUBSET Calls]
        /\ raced' \subseteq Calls
    BY <2>1, EndChangeType
  <2> QED
    BY <1>20, <1>th, <2>2 DEF EndOther, Goto, Types, Locations, network, history
<1> QED
  BY <1>1, <1>2, <1>3, <1>4, <1>5, <1>6, <1>7, <1>8, <1>9, <1>10, <1>11,
     <1>12, <1>13, <1>14, <1>15, <1>16, <1>17, <1>18, <1>19, <1>20, NextCases

-----------------------------------------------------------------------------
(* The inductive invariant *)

\* A call ended with a reply exactly when it returned a packet, and then its
\* filter accepts that packet.
Results ==
  \A k \in Calls :
    /\ outcome[k] = "replied" <=> returned[k] # NoPacket
    /\ outcome[k] = "replied" => Accepts(k, returned[k])

\* A delivery thread carries a packet that was offered to its listener; past
\* the test the filter accepts it, past the store there is a reply.
Deliverable ==
  \A d \in deliveries :
    /\ d.packet \in offered[d.listener]
    /\ d.step # "test" => Accepts(d.listener, d.packet)
    /\ d.step = "notify" => replyPacket[d.listener] # NoPacket

\* What a listener holds was offered to it and passed its filter.
Held ==
  \A k \in Calls : replyPacket[k] # NoPacket =>
    replyPacket[k] \in offered[k] /\ Accepts(k, replyPacket[k])

\* An untimed caller that has left the wait holds a reply, unless the wait was
\* cut short.
UntimedHolds ==
  \A c \in Callers :
    c \in Untimed /\ pc[c] \in {"woken", "removing", "reading"} =>
      replyPacket[Current(c)] # NoPacket \/ Current(c) \in cutShort

\* A call ends after it began and while it is not running; only calls that
\* began are, or were, listening.
Progress ==
  /\ \A k \in Calls : outcome[k] # "none" =>
       /\ k[2] <= number[k[1]]
       /\ Active(k[1]) => k # Current(k[1])
  /\ \A k \in listeners : k[2] <= number[k[1]]
  /\ \A t \in Threads : \A k \in gone[t] : k[2] <= number[k[1]]

IInv == /\ Types /\ Results /\ Deliverable /\ Held /\ UntimedHolds /\ Progress
        /\ UntimedNeverGivesUp

-----------------------------------------------------------------------------
LEMMA IInvInit == Init => IInv
<1> SUFFICES ASSUME Init PROVE IInv
  OBVIOUS
<1>1. Types
  BY TypesInit
<1>2. Results /\ Deliverable /\ Held /\ UntimedHolds /\ UntimedNeverGivesUp
  BY DEF Init, Threads, Results, Deliverable, Held, UntimedHolds, UntimedNeverGivesUp
<1>3. Progress
  BY DEF Init, Progress
<1> QED
  BY <1>1, <1>2, <1>3 DEF IInv

LEMMA IInvNext == IInv /\ [Next]_vars => IInv'
<1> SUFFICES ASSUME IInv, [Next]_vars PROVE IInv'
  OBVIOUS
<1> USE CallersAssumption
<1>th. Callers \subseteq Threads /\ Others \subseteq Threads /\ Others \cap Callers = {}
  BY DEF Threads
<1>t. Types /\ Types'
  BY TypesNext DEF IInv
<1>c. \A c \in Callers : pc[c] # "idle" => Current(c) \in Calls
  BY <1>t, <1>th, CurrentIsCall
<1>1. ASSUME NEW c \in Callers, BeginCall(c) PROVE IInv'
  <2>1. Results' /\ Deliverable' /\ Held' /\ UntimedNeverGivesUp'
    BY <1>1 DEF BeginCall, IInv, Results, Deliverable, Held, UntimedNeverGivesUp, history, Accepts
  <2>2. UntimedHolds'
    BY <1>1, <1>t, <1>th DEF BeginCall, Goto, IInv, UntimedHolds, Types, Current, Locations, history
  <2>3. Progress'
    BY <1>1, <1>t, <1>th, <1>c DEF BeginCall, BeginChange, Goto, IInv, Progress, Types, Current, Active, Calls, Locations, list, history
  <2> QED
    BY <1>t, <1>th, <2>1, <2>2, <2>3 DEF IInv
<1>2. ASSUME NEW c \in Callers, AddListener(c) PROVE IInv'
  <2>1. Results' /\ Deliverable' /\ Held' /\ UntimedNeverGivesUp'
    BY <1>2 DEF AddListener, IInv, Results, Deliverable, Held, UntimedNeverGivesUp, history, Accepts
  <2>2. UntimedHolds'
    BY <1>2, <1>t, <1>th DEF AddListener, Goto, IInv, UntimedHolds, Types, Current, Locations, history
  <2>3. Progress'
    BY <1>2, <1>t, <1>th, <1>c DEF AddListener, EndChange, Goto, IInv, Progress, Types, Current, Active, Calls, Locations, list, history
  <2> QED
    BY <1>t, <1>th, <2>1, <2>2, <2>3 DEF IInv
<1>3. ASSUME NEW c \in Callers, Send(c) PROVE IInv'
  <2>1. Results' /\ Deliverable' /\ Held' /\ UntimedNeverGivesUp'
    BY <1>3 DEF Send, IInv, Results, Deliverable, Held, UntimedNeverGivesUp, history, Accepts
  <2>2. UntimedHolds'
    BY <1>3, <1>t, <1>th DEF Send, Goto, IInv, UntimedHolds, Types, Current, Locations, history
  <2>3. Progress'
    BY <1>3, <1>t, <1>th, <1>c DEF Send, Goto, IInv, Progress, Types, Current, Active, Calls, Locations, list, history
  <2> QED
    BY <1>t, <1>th, <2>1, <2>2, <2>3 DEF IInv
<1>4. ASSUME NEW c \in Callers, CheckReply(c) PROVE IInv'
  <2>1. Results' /\ Deliverable' /\ Held' /\ UntimedNeverGivesUp'
    BY <1>4 DEF CheckReply, IInv, Results, Deliverable, Held, UntimedNeverGivesUp, history, Accepts
  <2>2. UntimedHolds'
    BY <1>4, <1>t, <1>th DEF CheckReply, Goto, IInv, UntimedHolds, Types, Current, Locations, history
  <2>3. Progress'
    BY <1>4, <1>t, <1>th, <1>c DEF CheckReply, Goto, IInv, Progress, Types, Current, Active, Calls, Locations, list, history
  <2> QED
    BY <1>t, <1>th, <2>1, <2>2, <2>3 DEF IInv
<1>5. ASSUME NEW c \in Callers, Wait(c) PROVE IInv'
  <2>1. Results' /\ Deliverable' /\ Held' /\ UntimedNeverGivesUp'
    BY <1>5 DEF Wait, IInv, Results, Deliverable, Held, UntimedNeverGivesUp, history, Accepts
  <2>2. UntimedHolds'
    BY <1>5, <1>t, <1>th DEF Wait, Goto, IInv, UntimedHolds, Types, Current, Locations, history
  <2>3. Progress'
    BY <1>5, <1>t, <1>th, <1>c DEF Wait, Goto, IInv, Progress, Types, Current, Active, Calls, Locations, list, history
  <2> QED
    BY <1>t, <1>th, <2>1, <2>2, <2>3 DEF IInv
<1>6. ASSUME NEW c \in Callers, Timeout(c) PROVE IInv'
  <2>1. Results' /\ Deliverable' /\ Held' /\ UntimedNeverGivesUp'
    BY <1>6 DEF Timeout, IInv, Results, Deliverable, Held, UntimedNeverGivesUp, history, Accepts
  <2>2. UntimedHolds'
    BY <1>6, <1>t, <1>th DEF Timeout, Goto, IInv, UntimedHolds, Types, Current, Locations, history
  <2>3. Progress'
    BY <1>6, <1>t, <1>th, <1>c DEF Timeout, Goto, IInv, Progress, Types, Current, Active, Calls, Locations, list, history
  <2> QED
    BY <1>t, <1>th, <2>1, <2>2, <2>3 DEF IInv
<1>7. ASSUME NEW c \in Callers, BeginRemove(c) PROVE IInv'
  <2>1. Results' /\ Deliverable' /\ Held' /\ UntimedNeverGivesUp'
    BY <1>7 DEF BeginRemove, IInv, Results, Deliverable, Held, UntimedNeverGivesUp, history, Accepts
  <2>2. UntimedHolds'
    BY <1>7, <1>t, <1>th DEF BeginRemove, Goto, IInv, UntimedHolds, Types, Current, Locations, history
  <2>3. Progress'
    BY <1>7, <1>t, <1>th, <1>c DEF BeginRemove, BeginChange, Goto, IInv, Progress, Types, Current, Active, Calls, Locations, list, history
  <2> QED
    BY <1>t, <1>th, <2>1, <2>2, <2>3 DEF IInv
<1>8. ASSUME NEW c \in Callers, RemoveListener(c) PROVE IInv'
  <2>1. Results' /\ Deliverable' /\ Held' /\ UntimedNeverGivesUp'
    BY <1>8 DEF RemoveListener, IInv, Results, Deliverable, Held, UntimedNeverGivesUp, history, Accepts
  <2>2. UntimedHolds'
    BY <1>8, <1>t, <1>th DEF RemoveListener, Goto, IInv, UntimedHolds, Types, Current, Locations, history
  <2>3. Progress'
    BY <1>8, <1>t, <1>th, <1>c DEF RemoveListener, EndChange, Goto, IInv, Progress, Types, Current, Active, Calls, Locations, list, history
  <2> QED
    BY <1>t, <1>th, <2>1, <2>2, <2>3 DEF IInv
<1>9. ASSUME NEW c \in Callers, SendFails(c) PROVE IInv'
  <2> DEFINE k == Current(c)
  <2>0. k \in Calls /\ outcome[k] = "none"
    BY <1>9, <1>t, <1>th, <1>c DEF SendFails, IInv, Progress, Active, Current, Calls
  <2>1. Results' /\ UntimedNeverGivesUp'
    BY <1>9, <1>t, <1>th, <2>0 DEF SendFails, IInv, Results, UntimedNeverGivesUp, Types, Accepts
  <2>4. Deliverable' /\ Held'
    BY <1>9 DEF SendFails, IInv, Deliverable, Held, Accepts
  <2>2. UntimedHolds'
    BY <1>9, <1>t, <1>th DEF SendFails, Goto, IInv, UntimedHolds, Types, Current, Locations, history
  <2>3. Progress'
    BY <1>9, <1>t, <1>th, <1>c DEF SendFails, Goto, IInv, Progress, Types, Current, Active, Calls, Locations, list
  <2> QED
    BY <1>t, <1>th, <2>1, <2>2, <2>3, <2>4 DEF IInv
<1>10. ASSUME NEW c \in Callers, GetReply(c) PROVE IInv'
  <2> DEFINE k == Current(c)
  <2>0. k \in Calls /\ pc[c] = "reading" /\ k[1] = c
    BY <1>10, <1>c DEF GetReply, Current
  <2>1. Results'
    BY <1>10, <1>t, <1>th, <2>0 DEF GetReply, IInv, Results, Held, Types, Accepts
  <2>2. UntimedNeverGivesUp'
    BY <1>10, <1>t, <1>th, <2>0 DEF GetReply, IInv, UntimedHolds, UntimedNeverGivesUp, Types
  <2>3. Deliverable' /\ Held'
    BY <1>10 DEF GetReply, IInv, Deliverable, Held, Accepts
  <2>4. UntimedHolds'
    BY <1>10, <1>t, <1>th DEF GetReply, Goto, IInv, UntimedHolds, Types, Current, Locations, history
  <2>5. Progress'
    BY <1>10, <1>t, <1>th, <2>0 DEF GetReply, Goto, IInv, Progress, Types, Current, Active, Calls, Locations, list
  <2> QED
    BY <1>t, <1>th, <2>1, <2>2, <2>3, <2>4, <2>5 DEF IInv
<1>11. ASSUME NEW k \in Calls, Receive(k) PROVE IInv'
  <2> DEFINE p == [to |-> k, copy |-> replies[k] + 1]
  <2>0. PICK array \in Snapshots :
          /\ deliveries' = deliveries \cup
               {[listener |-> l, packet |-> p, step |-> "test"] : l \in array}
          /\ offered' = [l \in Calls |-> IF l \in array THEN offered[l] \cup {p}
                                                        ELSE offered[l]]
    BY <1>11 DEF Receive
  <2>a. array \subseteq Calls
    BY <1>t DEF Snapshots, Types
  <2>1. Deliverable'
    <3> SUFFICES ASSUME NEW e \in deliveries'
                 PROVE  /\ e.packet \in offered'[e.listener]
                        /\ e.step # "test" => Accepts(e.listener, e.packet)
                        /\ e.step = "notify" => replyPacket'[e.listener] # NoPacket
      BY DEF Deliverable, Accepts
    <3>1. CASE e \in deliveries
      <4>1. e.listener \in Calls
        BY <3>1, <1>t DEF Types, Deliveries
      <4> QED
        BY <4>1, <3>1, <1>11, <2>0 DEF Receive, IInv, Deliverable
    <3>2. ASSUME NEW l \in array, e = [listener |-> l, packet |-> p, step |-> "test"]
          PROVE  e.packet \in offered'[e.listener] /\ e.step = "test"
      BY <3>2, <2>0, <2>a
    <3> QED
      BY <3>1, <3>2, <2>0
  <2>2. Held'
    BY <1>11, <2>0, <1>t DEF Receive, IInv, Held, Types, Accepts
  <2>3. Results' /\ UntimedHolds' /\ UntimedNeverGivesUp' /\ Progress'
    BY <1>11 DEF Receive, IInv, Results, UntimedHolds, UntimedNeverGivesUp, Progress, Current, Active, Accepts
  <2> QED
    BY <1>t, <2>1, <2>2, <2>3 DEF IInv
<1>12. CASE Disconnect
  <2>1. /\ Results' /\ Deliverable' /\ Held' /\ UntimedHolds'
        /\ Progress' /\ UntimedNeverGivesUp'
    BY <1>12 DEF Disconnect, list, history, IInv, Results, Deliverable, Held,
         UntimedHolds, UntimedNeverGivesUp, Progress, Current, Active, Accepts
  <2> QED
    BY <1>t, <1>th, <2>1 DEF IInv
<1>13. ASSUME NEW d \in deliveries, TestReply(d) PROVE IInv'
  <2>0. deliveries' \subseteq deliveries \cup {[d EXCEPT !.step = "store"]}
        /\ (deliveries' \subseteq deliveries \/ Accepts(d.listener, d.packet))
    BY <1>13 DEF TestReply, Proceed
  <2>1. Deliverable'
    BY <1>13, <2>0, <1>t, <1>th DEF TestReply, IInv, Deliverable, Types, Deliveries, Accepts, list, history
  <2>2. Held' /\ Results' /\ UntimedHolds' /\ UntimedNeverGivesUp' /\ Progress'
    BY <1>13 DEF TestReply, IInv, Held, Results, UntimedHolds, UntimedNeverGivesUp,
         Progress, Current, Active, Accepts, list, history
  <2> QED
    BY <1>t, <1>th, <2>1, <2>2 DEF IInv
<1>14. ASSUME NEW d \in deliveries, StoreReply(d) PROVE IInv'
  <2> DEFINE k == d.listener
  <2>0. /\ k \in Calls /\ d.packet \in Packets /\ d.packet # NoPacket
        /\ d.packet \in offered[k] /\ Accepts(k, d.packet)
        /\ [d EXCEPT !.step = "notify"].listener = k
        /\ [d EXCEPT !.step = "notify"].packet = d.packet
    BY <1>14, <1>t, <1>th, NoPacketAssumption DEF StoreReply, IInv, Deliverable, Types, Deliveries
  <2>1. replyPacket' = [replyPacket EXCEPT ![k] = d.packet]
    BY <1>14 DEF StoreReply
  <2>2. Deliverable'
    <3> SUFFICES ASSUME NEW e \in deliveries'
                 PROVE  /\ e.packet \in offered[e.listener]
                        /\ e.step # "test" => Accepts(e.listener, e.packet)
                        /\ e.step = "notify" => replyPacket'[e.listener] # NoPacket
      BY <1>14 DEF StoreReply, Deliverable, Accepts, list, history
    <3>1. CASE e \in deliveries
      <4>1. e.listener \in Calls
        BY <3>1, <1>t, <1>th DEF Types, Deliveries
      <4> QED
        BY <4>1, <3>1, <1>t, <1>th, <2>0, <2>1 DEF IInv, Deliverable, Types
    <3>2. CASE e = [d EXCEPT !.step = "notify"]
      BY <3>2, <2>0, <2>1, <1>t, <1>th DEF Types
    <3> QED
      BY <3>1, <3>2, <1>14 DEF StoreReply, Proceed
  <2>3. Held'
    BY <1>14, <1>t, <1>th, <2>0, <2>1 DEF StoreReply, IInv, Held, Types, Accepts, list, history
  <2>4. UntimedHolds'
    BY <1>14, <1>t, <1>th, <2>0, <2>1 DEF StoreReply, IInv, UntimedHolds, Types, Current, history
  <2>5. Results' /\ UntimedNeverGivesUp' /\ Progress'
    BY <1>14 DEF StoreReply, IInv, Results, UntimedNeverGivesUp, Progress, Current, Active, Accepts, list, history
  <2> QED
    BY <1>t, <1>th, <2>2, <2>3, <2>4, <2>5 DEF IInv
<1>15. ASSUME NEW d \in deliveries, Notify(d) PROVE IInv'
  <2>1. Deliverable' /\ Held' /\ Results' /\ UntimedNeverGivesUp'
    BY <1>15 DEF Notify, IInv, Deliverable, Held, Results, UntimedNeverGivesUp, Accepts, list, history
  <2>2. UntimedHolds'
    BY <1>15, <1>t, <1>th DEF Notify, Goto, IInv, Deliverable, UntimedHolds, Types, Current, Locations, history
  <2>3. Progress'
    <3>1. \A c \in Callers : Active(c)' => Active(c)
      BY <1>15, <1>t, <1>th DEF Notify, Goto, Types, Active
    <3> QED
      BY <3>1, <1>15, <1>t, <1>th DEF Notify, IInv, Progress, Types, Current, Calls, list, history
  <2> QED
    BY <1>t, <1>th, <2>1, <2>2, <2>3 DEF IInv
<1>16. CASE UNCHANGED vars
  <2>1. /\ Results' /\ Deliverable' /\ Held' /\ UntimedHolds'
        /\ Progress' /\ UntimedNeverGivesUp'
    BY <1>16 DEF vars, network, history, IInv, Results, Deliverable, Held,
         UntimedHolds, UntimedNeverGivesUp, Progress, Current, Active, Accepts
  <2> QED
    BY <1>t, <1>th, <2>1 DEF IInv
<1>17. ASSUME NEW c \in Callers, WakeEarly(c) PROVE IInv'
  <2>1. Results' /\ Deliverable' /\ Held'
    BY <1>17 DEF WakeEarly, IInv, Results, Deliverable, Held, Accepts
  <2>2. UntimedNeverGivesUp'
    BY <1>17 DEF WakeEarly, IInv, UntimedNeverGivesUp
  <2>3. UntimedHolds'
    BY <1>17, <1>t, <1>th DEF WakeEarly, Goto, IInv, UntimedHolds, Types, Current, Locations, history
  <2>4. Progress'
    BY <1>17, <1>t, <1>th, <1>c DEF WakeEarly, Goto, IInv, Progress, Types, Current, Active, Calls, Locations, list
  <2> QED
    BY <1>t, <2>1, <2>2, <2>3, <2>4 DEF IInv
<1>18. ASSUME NEW c \in Callers, ChangeThrows(c) PROVE IInv'
  <2> DEFINE k == Current(c)
  <2>0. k \in Calls /\ outcome[k] = "none"
    BY <1>18, <1>t, <1>c DEF ChangeThrows, Changing, IInv, Progress, Active, Current, Calls
  <2>1. Results' /\ UntimedNeverGivesUp'
    BY <1>18, <1>t, <2>0 DEF ChangeThrows, IInv, Results, UntimedNeverGivesUp, Types, Accepts
  <2>2. Deliverable' /\ Held'
    BY <1>18 DEF ChangeThrows, IInv, Deliverable, Held, Accepts
  <2>3. UntimedHolds'
    BY <1>18, <1>t, <1>th DEF ChangeThrows, Goto, IInv, UntimedHolds, Types, Current, Locations, history
  <2>4. Progress'
    BY <1>18, <1>t, <1>th, <1>c, <2>0 DEF ChangeThrows, EndChange, Goto, IInv, Progress, Types, Current, Active, Calls, Locations
  <2> QED
    BY <1>t, <2>1, <2>2, <2>3, <2>4 DEF IInv
<1>19. ASSUME NEW o \in Others, BeginOther(o) PROVE IInv'
  <2>1. Results' /\ Deliverable' /\ Held' /\ UntimedNeverGivesUp'
    BY <1>19 DEF BeginOther, IInv, Results, Deliverable, Held, UntimedNeverGivesUp, history, Accepts
  <2>2. UntimedHolds'
    BY <1>19, <1>t, <1>th DEF BeginOther, Goto, Changing, IInv, UntimedHolds, Types, Current, Locations, history
  <2>3. Progress'
    BY <1>19, <1>t, <1>th, <1>c DEF BeginOther, BeginChange, Goto, Changing, IInv, Progress, Types, Current, Active, Calls, Locations, list, history
  <2> QED
    BY <1>t, <2>1, <2>2, <2>3 DEF IInv
<1>20. ASSUME NEW o \in Others, EndOther(o) PROVE IInv'
  <2>1. Results' /\ Deliverable' /\ Held' /\ UntimedNeverGivesUp'
    BY <1>20 DEF EndOther, IInv, Results, Deliverable, Held, UntimedNeverGivesUp, history, Accepts
  <2>2. UntimedHolds'
    BY <1>20, <1>t, <1>th DEF EndOther, Goto, Changing, IInv, UntimedHolds, Types, Current, Locations, history
  <2>3. Progress'
    BY <1>20, <1>t, <1>th, <1>c DEF EndOther, EndChange, Goto, Changing, IInv, Progress, Types, Current, Active, Calls, Locations, list, history
  <2> QED
    BY <1>t, <2>1, <2>2, <2>3 DEF IInv
<1> QED
  BY <1>1, <1>2, <1>3, <1>4, <1>5, <1>6, <1>7, <1>8, <1>9, <1>10, <1>11,
     <1>12, <1>13, <1>14, <1>15, <1>16, <1>17, <1>18, <1>19, <1>20, NextCases

\* The inductive invariant holds in every reachable state.
THEOREM Invariance == Spec => []IInv
<1> QED
  BY IInvInit, IInvNext, PTL DEF Spec

\* Every variable keeps its type, and sendAndReceive never returns null: a call
\* ends with a reply exactly when it returned a packet.
THEOREM TypeCorrect == Spec => []TypeOK
<1>1. IInv => TypeOK
  BY DEF IInv, Types, Results, TypeOK
<1> QED
  BY <1>1, Invariance, PTL

\* A call without a timeout ends in a NoReplyException only after an interrupt, or
\* a wake-up of Java's own: no notification comes before the reply is stored.
THEOREM UntimedSafe == Spec => []UntimedNeverGivesUp
<1>1. IInv => UntimedNeverGivesUp
  BY DEF IInv
<1> QED
  BY <1>1, Invariance, PTL

\* A filter that compares IDs keeps late and foreign replies away from a call.
THEOREM RepliesMatch == Spec => []ReplyAnswersCall
<1>1. IInv => ReplyAnswersCall
  BY DEF IInv, Results, ReplyAnswersCall, Accepts
<1> QED
  BY <1>1, Invariance, PTL

-----------------------------------------------------------------------------
(* The list of listeners *)

\* A change that met no other is alone.
Apart ==
  \A t \in Threads : Changing(t) /\ ~overlapped[t] =>
    \A u \in Threads \ {t} : ~Changing(u)

\* While a change is under way that met another one, all calls are marked.
Marked ==
  \A t \in Threads : Changing(t) /\ overlapped[t] => UnderWay \subseteq raced

\* The listener of an unmarked call is in the list from addListener to
\* removeListener, and is gone for good after that.
Listening ==
  \A c \in Callers : Current(c) \notin raced =>
    /\ pc[c] \in {"sending", "checking", "entering", "waiting", "woken", "removing"}
         => Current(c) \in listeners
    /\ pc[c] = "reading" =>
         Current(c) \notin listeners /\ \A t \in Threads : Current(c) \notin gone[t]

\* Every entry, and every removed one that a change may bring back, has a reason.
Accounted(k) == k \in UnderWay \/ outcome[k] = "failed" \/ k \in raced
Known ==
  /\ \A k \in listeners : Accounted(k)
  /\ \A t \in Threads : \A k \in gone[t] : Accounted(k)

\* A request is answered after it was sent.
Answered ==
  /\ \A k \in Calls : replies[k] > 0 => k \in requests
  /\ \A k \in requests : k[2] <= number[k[1]]
  /\ \A c \in Callers : pc[c] \in {"adding", "sending"} => Current(c) \notin requests

ListInv == Apart /\ Marked /\ Listening /\ Known /\ Answered /\ ReplyReachesListener
LInv == IInv /\ ListInv

\* The marks are kept by a step that begins a change,
LEMMA BeginMarks ==
  ASSUME Types, Types', Apart, Marked, NEW t \in Threads, BeginChange(t), Changing(t)',
         \A u \in Threads \ {t} : pc'[u] = pc[u]
  PROVE  Apart' /\ Marked'
<1> DEFINE others == {u \in Threads \ {t} : Changing(u)}
<1>1. \A u \in Threads \ {t} : Changing(u)' <=> Changing(u)
  BY DEF Changing
<1>2. /\ overlapped'[t] <=> others # {}
      /\ \A u \in Threads \ {t} : overlapped'[u] <=> (overlapped[u] \/ Changing(u))
  BY Zenon DEF BeginChange
<1>3. raced' = IF others = {} THEN raced ELSE raced \cup UnderWay'
  BY DEF BeginChange
<1>4. Apart'
  <2> SUFFICES ASSUME NEW u \in Threads, Changing(u)', ~overlapped'[u],
                      NEW v \in Threads \ {u}
               PROVE  ~Changing(v)'
    BY DEF Apart
  <2>1. u = t
    BY <1>1, <1>2
  <2> QED
    BY <2>1, <1>1, <1>2
<1>5. Marked'
  <2> SUFFICES ASSUME NEW u \in Threads, Changing(u)', overlapped'[u]
               PROVE  UnderWay' \subseteq raced'
    BY DEF Marked
  <2>1. others # {}
    BY <1>1, <1>2
  <2> QED
    BY <2>1, <1>3
<1> QED
  BY <1>4, <1>5

\* by one that ends a change,
LEMMA EndMarks ==
  ASSUME Types, Apart, Marked, NEW t \in Threads, NEW result, EndChange(t, result),
         ~Changing(t)', \A u \in Threads \ {t} : pc'[u] = pc[u],
         UnderWay' \subseteq UnderWay
  PROVE  Apart' /\ Marked'
<1>1. \A u \in Threads \ {t} : Changing(u)' <=> Changing(u)
  BY DEF Changing
<1>2. \A u \in Threads \ {t} : overlapped'[u] = overlapped[u]
  BY DEF EndChange, Types
<1>3. raced' = raced
  BY DEF EndChange
<1>4. Apart'
  BY <1>1, <1>2 DEF Apart
<1>5. Marked'
  BY <1>1, <1>2, <1>3 DEF Marked
<1> QED
  BY <1>4, <1>5

\* and by any other.
LEMMA QuietMarks ==
  ASSUME Apart, Marked, overlapped' = overlapped, raced \subseteq raced',
         \A t \in Threads : Changing(t)' <=> Changing(t),
         UnderWay' \subseteq UnderWay
  PROVE  Apart' /\ Marked'
<1>1. Apart'
  BY DEF Apart
<1>2. Marked'
  BY DEF Marked
<1> QED
  BY <1>1, <1>2

\* The reasons last as long as the calls do.
LEMMA KnownStays ==
  ASSUME Known, UnderWay \subseteq UnderWay', raced \subseteq raced',
         \A k \in Calls : outcome[k] = "failed" => outcome'[k] = "failed",
         Types,
         \A k \in listeners' : \/ k \in listeners \/ k \in UnderWay'
                              \/ \E t \in Threads : k \in gone[t],
         \A t \in Threads : \A k \in gone'[t] : k \in gone[t] \/ k \in listeners
  PROVE  Known'
<1>1. \A k \in Calls : Accounted(k) => Accounted(k)'
  BY DEF Accounted
<1>2. \A k \in UnderWay' : Accounted(k)'
  BY DEF Accounted
<1>3. \A k \in listeners : k \in Calls /\ Accounted(k)
  BY DEF Known, Types
<1>4. \A t \in Threads : \A k \in gone[t] : k \in Calls /\ Accounted(k)
  BY DEF Known, Types
<1> QED
  BY <1>1, <1>2, <1>3, <1>4 DEF Known

\* They last to the end of a call that leaves no entry, or that failed.
LEMMA KnownEnds ==
  ASSUME Known, Types, Types', NEW e \in Calls, UnderWay \ {e} \subseteq UnderWay',
         raced \subseteq raced',
         \A k \in Calls : outcome[k] = "failed" => outcome'[k] = "failed",
         \/ outcome'[e] = "failed"
         \/ e \in raced
         \/ e \notin listeners' /\ \A t \in Threads : e \notin gone'[t],
         \A k \in listeners' : k \in listeners \/ \E t \in Threads : k \in gone[t],
         \A t \in Threads : \A k \in gone'[t] : k \in gone[t] \/ k \in listeners
  PROVE  Known'
<1>1. \A k \in Calls : Accounted(k) /\ k # e => Accounted(k)'
  BY DEF Accounted
<1>2. \A k \in listeners : k \in Calls /\ Accounted(k)
  BY DEF Known, Types
<1>3. \A t \in Threads : \A k \in gone[t] : k \in Calls /\ Accounted(k)
  BY DEF Known, Types
<1>4. Accounted(e)' \/ (e \notin listeners' /\ \A t \in Threads : e \notin gone'[t])
  BY DEF Accounted
<1> QED
  BY <1>1, <1>2, <1>3, <1>4 DEF Known

-----------------------------------------------------------------------------
LEMMA LInvInit == Init => LInv
<1> SUFFICES ASSUME Init PROVE ListInv
  BY IInvInit DEF LInv
<1>1. \A t \in Threads : pc[t] = "idle"
  BY DEF Init
<1>2. \A c \in Callers : pc[c] = "idle"
  BY <1>1 DEF Threads
<1> QED
  BY <1>1, <1>2 DEF Init, ListInv, Apart, Marked, Changing, Listening, Known, Answered,
         ReplyReachesListener

LEMMA LInvNext == LInv /\ [Next]_vars => LInv'
<1> SUFFICES ASSUME LInv, [Next]_vars PROVE ListInv'
  BY IInvNext DEF LInv
<1> USE CallersAssumption
<1>th. Callers \subseteq Threads /\ Others \subseteq Threads /\ Others \cap Callers = {}
  BY DEF Threads
<1>t. Types /\ Types'
  BY TypesNext DEF LInv, IInv
<1>c. \A c \in Callers : pc[c] # "idle" => Current(c) \in Calls
  BY <1>t, CurrentIsCall
<1>e. Apart /\ Marked /\ Listening /\ Known /\ Answered /\ ReplyReachesListener
  BY DEF LInv, ListInv
<1>o. \A c \in Callers : pc[c] # "idle" => outcome[Current(c)] = "none"
  BY <1>c DEF LInv, IInv, Progress, Active, Current
<1>1. ASSUME NEW c \in Callers, BeginCall(c) PROVE ListInv'
  <2>1. /\ pc[c] = "idle" /\ pc'[c] = "adding" /\ number'[c] = number[c] + 1
        /\ \A u \in Threads \ {c} : pc'[u] = pc[u]
        /\ \A b \in Callers \ {c} : number'[b] = number[b] /\ Current(b)' = Current(b)
        /\ Current(c)' \in Calls /\ Current(c)'[1] = c /\ Current(c)'[2] = number[c] + 1
        /\ number[c] \in Nat /\ BeginChange(c) /\ Changing(c)'
        /\ listeners' = listeners /\ gone' = gone /\ outcome' = outcome
        /\ requests' = requests /\ replies' = replies /\ offered' = offered
        /\ c \in Threads /\ raced \subseteq raced'
    BY <1>1, <1>t, <1>th DEF BeginCall, BeginChange, Goto, Changing, Current, Types, Calls, network, history
  <2>2. Apart' /\ Marked'
    BY <2>1, <1>t, <1>e, BeginMarks
  <2>3. UnderWay \subseteq UnderWay'
    <3>1. \A b \in Callers : pc[b] # "idle" =>
            pc'[b] = pc[b] /\ Current(b)' = Current(b)
      BY <2>1, <1>th
    <3> QED
      BY <3>1 DEF UnderWay, Active
  <2>4. Known'
    BY <2>1, <2>3, <1>t, <1>e, KnownStays
  <2>5. \A b \in Callers : pc'[b] # "adding" => b # c
    BY <2>1
  <2>6. Listening'
    BY <2>1, <2>5, <1>th, <1>e DEF Listening
  <2>7. Answered'
    <3>1. Current(c)' \notin requests
      BY <2>1, <1>e DEF Answered
    <3>2. \A k \in requests : k[2] <= number'[k[1]]
      <4> SUFFICES ASSUME NEW k \in requests PROVE k[2] <= number'[k[1]]
        OBVIOUS
      <4>1. k[1] \in Callers /\ k[2] \in Nat /\ k[2] <= number[k[1]]
        BY <1>t, <1>e DEF Types, Calls, Answered
      <4> QED
        BY <4>1, <2>1
    <3> QED
      BY <3>1, <3>2, <2>1, <1>th, <1>e DEF Answered
  <2>8. ReplyReachesListener'
    BY <2>1, <2>5, <1>th, <1>e DEF ReplyReachesListener
  <2> QED
    BY <2>2, <2>4, <2>6, <2>7, <2>8 DEF ListInv
<1>2. ASSUME NEW c \in Callers, AddListener(c) PROVE ListInv'
  <2> DEFINE k == Current(c)
  <2>1. /\ pc[c] = "adding" /\ pc'[c] = "sending" /\ number' = number
        /\ \A u \in Threads \ {c} : pc'[u] = pc[u]
        /\ EndChange(c, listeners \cup {k}) /\ ~Changing(c)' /\ c \in Threads
        /\ raced' = raced /\ outcome' = outcome /\ requests' = requests
        /\ replies' = replies /\ offered' = offered
    BY <1>2, <1>t, <1>th DEF AddListener, EndChange, Goto, Changing, Types, network, history
  <2>2. UnderWay' = UnderWay
    BY <2>1, <1>th DEF UnderWay, Active, Current
  <2>3. Apart' /\ Marked'
    BY <2>1, <2>2, <1>t, <1>e, EndMarks
  <2>4. k \in UnderWay
    BY <2>1 DEF UnderWay, Active
  <2>5. Known'
    <3>1. \A j \in listeners' : j \in listeners \/ j = k \/ j \in gone[c]
      BY <2>1 DEF EndChange
    <3>2. \A t \in Threads : \A j \in gone'[t] : j \in gone[t] \/ j \in listeners
      BY <2>1 DEF EndChange
    <3>3. /\ \A j \in listeners' : \/ j \in listeners \/ j \in UnderWay'
                                   \/ \E t \in Threads : j \in gone[t]
          /\ UnderWay \subseteq UnderWay' /\ raced \subseteq raced'
          /\ \A j \in Calls : outcome[j] = "failed" => outcome'[j] = "failed"
      BY <3>1, <2>1, <2>2, <2>4
    <3> QED
      BY <3>2, <3>3, <1>t, <1>e, KnownStays
  <2>6. Listening'
    <3>1. CASE overlapped[c]
      <4>1. \A b \in Callers : pc'[b] # "idle" => Current(b)' \in raced'
        BY <3>1, <2>1, <1>th, <1>e DEF Marked, Changing, UnderWay, Active, Current
      <4> QED
        BY <4>1 DEF Listening
    <3>2. CASE ~overlapped[c]
      <4>1. listeners' = listeners \cup {k}
        BY <3>2, <2>1 DEF EndChange
      <4>2. \A t \in Threads : gone'[t] \subseteq gone[t]
        BY <4>1, <2>1 DEF EndChange
      <4>3. \A b \in Callers \ {c} : Current(b)' = Current(b) /\ Current(b) # k
        BY <2>1 DEF Current
      <4> QED
        BY <4>1, <4>2, <4>3, <2>1, <1>th, <1>e DEF Listening, Current
    <3> QED
      BY <3>1, <3>2
  <2>7. Answered'
    BY <2>1, <1>th, <1>e DEF Answered, Current
  <2>8. ReplyReachesListener'
    BY <2>1, <1>th, <1>e DEF ReplyReachesListener, Current
  <2> QED
    BY <2>3, <2>5, <2>6, <2>7, <2>8 DEF ListInv
<1>3. ASSUME NEW c \in Callers, Send(c) PROVE ListInv'
  <2> DEFINE k == Current(c)
  <2>1. /\ pc[c] = "sending" /\ pc'[c] = "checking" /\ number' = number
        /\ \A u \in Threads \ {c} : pc'[u] = pc[u]
        /\ UNCHANGED list /\ outcome' = outcome /\ c \in Threads
        /\ requests' = requests \cup {k} /\ replies' = replies /\ offered' = offered
        /\ k \in Calls
    BY <1>3, <1>t, <1>th, <1>c DEF Send, Goto, Types, history
  <2>2. \A t \in Threads : Changing(t)' <=> Changing(t)
    BY <2>1 DEF Changing
  <2>3. UnderWay' = UnderWay
    BY <2>1, <1>th DEF UnderWay, Active, Current
  <2>4. Apart' /\ Marked'
    BY <2>1, <2>2, <2>3, <1>e, QuietMarks DEF list
  <2>5. Known'
    BY <2>1, <2>3, <1>t, <1>e, KnownStays DEF list
  <2>6. Listening'
    BY <2>1, <1>th, <1>e DEF Listening, Current, list
  <2>7. Answered'
    <3>1. k[1] = c /\ k[2] = number[c] /\ number[c] \in Nat
      BY <1>t DEF Current, Types
    <3>2. \A b \in Callers \ {c} : Current(b)' = Current(b) /\ Current(b) # k
      BY <2>1 DEF Current
    <3> QED
      BY <3>1, <3>2, <2>1, <1>th, <1>e DEF Answered
  <2>8. ReplyReachesListener'
    <3>1. replies[k] = 0
      BY <2>1, <1>t, <1>e DEF Answered, Types
    <3>2. \A p \in Packets : p.to = k => ~(p.copy <= replies[p.to])
      BY <3>1 DEF Packets
    <3>3. Current(c)' = k /\ \A b \in Callers \ {c} : Current(b)' = Current(b)
      BY <2>1 DEF Current
    <3> QED
      BY <3>2, <3>3, <2>1, <1>th, <1>e DEF ReplyReachesListener, list
  <2> QED
    BY <2>4, <2>5, <2>6, <2>7, <2>8 DEF ListInv
<1>4. ASSUME NEW c \in Callers, SendFails(c) PROVE ListInv'
  <2> DEFINE k == Current(c)
  <2>1. /\ pc[c] = "sending" /\ pc'[c] = "idle" /\ number' = number
        /\ \A u \in Threads \ {c} : pc'[u] = pc[u]
        /\ UNCHANGED list /\ c \in Threads
        /\ requests' \subseteq requests \cup {k} /\ requests \subseteq requests'
        /\ replies' = replies /\ offered' = offered /\ k \in Calls
        /\ outcome'[k] = "failed"
        /\ \A j \in Calls : outcome[j] = "failed" => outcome'[j] = "failed"
    BY <1>4, <1>t, <1>th, <1>c DEF SendFails, Goto, Types
  <2>2. \A t \in Threads : Changing(t)' <=> Changing(t)
    BY <2>1 DEF Changing
  <2>3. UnderWay' \subseteq UnderWay /\ UnderWay \ {k} \subseteq UnderWay'
    BY <2>1, <1>th DEF UnderWay, Active, Current
  <2>4. Apart' /\ Marked'
    BY <2>1, <2>2, <2>3, <1>e, QuietMarks DEF list
  <2>5. Known'
    BY <2>1, <2>3, <1>t, <1>e, KnownEnds DEF list
  <2>6. Listening'
    BY <2>1, <1>th, <1>e DEF Listening, Current, list
  <2>7. Answered'
    <3>1. k[1] = c /\ k[2] = number[c] /\ number[c] \in Nat
      BY <1>t DEF Current, Types
    <3>2. \A b \in Callers \ {c} : Current(b)' = Current(b) /\ Current(b) # k
      BY <2>1 DEF Current
    <3> QED
      BY <3>1, <3>2, <2>1, <1>th, <1>e DEF Answered
  <2>8. ReplyReachesListener'
    BY <2>1, <1>th, <1>e DEF ReplyReachesListener, Current, list
  <2> QED
    BY <2>4, <2>5, <2>6, <2>7, <2>8 DEF ListInv
<1>5. ASSUME NEW c \in Callers, CheckReply(c) PROVE ListInv'
  <2>1. /\ pc[c] = "checking" /\ pc'[c] \in {"woken", "entering"} /\ number' = number
        /\ \A u \in Threads \ {c} : pc'[u] = pc[u]
        /\ UNCHANGED list /\ outcome' = outcome /\ c \in Threads
        /\ requests' = requests /\ replies' = replies /\ offered' = offered
    BY <1>5, <1>t, <1>th DEF CheckReply, Goto, Types, network, history
  <2>2. \A t \in Threads : Changing(t)' <=> Changing(t)
    BY <2>1 DEF Changing
  <2>3. UnderWay' = UnderWay
    BY <2>1, <1>th DEF UnderWay, Active, Current
  <2>4. Apart' /\ Marked'
    BY <2>1, <2>2, <2>3, <1>e, QuietMarks DEF list
  <2>5. Known'
    BY <2>1, <2>3, <1>t, <1>e, KnownStays DEF list
  <2>6. Listening' /\ Answered'
    BY <2>1, <1>th, <1>e DEF Listening, Answered, Current, list
  <2>7. ReplyReachesListener'
    BY <2>1, <1>th, <1>e DEF ReplyReachesListener, Current, list
  <2> QED
    BY <2>4, <2>5, <2>6, <2>7 DEF ListInv
<1>6. ASSUME NEW c \in Callers, Wait(c) PROVE ListInv'
  <2>1. /\ pc[c] = "entering" /\ pc'[c] \in {"waiting"} /\ number' = number
        /\ \A u \in Threads \ {c} : pc'[u] = pc[u]
        /\ UNCHANGED list /\ outcome' = outcome /\ c \in Threads
        /\ requests' = requests /\ replies' = replies /\ offered' = offered
    BY <1>6, <1>t, <1>th DEF Wait, Goto, Types, network, history
  <2>2. \A t \in Threads : Changing(t)' <=> Changing(t)
    BY <2>1 DEF Changing
  <2>3. UnderWay' = UnderWay
    BY <2>1, <1>th DEF UnderWay, Active, Current
  <2>4. Apart' /\ Marked'
    BY <2>1, <2>2, <2>3, <1>e, QuietMarks DEF list
  <2>5. Known'
    BY <2>1, <2>3, <1>t, <1>e, KnownStays DEF list
  <2>6. Listening' /\ Answered'
    BY <2>1, <1>th, <1>e DEF Listening, Answered, Current, list
  <2>7. ReplyReachesListener'
    BY <2>1, <1>th, <1>e DEF ReplyReachesListener, Current, list
  <2> QED
    BY <2>4, <2>5, <2>6, <2>7 DEF ListInv
<1>7. ASSUME NEW c \in Callers, Timeout(c) PROVE ListInv'
  <2>1. /\ pc[c] = "waiting" /\ pc'[c] \in {"woken"} /\ number' = number
        /\ \A u \in Threads \ {c} : pc'[u] = pc[u]
        /\ UNCHANGED list /\ outcome' = outcome /\ c \in Threads
        /\ requests' = requests /\ replies' = replies /\ offered' = offered
    BY <1>7, <1>t, <1>th DEF Timeout, Goto, Types, network, history
  <2>2. \A t \in Threads : Changing(t)' <=> Changing(t)
    BY <2>1 DEF Changing
  <2>3. UnderWay' = UnderWay
    BY <2>1, <1>th DEF UnderWay, Active, Current
  <2>4. Apart' /\ Marked'
    BY <2>1, <2>2, <2>3, <1>e, QuietMarks DEF list
  <2>5. Known'
    BY <2>1, <2>3, <1>t, <1>e, KnownStays DEF list
  <2>6. Listening' /\ Answered'
    BY <2>1, <1>th, <1>e DEF Listening, Answered, Current, list
  <2>7. ReplyReachesListener'
    BY <2>1, <1>th, <1>e DEF ReplyReachesListener, Current, list
  <2> QED
    BY <2>4, <2>5, <2>6, <2>7 DEF ListInv
<1>8. ASSUME NEW c \in Callers, BeginRemove(c) PROVE ListInv'
  <2>1. /\ pc[c] = "woken" /\ pc'[c] = "removing" /\ number' = number
        /\ \A u \in Threads \ {c} : pc'[u] = pc[u]
        /\ BeginChange(c) /\ Changing(c)' /\ c \in Threads
        /\ listeners' = listeners /\ gone' = gone /\ outcome' = outcome
        /\ requests' = requests /\ replies' = replies /\ offered' = offered
        /\ raced \subseteq raced'
    BY <1>8, <1>t, <1>th DEF BeginRemove, BeginChange, Goto, Changing, Types, network, history
  <2>2. Apart' /\ Marked'
    BY <2>1, <1>t, <1>e, BeginMarks
  <2>3. UnderWay' = UnderWay
    BY <2>1, <1>th DEF UnderWay, Active, Current
  <2>4. Known'
    BY <2>1, <2>3, <1>t, <1>e, KnownStays
  <2>5. Listening' /\ Answered'
    BY <2>1, <1>th, <1>e DEF Listening, Answered, Current
  <2>6. ReplyReachesListener'
    BY <2>1, <1>th, <1>e DEF ReplyReachesListener, Current
  <2> QED
    BY <2>2, <2>4, <2>5, <2>6 DEF ListInv
<1>9. ASSUME NEW c \in Callers, RemoveListener(c) PROVE ListInv'
  <2> DEFINE k == Current(c)
  <2>1. /\ pc[c] = "removing" /\ pc'[c] = "reading" /\ number' = number
        /\ \A u \in Threads \ {c} : pc'[u] = pc[u]
        /\ EndChange(c, listeners \ {k}) /\ ~Changing(c)' /\ c \in Threads
        /\ raced' = raced /\ outcome' = outcome /\ requests' = requests
        /\ replies' = replies /\ offered' = offered
    BY <1>9, <1>t, <1>th DEF RemoveListener, EndChange, Goto, Changing, Types, network, history
  <2>2. UnderWay' = UnderWay
    BY <2>1, <1>th DEF UnderWay, Active, Current
  <2>3. Apart' /\ Marked'
    BY <2>1, <2>2, <1>t, <1>e, EndMarks
  <2>5. Known'
    <3>1. \A j \in listeners' : j \in listeners \/ j \in gone[c]
      BY <2>1 DEF EndChange
    <3>2. \A t \in Threads : \A j \in gone'[t] : j \in gone[t] \/ j \in listeners
      BY <2>1 DEF EndChange
    <3>3. /\ \A j \in listeners' : \/ j \in listeners \/ j \in UnderWay'
                                   \/ \E t \in Threads : j \in gone[t]
          /\ UnderWay \subseteq UnderWay' /\ raced \subseteq raced'
          /\ \A j \in Calls : outcome[j] = "failed" => outcome'[j] = "failed"
      BY <3>1, <2>1, <2>2
    <3> QED
      BY <3>2, <3>3, <1>t, <1>e, KnownStays
  <2>6. Listening'
    <3>1. CASE overlapped[c]
      <4>1. \A b \in Callers : pc'[b] # "idle" => Current(b)' \in raced'
        BY <3>1, <2>1, <1>th, <1>e DEF Marked, Changing, UnderWay, Active, Current
      <4> QED
        BY <4>1 DEF Listening
    <3>2. CASE ~overlapped[c]
      <4>1. listeners' = listeners \ {k}
        BY <3>2, <2>1 DEF EndChange
      <4>2. \A u \in Threads \ {c} : ~Changing(u)
        BY <3>2, <2>1, <1>e DEF Apart, Changing
      <4>3. \A t \in Threads : gone'[t] = {}
        BY <4>2, <2>1 DEF EndChange
      <4>4. /\ Current(c)' = k
            /\ \A b \in Callers \ {c} : Current(b)' = Current(b) /\ Current(b) # k
        BY <2>1 DEF Current
      <4> QED
        BY <4>1, <4>3, <4>4, <2>1, <1>th, <1>e DEF Listening
    <3> QED
      BY <3>1, <3>2
  <2>7. Answered'
    BY <2>1, <1>th, <1>e DEF Answered, Current
  <2>8. ReplyReachesListener'
    BY <2>1, <1>th, <1>e DEF ReplyReachesListener, Current
  <2> QED
    BY <2>3, <2>5, <2>6, <2>7, <2>8 DEF ListInv
<1>10. ASSUME NEW c \in Callers, GetReply(c) PROVE ListInv'
  <2> DEFINE k == Current(c)
  <2>1. /\ pc[c] = "reading" /\ pc'[c] = "idle" /\ number' = number
        /\ \A u \in Threads \ {c} : pc'[u] = pc[u]
        /\ UNCHANGED list /\ c \in Threads /\ k \in Calls
        /\ requests' = requests /\ replies' = replies /\ offered' = offered
        /\ \A j \in Calls \ {k} : outcome'[j] = outcome[j]
        /\ outcome[k] = "none"
    BY <1>10, <1>t, <1>th, <1>c, <1>o DEF GetReply, Goto, Types, network
  <2>2. \A t \in Threads : Changing(t)' <=> Changing(t)
    BY <2>1 DEF Changing
  <2>3. UnderWay' \subseteq UnderWay /\ UnderWay \ {k} \subseteq UnderWay'
    BY <2>1, <1>th DEF UnderWay, Active, Current
  <2>4. Apart' /\ Marked'
    BY <2>1, <2>2, <2>3, <1>e, QuietMarks DEF list
  <2>5. \A j \in Calls : outcome[j] = "failed" => outcome'[j] = "failed"
    BY <2>1
  <2>6. k \in raced \/ (k \notin listeners /\ \A t \in Threads : k \notin gone[t])
    BY <2>1, <1>e DEF Listening
  <2>7. Known'
    BY <2>1, <2>3, <2>5, <2>6, <1>t, <1>e, KnownEnds DEF list
  <2>8. Listening' /\ Answered'
    BY <2>1, <1>th, <1>e DEF Listening, Answered, Current, list
  <2>9. ReplyReachesListener'
    BY <2>1, <1>th, <1>e DEF ReplyReachesListener, Current, list
  <2> QED
    BY <2>4, <2>7, <2>8, <2>9 DEF ListInv
<1>11. ASSUME NEW k \in Calls, Receive(k) PROVE ListInv'
  <2> DEFINE q == [to |-> k, copy |-> replies[k] + 1]
  <2>0. PICK array \in Snapshots :
          offered' = [l \in Calls |-> IF l \in array THEN offered[l] \cup {q}
                                                     ELSE offered[l]]
    BY <1>11 DEF Receive
  <2>1. /\ pc' = pc /\ number' = number /\ listeners' = listeners /\ gone' = gone
        /\ overlapped' = overlapped /\ raced \subseteq raced' /\ outcome' = outcome
        /\ requests' = requests /\ k \in requests /\ replies[k] \in Nat
        /\ replies' = [replies EXCEPT ![k] = replies[k] + 1]
    BY <1>11, <1>t DEF Receive, Types
  <2>2. /\ \A t \in Threads : Changing(t)' <=> Changing(t)
        /\ UnderWay' = UnderWay /\ \A c \in Callers : Current(c)' = Current(c)
    BY <2>1 DEF Changing, UnderWay, Active, Current
  <2>3. Apart' /\ Marked'
    BY <2>1, <2>2, <1>e, QuietMarks
  <2>4. Known'
    BY <2>1, <2>2, <1>t, <1>e, KnownStays
  <2>5. Listening'
    BY <2>1, <2>2, <1>e DEF Listening
  <2>6. Answered'
    BY <2>1, <2>2, <1>t, <1>e DEF Answered, Types
  <2>7. ReplyReachesListener'
    <3> SUFFICES ASSUME NEW c \in Callers,
                        pc[c] \in {"checking", "entering", "waiting", "woken"},
                        Current(c) \notin raced',
                        NEW p \in Packets, p.to = Current(c), p.copy <= replies'[p.to]
                 PROVE  p \in offered'[Current(c)]
      BY <2>1, <2>2 DEF ReplyReachesListener
    <3>1. Current(c) \in Calls /\ Current(c) \notin raced /\ Current(c)[1] = c
      BY <1>c, <2>1 DEF Current
    <3>2. ~Torn
      <4> SUFFICES ASSUME Torn PROVE FALSE
        OBVIOUS
      <4>1. Current(c) \in UnderWay /\ ~Changing(c)
        BY DEF UnderWay, Active, Changing
      <4> QED
        BY <4>1, <3>1, <1>11 DEF Receive
    <3>3. array = listeners
      BY <3>2 DEF Snapshots
    <3>4. Current(c) \in array
      BY <3>1, <3>3, <1>e DEF Listening
    <3>5. offered'[Current(c)] = offered[Current(c)] \cup {q}
      BY <3>1, <3>4, <2>0
    <3>6. CASE p.copy <= replies[p.to]
      BY <3>6, <3>5, <3>1, <1>e DEF ReplyReachesListener
    <3>7. CASE ~(p.copy <= replies[p.to])
      <4>1. p.to = k /\ p.copy = replies[k] + 1
        <5>1. p.to \in Calls /\ p.copy \in Nat /\ replies[p.to] \in Nat
          BY <1>t DEF Packets, Types
        <5>2. replies'[p.to] = IF p.to = k THEN replies[k] + 1 ELSE replies[p.to]
          BY <5>1, <2>1, <1>t DEF Types
        <5> QED
          BY <5>1, <5>2, <3>7
      <4>2. p = q
        BY <4>1 DEF Packets
      <4> QED
        BY <4>2, <3>5
    <3> QED
      BY <3>6, <3>7
  <2> QED
    BY <2>3, <2>4, <2>5, <2>6, <2>7 DEF ListInv
<1>12. CASE Disconnect
  <2>1. /\ pc' = pc /\ number' = number /\ UNCHANGED list /\ outcome' = outcome
        /\ requests' = requests /\ replies' = replies /\ offered' = offered
    BY <1>12 DEF Disconnect, network, history, list
  <2>2. /\ \A t \in Threads : Changing(t)' <=> Changing(t)
        /\ UnderWay' = UnderWay /\ \A c \in Callers : Current(c)' = Current(c)
    BY <2>1 DEF Changing, UnderWay, Active, Current
  <2>3. Apart' /\ Marked'
    BY <2>1, <2>2, <1>e, QuietMarks DEF list
  <2>4. Known'
    BY <2>1, <2>2, <1>t, <1>e, KnownStays DEF list
  <2>5. Listening' /\ Answered' /\ ReplyReachesListener'
    BY <2>1, <2>2, <1>e DEF Listening, Answered, ReplyReachesListener, list
  <2> QED
    BY <2>3, <2>4, <2>5 DEF ListInv
<1>13. ASSUME NEW d \in deliveries, TestReply(d) PROVE ListInv'
  <2>1. /\ pc' = pc /\ number' = number /\ UNCHANGED list /\ outcome' = outcome
        /\ requests' = requests /\ replies' = replies /\ offered' = offered
    BY <1>13 DEF TestReply, network, history, list
  <2>2. /\ \A t \in Threads : Changing(t)' <=> Changing(t)
        /\ UnderWay' = UnderWay /\ \A c \in Callers : Current(c)' = Current(c)
    BY <2>1 DEF Changing, UnderWay, Active, Current
  <2>3. Apart' /\ Marked'
    BY <2>1, <2>2, <1>e, QuietMarks DEF list
  <2>4. Known'
    BY <2>1, <2>2, <1>t, <1>e, KnownStays DEF list
  <2>5. Listening' /\ Answered' /\ ReplyReachesListener'
    BY <2>1, <2>2, <1>e DEF Listening, Answered, ReplyReachesListener, list
  <2> QED
    BY <2>3, <2>4, <2>5 DEF ListInv
<1>14. ASSUME NEW d \in deliveries, StoreReply(d) PROVE ListInv'
  <2>1. /\ pc' = pc /\ number' = number /\ UNCHANGED list /\ outcome' = outcome
        /\ requests' = requests /\ replies' = replies /\ offered' = offered
    BY <1>14 DEF StoreReply, network, history, list
  <2>2. /\ \A t \in Threads : Changing(t)' <=> Changing(t)
        /\ UnderWay' = UnderWay /\ \A c \in Callers : Current(c)' = Current(c)
    BY <2>1 DEF Changing, UnderWay, Active, Current
  <2>3. Apart' /\ Marked'
    BY <2>1, <2>2, <1>e, QuietMarks DEF list
  <2>4. Known'
    BY <2>1, <2>2, <1>t, <1>e, KnownStays DEF list
  <2>5. Listening' /\ Answered' /\ ReplyReachesListener'
    BY <2>1, <2>2, <1>e DEF Listening, Answered, ReplyReachesListener, list
  <2> QED
    BY <2>3, <2>4, <2>5 DEF ListInv
<1>15. ASSUME NEW d \in deliveries, Notify(d) PROVE ListInv'
  <2>1. /\ \A t \in Threads : pc'[t] = pc[t] \/ (pc[t] = "waiting" /\ pc'[t] = "woken")
        /\ number' = number /\ UNCHANGED list /\ outcome' = outcome
        /\ requests' = requests /\ replies' = replies /\ offered' = offered
    BY <1>15, <1>t DEF Notify, Goto, Types, network, history
  <2>2. /\ \A t \in Threads : Changing(t)' <=> Changing(t)
        /\ \A c \in Callers : Current(c)' = Current(c)
    BY <2>1 DEF Changing, Current
  <2>3. UnderWay' = UnderWay
    BY <2>1, <2>2, <1>th DEF UnderWay, Active
  <2>4. Apart' /\ Marked'
    BY <2>1, <2>2, <2>3, <1>e, QuietMarks DEF list
  <2>5. Known'
    BY <2>1, <2>3, <1>t, <1>e, KnownStays DEF list
  <2>6. Listening' /\ Answered' /\ ReplyReachesListener'
    BY <2>1, <2>2, <1>th, <1>e DEF Listening, Answered, ReplyReachesListener, list
  <2> QED
    BY <2>4, <2>5, <2>6 DEF ListInv
<1>16. CASE UNCHANGED vars
  <2>1. /\ pc' = pc /\ number' = number /\ UNCHANGED list /\ outcome' = outcome
        /\ requests' = requests /\ replies' = replies /\ offered' = offered
    BY <1>16 DEF vars, network, history, list
  <2>2. /\ \A t \in Threads : Changing(t)' <=> Changing(t)
        /\ UnderWay' = UnderWay /\ \A c \in Callers : Current(c)' = Current(c)
    BY <2>1 DEF Changing, UnderWay, Active, Current
  <2>3. Apart' /\ Marked'
    BY <2>1, <2>2, <1>e, QuietMarks DEF list
  <2>4. Known'
    BY <2>1, <2>2, <1>t, <1>e, KnownStays DEF list
  <2>5. Listening' /\ Answered' /\ ReplyReachesListener'
    BY <2>1, <2>2, <1>e DEF Listening, Answered, ReplyReachesListener, list
  <2> QED
    BY <2>3, <2>4, <2>5 DEF ListInv
<1>17. ASSUME NEW c \in Callers, WakeEarly(c) PROVE ListInv'
  <2>1. /\ pc[c] = "waiting" /\ pc'[c] \in {"woken"} /\ number' = number
        /\ \A u \in Threads \ {c} : pc'[u] = pc[u]
        /\ UNCHANGED list /\ outcome' = outcome /\ c \in Threads
        /\ requests' = requests /\ replies' = replies /\ offered' = offered
    BY <1>17, <1>t, <1>th DEF WakeEarly, Goto, Types, network, history
  <2>2. \A t \in Threads : Changing(t)' <=> Changing(t)
    BY <2>1 DEF Changing
  <2>3. UnderWay' = UnderWay
    BY <2>1, <1>th DEF UnderWay, Active, Current
  <2>4. Apart' /\ Marked'
    BY <2>1, <2>2, <2>3, <1>e, QuietMarks DEF list
  <2>5. Known'
    BY <2>1, <2>3, <1>t, <1>e, KnownStays DEF list
  <2>6. Listening' /\ Answered'
    BY <2>1, <1>th, <1>e DEF Listening, Answered, Current, list
  <2>7. ReplyReachesListener'
    BY <2>1, <1>th, <1>e DEF ReplyReachesListener, Current, list
  <2> QED
    BY <2>4, <2>5, <2>6, <2>7 DEF ListInv
<1>18. ASSUME NEW c \in Callers, ChangeThrows(c) PROVE ListInv'
  <2> DEFINE k == Current(c)
  <2>1. /\ pc[c] # "idle" /\ Changing(c) /\ pc'[c] = "idle" /\ number' = number
        /\ \A u \in Threads \ {c} : pc'[u] = pc[u]
        /\ EndChange(c, listeners) /\ ~Changing(c)' /\ c \in Threads /\ k \in Calls
        /\ overlapped[c] /\ raced' = raced /\ requests' = requests
        /\ replies' = replies /\ offered' = offered
        /\ outcome'[k] = "failed"
        /\ \A j \in Calls : outcome[j] = "failed" => outcome'[j] = "failed"
    BY <1>18, <1>t, <1>th, <1>c DEF ChangeThrows, EndChange, Goto, Changing, Types, network
  <2>2. UnderWay' \subseteq UnderWay /\ UnderWay \ {k} \subseteq UnderWay'
    BY <2>1, <1>th DEF UnderWay, Active, Current
  <2>3. Apart' /\ Marked'
    BY <2>1, <2>2, <1>t, <1>e, EndMarks
  <2>4. Known'
    <3>1. \A j \in listeners' : j \in listeners \/ j \in gone[c]
      BY <2>1 DEF EndChange
    <3>2. \A t \in Threads : \A j \in gone'[t] : j \in gone[t] \/ j \in listeners
      BY <2>1 DEF EndChange
    <3>3. /\ \A j \in listeners' : j \in listeners \/ \E t \in Threads : j \in gone[t]
          /\ raced \subseteq raced'
      BY <3>1, <2>1
    <3> QED
      BY <3>2, <3>3, <2>1, <2>2, <1>t, <1>e, KnownEnds
  <2>5. \A b \in Callers : pc'[b] # "idle" => Current(b)' \in raced'
    BY <2>1, <1>th, <1>e DEF Marked, UnderWay, Active, Current
  <2>6. Listening' /\ ReplyReachesListener'
    BY <2>5 DEF Listening, ReplyReachesListener
  <2>7. Answered'
    BY <2>1, <1>th, <1>e DEF Answered, Current
  <2> QED
    BY <2>3, <2>4, <2>6, <2>7 DEF ListInv
<1>19. ASSUME NEW o \in Others, BeginOther(o) PROVE ListInv'
  <2>1. /\ pc[o] = "idle" /\ Changing(o)' /\ number' = number
        /\ \A u \in Threads \ {o} : pc'[u] = pc[u]
        /\ BeginChange(o) /\ o \in Threads
        /\ listeners' = listeners /\ gone' = gone /\ outcome' = outcome
        /\ requests' = requests /\ replies' = replies /\ offered' = offered
        /\ raced \subseteq raced'
    BY <1>19, <1>t, <1>th DEF BeginOther, BeginChange, Goto, Changing, Types, network, history
  <2>2. Apart' /\ Marked'
    BY <2>1, <1>t, <1>e, BeginMarks
  <2>3. \A c \in Callers : pc'[c] = pc[c] /\ Current(c)' = Current(c)
    BY <2>1, <1>th DEF Current
  <2>4. UnderWay' = UnderWay
    BY <2>3 DEF UnderWay, Active
  <2>5. Known'
    BY <2>1, <2>4, <1>t, <1>e, KnownStays
  <2>6. Listening' /\ Answered' /\ ReplyReachesListener'
    BY <2>1, <2>3, <1>e DEF Listening, Answered, ReplyReachesListener
  <2> QED
    BY <2>2, <2>5, <2>6 DEF ListInv
<1>20. ASSUME NEW o \in Others, EndOther(o) PROVE ListInv'
  <2>1. /\ Changing(o) /\ ~Changing(o)' /\ number' = number /\ o \in Threads
        /\ \A u \in Threads \ {o} : pc'[u] = pc[u]
        /\ EndChange(o, listeners) /\ raced' = raced /\ outcome' = outcome
        /\ requests' = requests /\ replies' = replies /\ offered' = offered
    BY <1>20, <1>t, <1>th DEF EndOther, EndChange, Goto, Changing, Types, network, history
  <2>2. \A c \in Callers : pc'[c] = pc[c] /\ Current(c)' = Current(c)
    BY <2>1, <1>th DEF Current
  <2>3. UnderWay' = UnderWay
    BY <2>2 DEF UnderWay, Active
  <2>4. Apart' /\ Marked'
    BY <2>1, <2>3, <1>t, <1>e, EndMarks
  <2>5. Known'
    <3>1. \A j \in listeners' : j \in listeners \/ j \in gone[o]
      BY <2>1 DEF EndChange
    <3>2. \A t \in Threads : \A j \in gone'[t] : j \in gone[t] \/ j \in listeners
      BY <2>1 DEF EndChange
    <3>3. /\ \A j \in listeners' : \/ j \in listeners \/ j \in UnderWay'
                                   \/ \E t \in Threads : j \in gone[t]
          /\ UnderWay \subseteq UnderWay' /\ raced \subseteq raced'
          /\ \A j \in Calls : outcome[j] = "failed" => outcome'[j] = "failed"
      BY <3>1, <2>1, <2>3
    <3> QED
      BY <3>2, <3>3, <1>t, <1>e, KnownStays
  <2>6. Listening'
    <3>1. CASE overlapped[o]
      <4>1. \A b \in Callers : pc'[b] # "idle" => Current(b)' \in raced'
        BY <3>1, <2>1, <2>2, <1>e DEF Marked, UnderWay, Active
      <4> QED
        BY <4>1 DEF Listening
    <3>2. CASE ~overlapped[o]
      <4>1. listeners' = listeners
        BY <3>2, <2>1 DEF EndChange
      <4>2. \A t \in Threads : gone'[t] \subseteq gone[t]
        BY <4>1, <2>1 DEF EndChange
      <4> QED
        BY <4>1, <4>2, <2>1, <2>2, <1>e DEF Listening
    <3> QED
      BY <3>1, <3>2
  <2>7. Answered' /\ ReplyReachesListener'
    BY <2>1, <2>2, <1>e DEF Answered, ReplyReachesListener
  <2> QED
    BY <2>4, <2>5, <2>6, <2>7 DEF ListInv
<1> QED
  BY <1>1, <1>2, <1>3, <1>4, <1>5, <1>6, <1>7, <1>8, <1>9, <1>10, <1>11,
     <1>12, <1>13, <1>14, <1>15, <1>16, <1>17, <1>18, <1>19, <1>20, NextCases

LEMMA LInvariance == Spec => []LInv
<1> QED
  BY LInvInit, LInvNext, PTL DEF Spec

\* Whatever threads add and remove listeners, a reply misses its call's listener
\* only when two changes of the list overlapped during the call, or when the
\* reply was fired in the middle of a change.
THEOREM RepliesReach == Spec => []ReplyReachesListener
<1>1. LInv => ReplyReachesListener
  BY DEF LInv, ListInv
<1> QED
  BY <1>1, LInvariance, PTL

\* No listener outlives its call, but that of a call that failed or met another
\* thread's change of the list, however many calls and threads there are.
THEOREM NoListenerStays == Spec => []NoListenerLeft
<1>1. LInv => NoListenerLeft
  BY DEF LInv, ListInv, Known, Accounted, NoListenerLeft
<1> QED
  BY <1>1, LInvariance, PTL

-----------------------------------------------------------------------------
(* Refinement: the threads implement SynchronousCall *)

Abstract == <<AbstractStatus, offered, returned, cutShort>>

LEMMA InitRefines == Init => Promise!AInit
<1> SUFFICES ASSUME Init PROVE Promise!AInit
  OBVIOUS
<1>1. \A k \in Calls : ~(k[2] <= number[k[1]]) /\ outcome[k] = "none"
  BY DEF Init, Calls
<1>2. AbstractStatus = [k \in Calls |-> "new"]
  BY <1>1 DEF AbstractStatus
<1> QED
  BY <1>2 DEF Init, Promise!AInit

LEMMA StepRefines == IInv /\ [Next]_vars => [Promise!ANext]_(Promise!avars)
<1> SUFFICES ASSUME IInv, [Next]_vars PROVE [Promise!ANext]_(Promise!avars)
  OBVIOUS
<1> USE CallersAssumption
<1>t. Types /\ Types'
  BY TypesNext DEF IInv
<1>c. \A c \in Callers : pc[c] # "idle" => Current(c) \in Calls
  BY <1>t, CurrentIsCall
<1>th. Callers \subseteq Threads /\ Others \subseteq Threads
  BY DEF Threads
<1>s. ASSUME UNCHANGED <<number, outcome>> PROVE UNCHANGED AbstractStatus
  BY <1>s DEF AbstractStatus
<1>a. \A c \in Callers : pc[c] # "idle" =>
        /\ Current(c) \in Calls
        /\ outcome[Current(c)] = "none"
        /\ AbstractStatus[Current(c)] = "open"
  <2> SUFFICES ASSUME NEW c \in Callers, pc[c] # "idle"
               PROVE  /\ Current(c) \in Calls
                      /\ outcome[Current(c)] = "none"
                      /\ AbstractStatus[Current(c)] = "open"
    OBVIOUS
  <2>1. Current(c) \in Calls /\ Current(c)[1] = c /\ Current(c)[2] = number[c]
        /\ number[c] \in Nat
    BY <1>c, <1>t DEF Current, Types
  <2>2. outcome[Current(c)] = "none"
    BY <2>1 DEF IInv, Progress, Active
  <2> QED
    BY <2>1, <2>2 DEF AbstractStatus
<1>1. ASSUME NEW c \in Callers, BeginCall(c) PROVE Promise!ANext
  <2> DEFINE k == <<c, number[c] + 1>>
  <2>1. k \in Calls /\ k[1] = c /\ k[2] = number[c] + 1
    BY <1>1, <1>t DEF BeginCall, Calls, Types
  <2>2. outcome[k] = "none" /\ ~(k[2] <= number[k[1]])
    BY <2>1, <1>t DEF IInv, Progress, Types
  <2>3. AbstractStatus[k] = "new"
    BY <2>1, <2>2 DEF AbstractStatus
  <2>4. number' = [number EXCEPT ![c] = number[c] + 1] /\ outcome' = outcome
    BY <1>1 DEF BeginCall, history
  <2>5. AbstractStatus' = [AbstractStatus EXCEPT ![k] = "open"]
    <3> SUFFICES ASSUME NEW j \in Calls
                 PROVE  AbstractStatus'[j] = IF j = k THEN "open" ELSE AbstractStatus[j]
      BY <2>1 DEF AbstractStatus
    <3>0. /\ j = <<j[1], j[2]>> /\ j[1] \in Callers /\ j[2] \in Nat
          /\ number[j[1]] \in Nat /\ number[c] \in Nat
      BY <1>t DEF Calls, Types
    <3>1. (j[2] <= number'[j[1]]) <=> (j = k \/ j[2] <= number[j[1]])
      BY <3>0, <2>4, <1>t DEF Types
    <3> QED
      BY <3>1, <2>2, <2>4 DEF AbstractStatus
  <2> QED
    BY <1>1, <2>1, <2>3, <2>5 DEF BeginCall, history, Promise!ANext, Promise!Open
<1>2. ASSUME NEW c \in Callers, SendFails(c) PROVE Promise!ANext
  <2>1. outcome' = [outcome EXCEPT ![Current(c)] = "failed"] /\ number' = number
        /\ pc[c] # "idle"
    BY <1>2 DEF SendFails, Changing
  <2>2. AbstractStatus' = [AbstractStatus EXCEPT ![Current(c)] = "failed"]
    BY <2>1, <1>a, <1>t DEF AbstractStatus, Types
  <2> QED
    BY <1>2, <2>1, <2>2, <1>a DEF SendFails, Promise!ANext, Promise!End, Promise!Fail
<1>3. ASSUME NEW c \in Callers, GetReply(c) PROVE Promise!ANext
  <2> DEFINE k == Current(c)
  <2>0. /\ pc[c] = "reading" /\ number' = number /\ offered' = offered
        /\ cutShort' = cutShort
        /\ k \in Calls /\ k[1] = c /\ outcome[k] = "none" /\ AbstractStatus[k] = "open"
        /\ returned' = [returned EXCEPT ![k] = replyPacket[k]]
    BY <1>3, <1>a DEF GetReply, Current
  <2>1. CASE replyPacket[k] = NoPacket
    <3>1. outcome' = [outcome EXCEPT ![k] = "noReply"]
      BY <2>1, <1>3 DEF GetReply
    <3>2. AbstractStatus' = [AbstractStatus EXCEPT ![k] = "noReply"]
      BY <3>1, <2>0, <1>t DEF AbstractStatus, Types
    <3>3. returned[k] = NoPacket
      BY <2>0 DEF IInv, Results
    <3>4. returned' = returned
      BY <3>3, <2>0, <2>1, <1>t DEF Types
    <3>5. c \notin Untimed \/ k \in cutShort
      BY <2>0, <2>1 DEF IInv, UntimedHolds
    <3> QED
      BY <3>2, <3>4, <3>5, <2>0 DEF Promise!ANext, Promise!End, Promise!GiveUp
  <2>2. CASE replyPacket[k] # NoPacket
    <3>1. outcome' = [outcome EXCEPT ![k] = "replied"]
      BY <2>2, <1>3 DEF GetReply
    <3>2. AbstractStatus' = [AbstractStatus EXCEPT ![k] = "replied"]
      BY <3>1, <2>0, <1>t DEF AbstractStatus, Types
    <3>3. replyPacket[k] \in offered[k] /\ Accepts(k, replyPacket[k])
      BY <2>0, <2>2 DEF IInv, Held
    <3> QED
      BY <3>2, <3>3, <2>0 DEF Promise!ANext, Promise!End, Promise!Reply
  <2> QED
    BY <2>1, <2>2
<1>4. ASSUME NEW k \in Calls, Receive(k) PROVE Promise!ANext
  <2> DEFINE p == [to |-> k, copy |-> replies[k] + 1]
  <2>1. p \in Packets
    BY <1>4, <1>t DEF Receive, Types, Packets
  <2>2. PICK array \in Snapshots :
          offered' = [l \in Calls |-> IF l \in array THEN offered[l] \cup {p}
                                                     ELSE offered[l]]
    BY <1>4 DEF Receive
  <2>3. array \in SUBSET {l \in Calls : AbstractStatus[l] # "new"}
    BY <1>t DEF IInv, Progress, Types, AbstractStatus, Snapshots
  <2>4. AbstractStatus' = AbstractStatus /\ returned' = returned /\ cutShort' = cutShort
    BY <1>4, <1>s DEF Receive
  <2>5. Promise!Offer(p)
    BY <2>2, <2>3, <2>4 DEF Promise!Offer
  <2> QED
    BY <2>1, <2>5 DEF Promise!ANext
<1>5. ASSUME NEW c \in Callers, Send(c) PROVE UNCHANGED Abstract
  BY <1>5, <1>s DEF Send, history, Abstract
<1>6. ASSUME NEW c \in Callers, CheckReply(c) PROVE UNCHANGED Abstract
  BY <1>6, <1>s DEF CheckReply, history, Abstract
<1>7. ASSUME NEW c \in Callers, Wait(c) PROVE UNCHANGED Abstract
  BY <1>7, <1>s DEF Wait, history, Abstract
<1>8. ASSUME NEW c \in Callers, Timeout(c) PROVE UNCHANGED Abstract
  BY <1>8, <1>s DEF Timeout, history, Abstract
<1>9. ASSUME NEW c \in Callers, BeginRemove(c) PROVE UNCHANGED Abstract
  BY <1>9, <1>s DEF BeginRemove, history, Abstract
<1>10. ASSUME NEW c \in Callers, AddListener(c) PROVE UNCHANGED Abstract
  BY <1>10, <1>s DEF AddListener, history, Abstract
<1>11. ASSUME NEW c \in Callers, RemoveListener(c) PROVE UNCHANGED Abstract
  BY <1>11, <1>s DEF RemoveListener, history, Abstract
<1>12. CASE Disconnect
  BY <1>12, <1>s DEF Disconnect, history, Abstract, Promise!avars
<1>13. ASSUME NEW d \in deliveries, TestReply(d) PROVE UNCHANGED Abstract
  BY <1>13, <1>s DEF TestReply, history, Abstract
<1>14. ASSUME NEW d \in deliveries, StoreReply(d) PROVE UNCHANGED Abstract
  BY <1>14, <1>s DEF StoreReply, history, Abstract
<1>15. ASSUME NEW d \in deliveries, Notify(d) PROVE UNCHANGED Abstract
  BY <1>15, <1>s DEF Notify, history, Abstract
<1>16. CASE UNCHANGED vars
  BY <1>16, <1>s DEF vars, history, Abstract, Promise!avars
<1>17. ASSUME NEW c \in Callers, WakeEarly(c) PROVE Promise!ANext
  <2>1. pc[c] # "idle" /\ UNCHANGED AbstractStatus
    BY <1>17, <1>s DEF WakeEarly
  <2> QED
    BY <1>17, <2>1, <1>a DEF WakeEarly, Promise!ANext, Promise!Interrupt
<1>18. ASSUME NEW c \in Callers, ChangeThrows(c) PROVE Promise!ANext
  <2>1. outcome' = [outcome EXCEPT ![Current(c)] = "failed"] /\ number' = number
        /\ pc[c] # "idle"
    BY <1>18 DEF ChangeThrows, Changing
  <2>2. AbstractStatus' = [AbstractStatus EXCEPT ![Current(c)] = "failed"]
    BY <2>1, <1>a, <1>t DEF AbstractStatus, Types
  <2> QED
    BY <1>18, <2>1, <2>2, <1>a DEF ChangeThrows, Promise!ANext, Promise!End, Promise!Fail
<1>19. ASSUME NEW o \in Others, BeginOther(o) PROVE UNCHANGED Abstract
  BY <1>19, <1>s DEF BeginOther, history, Abstract
<1>20. ASSUME NEW o \in Others, EndOther(o) PROVE UNCHANGED Abstract
  BY <1>20, <1>s DEF EndOther, history, Abstract
<1> QED
  BY <1>1, <1>2, <1>3, <1>4, <1>5, <1>6, <1>7, <1>8, <1>9, <1>10, <1>11, <1>12, <1>13,
     <1>14, <1>15, <1>16, <1>17, <1>18, <1>19, <1>20, NextCases DEF Abstract, Promise!avars

\* sendAndReceive keeps its promise: whatever the threads do is a behaviour of
\* SynchronousCall (the safety half of PromiseKept; the run checks the rest).
THEOREM PromiseSafe == Spec => Promise!ASpec
<1> QED
  BY InitRefines, StepRefines, Invariance, PTL DEF Spec, Promise!ASpec
=============================================================================
