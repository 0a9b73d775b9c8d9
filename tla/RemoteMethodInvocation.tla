----------------------- MODULE RemoteMethodInvocation -----------------------
(***************************************************************************)
(* Remote method invocation over one HostConnection, from the side whose   *)
(* proxies are invoked to the side whose objects they stand for.  A proxy  *)
(* sends a Request with sendAndReceive, whose behaviour is that of module  *)
(* SynchronousCall (PacketConnection implements it); the other side's      *)
(* InvokeListener serves every Request on a thread of its own and answers  *)
(* with a Reply, which is an Error when something went wrong.  A result    *)
(* that is Remote itself is registered and travels as its ID.              *)
(***************************************************************************)
EXTENDS Naturals, FiniteSets

CONSTANTS
  Threads,   \* the threads that invoke methods on proxies
  MaxCalls,  \* bound: invocations per thread
  MaxInAll,  \* bound: invocations of all threads
  Methods,   \* the methods of the remote interfaces
  Objects,   \* the Remote objects of the serving side, all of the same hash code
  Root,      \* the one of them that was registered beforehand
  MaxID,     \* bound: the highest object ID that is tried
  None       \* Java's null

ASSUME ObjectsAssumption ==
  /\ MaxCalls \in Nat /\ MaxInAll \in Nat /\ MaxID \in Nat \ {0}
  /\ Root \in Objects /\ None \notin Objects

\* The hash code is 1; ID 0 is the one a handshake announces (nobody calls
\* getLocalDeviceImplementationID), no object is registered under it.
HashCode == 1
IDs == HashCode .. MaxID

\* An invocation: the ID its proxy stands for and the method are those of its
\* Request.
Calls == [thread : Threads, number : 1 .. MaxCalls, id : 0 .. MaxID, method : Methods]

\* A Reply: its origin request, a plain value or the RemoteDummy of an object, or an
\* Error.
Kinds == {"value", "remote", "error"}
Packets == [origin : Calls, kind : Kinds, id : 0 .. MaxID, object : Objects \cup {None}]

VARIABLES
  status, offered, returned,  \* of SynchronousCall
  serving,    \* where the InvokeListener's thread for each Request is
  result,     \* the object its method returned
  candidate,  \* objectID in its registerObject
  objectMap,  \* the objects by their IDs
  proxies,    \* the proxies there are: an ID and the object it stands for
  contested,  \* history: the IDs that were put while another ID was, too
  alongside   \* history: the invocations that were under way at the same time

calling == <<status, offered, returned>>
listening == <<serving, result, candidate, objectMap>>
history == <<contested, alongside>>
vars == <<calling, listening, proxies, history>>

\* The filter of InvocationHandler.invoke: the origin request has the same
\* namespace, object ID and method.  Arguments do not count.
SameMethodOnly(k, p) == k.method = p.origin.method
SameMethod(k, p) == k.id = p.origin.id /\ k.method = p.origin.method

Connection == INSTANCE SynchronousCall WITH
  Timed <- Calls, Accepts <- SameMethod, NoPacket <- None, interrupted <- {}

Init ==
  /\ Connection!AInit
  /\ serving = [k \in Calls |-> "none"]
  /\ result = [k \in Calls |-> None]
  /\ candidate = [k \in Calls |-> 0]
  /\ objectMap = [i \in IDs |-> IF i = HashCode THEN Root ELSE None]
  /\ proxies = {<<0, None>>, <<HashCode, Root>>}
  /\ contested = {} /\ alongside = {}

-----------------------------------------------------------------------------
(* InvocationHandler.invoke *)

\* The invocations of a thread follow one another.
Earlier(k) == {j \in Calls : j.thread = k.thread /\ j.number < k.number}
Free(k) ==
  /\ \A j \in Calls : j.thread = k.thread => status[j] # "open"
  /\ \A j \in Calls : j.thread = k.thread /\ j.number = k.number => status[j] = "new"
  /\ Cardinality({j \in Calls : status[j] # "new"}) < MaxInAll
  /\ k.number > 1 => \E j \in Earlier(k) : j.number = k.number - 1 /\ status[j] # "new"

\* Its caller waits, or the other side works on it.
UnderWay(k) == status[k] = "open" \/ serving[k] \in {"sent", "found", "testing", "putting"}

Invoke(k) ==
  /\ Free(k)
  /\ \E proxy \in proxies : proxy[1] = k.id
  /\ Connection!Open(k)
  /\ serving' = [serving EXCEPT ![k] = "sent"]
  /\ alongside' = alongside \cup {{j, k} : j \in {i \in Calls : UnderWay(i)}}
  /\ UNCHANGED <<result, candidate, objectMap, proxies, contested>>

\* A RemoteDummy becomes a proxy.
GetResult(k) ==
  /\ Connection!Reply(k)
  /\ LET p == returned'[k]
     IN proxies' = proxies \cup IF p.kind = "remote" THEN {<<p.id, p.object>>} ELSE {}
  /\ UNCHANGED <<listening, history>>

\* No reply within the timeout of 5 s, however long the method takes.
GetNoResult(k) ==
  /\ Connection!GiveUp(k)
  /\ UNCHANGED <<listening, proxies, history>>

\* send throws, and the Request has got through or not.
SendFails(k) ==
  /\ serving[k] = "sent"
  /\ Connection!Fail(k)
  /\ serving' \in {serving, [serving EXCEPT ![k] = "done"]}
  /\ UNCHANGED <<result, candidate, objectMap, proxies, history>>

-----------------------------------------------------------------------------
(* InvokeListener.packetReceived *)

\* send: the Reply reaches invocations that are still waiting and let it pass.
Answer(k, kind, id) ==
  LET p == [origin |-> k, kind |-> kind, id |-> id, object |-> result[k]]
  IN /\ Connection!Offer(p)
     /\ \A j \in Calls : status[j] # "open" \/ ~SameMethod(j, p) => UNCHANGED offered[j]
     /\ serving' = [serving EXCEPT ![k] = "done"]

\* objectMap.get: without an object the Reply is an Error.
FindObject(k) ==
  /\ serving[k] = "sent"
  /\ IF k.id \in IDs /\ objectMap[k.id] # None
     THEN serving' = [serving EXCEPT ![k] = "found"] /\ UNCHANGED calling
     ELSE Answer(k, "error", 0)
  /\ UNCHANGED <<result, candidate, objectMap, proxies, history>>

\* The method returns a plain value; there is no such method, it throws, or it returns
\* what cannot be sent.
InvokeMethod(k) ==
  /\ serving[k] = "found"
  /\ \E kind \in {"value", "error"} : Answer(k, kind, 0)
  /\ UNCHANGED <<result, candidate, objectMap, proxies, history>>

\* The method returns a Remote object: registerObject begins with its hash code.
InvokeRemoteMethod(k) ==
  /\ serving[k] = "found"
  /\ \E o \in Objects : result' = [result EXCEPT ![k] = o]
  /\ candidate' = [candidate EXCEPT ![k] = HashCode]
  /\ serving' = [serving EXCEPT ![k] = "testing"]
  /\ UNCHANGED <<calling, objectMap, proxies, history>>

\* A mutant of TestID.
TestNothing(k) ==
  /\ serving[k] = "testing"
  /\ serving' = [serving EXCEPT ![k] = "putting"]
  /\ UNCHANGED <<calling, result, candidate, objectMap, proxies, history>>

\* while (objectMap.containsKey(objectID)) objectID += (int) (Math.random() * 31)
TestID(k) ==
  /\ serving[k] = "testing"
  /\ IF objectMap[candidate[k]] # None
     THEN /\ \E i \in candidate[k] .. MaxID : candidate' = [candidate EXCEPT ![k] = i]
          /\ UNCHANGED serving
     ELSE /\ serving' = [serving EXCEPT ![k] = "putting"]
          /\ UNCHANGED candidate
  /\ UNCHANGED <<calling, result, objectMap, proxies, history>>

\* objectMap.put, which replaces what may be there by now; the Reply.  The map is an
\* unsynchronized HashMap: of two puts at once, one may get lost.
PutObject(k) ==
  /\ serving[k] = "putting"
  /\ LET rivals == {j \in Calls \ {k} : serving[j] = "putting"}
     IN /\ \/ objectMap' = [objectMap EXCEPT ![candidate[k]] = result[k]]
           \/ rivals # {} /\ UNCHANGED objectMap
        /\ contested' = contested \cup
             IF rivals = {} THEN {} ELSE {candidate[j] : j \in rivals \cup {k}}
  /\ Answer(k, "remote", candidate[k])
  /\ UNCHANGED <<result, candidate, proxies, alongside>>

-----------------------------------------------------------------------------
Next ==
  \E k \in Calls :
    \/ Invoke(k) \/ GetResult(k) \/ GetNoResult(k) \/ SendFails(k)
    \/ FindObject(k) \/ InvokeMethod(k) \/ InvokeRemoteMethod(k)
    \/ TestID(k) \/ PutObject(k)

Spec == Init /\ [][Next]_vars

-----------------------------------------------------------------------------
(* Properties *)

Replied(k) == status[k] = "replied"

\* Every variable keeps its type; a RemoteDummy has an ID that was searched for it.
TypeOK ==
  /\ status \in [Calls -> Connection!Statuses]
  /\ offered \in [Calls -> SUBSET Packets]
  /\ returned \in [Calls -> Packets \cup {None}]
  /\ serving \in [Calls -> {"none", "sent", "found", "testing", "putting", "done"}]
  /\ result \in [Calls -> Objects \cup {None}]
  /\ candidate \in [Calls -> 0 .. MaxID]
  /\ objectMap \in [IDs -> Objects \cup {None}]
  /\ \A k \in Calls : \A p \in offered[k] : p.kind = "remote" <=> p.id \in IDs
  /\ proxies \subseteq (0 .. MaxID) \X (Objects \cup {None})
  /\ contested \subseteq IDs
  /\ alongside \subseteq SUBSET Calls

\* "making it available to all added connections invoking on the objectID"
\* (RemoteMethodInvocation.java:98).
ObjectAvailable ==
  \A proxy \in proxies : proxy[1] \in IDs => objectMap[proxy[1]] = proxy[2]

\* It takes two puts at once to break that: an ID that was sent to the other side and
\* was put alone keeps standing for the object it was sent for, through invocations
\* that are given up, repeated or served late, and searches for other IDs.
ProxyKeepsObject ==
  \A proxy \in proxies :
    proxy[1] \in IDs \ contested => objectMap[proxy[1]] = proxy[2]

\* "returns the expected reply if received" (PacketConnection.java:120): what an
\* invocation returns is the Reply to its own Request.
ResultOfOwnRequest == \A k \in Calls : Replied(k) => returned[k].origin = k

\* How far the code is from it: a result may belong to another invocation, of the same
\* method of the same object, but only to one that was under way while this one was; a
\* Reply that was sent before never is.
ResultOfSameMethod ==
  \A k \in Calls : Replied(k) =>
    LET origin == returned[k].origin
    IN /\ origin.id = k.id /\ origin.method = k.method
       /\ origin # k => {origin, k} \in alongside
=============================================================================
