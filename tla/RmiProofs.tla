----------------------------- MODULE RmiProofs -----------------------------
(***************************************************************************)
(* Proofs about RemoteMethodInvocation, for any number of calls, methods,  *)
(* objects and IDs.                                                        *)
(***************************************************************************)
EXTENDS RemoteMethodInvocation, TLAPS

\* The thread that serves a Request is on its way to a Reply.
InProgress(k) == serving[k] \in {"sent", "found", "testing", "putting"}

\* registerObject runs: an ID is searched for the object that the method returned.
Registering(k) == serving[k] \in {"testing", "putting"}

IDsSearched == \A k \in Calls : Registering(k) => candidate[k] \in IDs

Types == TypeOK /\ IDsSearched

LEMMA CallFields ==
  \A k \in Calls : k.id \in 0 .. MaxID
  BY DEF Calls

\* What InvokeListener's send changes.
LEMMA AnswerEffect ==
  ASSUME Types, NEW k \in Calls, NEW kind \in Kinds, NEW id \in 0 .. MaxID,
         kind = "remote" <=> id \in IDs,
         Answer(k, kind, id)
  PROVE  LET p == [origin |-> k, kind |-> kind, id |-> id, object |-> result[k]]
         IN  /\ p \in Packets
             /\ UNCHANGED <<status, returned>>
             /\ offered' \in [Calls -> SUBSET Packets]
             /\ \A j \in Calls : offered'[j] \subseteq offered[j] \cup {p}
             /\ \A j \in Calls : status[j] # "open" \/ ~SameMethod(j, p) => offered'[j] = offered[j]
             /\ \A j \in Calls : \A q \in offered'[j] : q.kind = "remote" <=> q.id \in IDs
             /\ serving' = [serving EXCEPT ![k] = "done"]
<1> DEFINE p == [origin |-> k, kind |-> kind, id |-> id, object |-> result[k]]
<1>1. result[k] \in Objects \cup {None}
  BY DEF Types, TypeOK
<1>2. p \in Packets
  BY <1>1 DEF Packets
<1>3. /\ UNCHANGED <<status, returned>>
      /\ serving' = [serving EXCEPT ![k] = "done"]
      /\ \A j \in Calls : status[j] # "open" \/ ~SameMethod(j, p) => offered'[j] = offered[j]
  BY DEF Answer, Connection!Offer
<1>4. PICK reached \in SUBSET {j \in Calls : status[j] # "new"} :
        offered' = [j \in Calls |-> IF j \in reached THEN offered[j] \cup {p}
                                                       ELSE offered[j]]
  BY DEF Answer, Connection!Offer
<1>5. /\ offered' \in [Calls -> SUBSET Packets]
      /\ \A j \in Calls : offered'[j] \subseteq offered[j] \cup {p}
  BY <1>2, <1>4 DEF Types, TypeOK
<1>6. p.kind = "remote" <=> p.id \in IDs
  OBVIOUS
<1>7. \A j \in Calls : \A q \in offered'[j] : q.kind = "remote" <=> q.id \in IDs
  BY <1>5, <1>6 DEF Types, TypeOK
<1> QED
  BY <1>2, <1>3, <1>5, <1>7

LEMMA AnswerTypes ==
  ASSUME Types, NEW k \in Calls, NEW kind \in Kinds, NEW id \in 0 .. MaxID,
         kind = "remote" <=> id \in IDs,
         Answer(k, kind, id),
         UNCHANGED <<result, candidate, proxies, alongside>>,
         objectMap' \in [IDs -> Objects \cup {None}], contested' \subseteq IDs
  PROVE  Types'
<1>1. /\ UNCHANGED <<status, returned>>
      /\ offered' \in [Calls -> SUBSET Packets]
      /\ \A j \in Calls : \A q \in offered'[j] : q.kind = "remote" <=> q.id \in IDs
      /\ serving' = [serving EXCEPT ![k] = "done"]
  BY AnswerEffect
<1> QED
  BY <1>1 DEF Types, TypeOK, IDsSearched, Registering

LEMMA TypesInit == Init => Types
<1> SUFFICES ASSUME Init PROVE Types
  OBVIOUS
<1> USE DEF Init, Connection!AInit
<1>1. status \in [Calls -> Connection!Statuses] /\ offered \in [Calls -> SUBSET Packets]
  BY DEF Connection!Statuses
<1>2. objectMap \in [IDs -> Objects \cup {None}]
  BY ObjectsAssumption
<1>3. candidate \in [Calls -> 0 .. MaxID] /\ proxies \subseteq (0 .. MaxID) \X (Objects \cup {None})
  BY ObjectsAssumption DEF HashCode
<1>4. returned \in [Calls -> Packets \cup {None}] /\ result \in [Calls -> Objects \cup {None}]
  OBVIOUS
<1>5. \A k \in Calls : \A p \in offered[k] : p.kind = "remote" <=> p.id \in IDs
  OBVIOUS
<1>6. serving \in [Calls -> {"none", "sent", "found", "testing", "putting", "done"}]
  OBVIOUS
<1>7. IDsSearched
  BY DEF IDsSearched, Registering
<1>8. contested \subseteq IDs /\ alongside \subseteq SUBSET Calls
  OBVIOUS
<1> HIDE DEF Init, Connection!AInit
<1> QED
  BY <1>1, <1>2, <1>3, <1>4, <1>5, <1>6, <1>7, <1>8 DEF Types, TypeOK

LEMMA TypesStep == Types /\ [Next]_vars => Types'
<1> SUFFICES ASSUME Types, [Next]_vars PROVE Types'
  OBVIOUS
<1>0. CASE UNCHANGED vars
  BY <1>0 DEF vars, calling, listening, history, Types, TypeOK, IDsSearched, Registering
<1> SUFFICES ASSUME NEW k \in Calls,
                    \/ Invoke(k) \/ GetResult(k) \/ GetNoResult(k) \/ SendFails(k)
                    \/ FindObject(k) \/ InvokeMethod(k) \/ InvokeRemoteMethod(k)
                    \/ TestID(k) \/ PutObject(k)
             PROVE  Types'
  BY <1>0 DEF Next
<1> USE ObjectsAssumption
<1>1. CASE Invoke(k)
  <2>1. alongside' \subseteq SUBSET Calls
    BY <1>1 DEF Invoke, Types, TypeOK
  <2>2. /\ status' = [status EXCEPT ![k] = "open"] /\ serving' = [serving EXCEPT ![k] = "sent"]
        /\ UNCHANGED <<offered, returned, result, candidate, objectMap, proxies, contested>>
    BY <1>1 DEF Invoke, Connection!Open
  <2> QED
    BY <2>1, <2>2 DEF Connection!Statuses, Types, TypeOK, IDsSearched, Registering
<1>2. CASE GetResult(k)
  <2>1. PICK p \in offered[k] : returned' = [returned EXCEPT ![k] = p]
    BY <1>2 DEF GetResult, Connection!Reply
  <2>2. p \in Packets
    BY DEF Types, TypeOK
  <2>3. returned' \in [Calls -> Packets \cup {None}] /\ returned'[k] = p
    BY <2>1, <2>2 DEF Types, TypeOK
  <2>4. <<p.id, p.object>> \in (0 .. MaxID) \X (Objects \cup {None})
    BY <2>2 DEF Packets
  <2>5. proxies' \subseteq (0 .. MaxID) \X (Objects \cup {None})
    BY <1>2, <2>3, <2>4 DEF GetResult, Types, TypeOK
  <2>6. status' \in [Calls -> Connection!Statuses] /\ UNCHANGED <<offered, listening, history>>
    BY <1>2 DEF GetResult, Connection!Reply, Connection!Statuses, Types, TypeOK
  <2> QED
    BY <2>3, <2>5, <2>6 DEF listening, history, Types, TypeOK, IDsSearched, Registering
<1>3. CASE GetNoResult(k)
  BY <1>3 DEF GetNoResult, Connection!GiveUp, Connection!Statuses, listening, history, Types, TypeOK,
              IDsSearched, Registering
<1>4. CASE SendFails(k)
  BY <1>4 DEF SendFails, Connection!Fail, Connection!Statuses, history, Types, TypeOK,
              IDsSearched, Registering
<1>5. CASE FindObject(k)
  <2>1. CASE Answer(k, "error", 0)
    <3>1. "error" \in Kinds /\ 0 \in 0 .. MaxID /\ ("error" = "remote" <=> 0 \in IDs)
      BY DEF Kinds, IDs, HashCode
    <3>2. /\ UNCHANGED <<result, candidate, proxies, alongside>>
          /\ objectMap' \in [IDs -> Objects \cup {None}] /\ contested' \subseteq IDs
      BY <1>5 DEF FindObject, history, Types, TypeOK
    <3> QED
      BY <2>1, <3>1, <3>2, AnswerTypes
  <2>2. CASE serving' = [serving EXCEPT ![k] = "found"] /\ UNCHANGED calling
    BY <1>5, <2>2 DEF FindObject, calling, history, Types, TypeOK, IDsSearched, Registering
  <2> QED
    BY <1>5, <2>1, <2>2 DEF FindObject
<1>6. CASE InvokeMethod(k)
  <2>1. PICK kind \in {"value", "error"} : Answer(k, kind, 0)
    BY <1>6 DEF InvokeMethod
  <2>2. kind \in Kinds /\ 0 \in 0 .. MaxID /\ (kind = "remote" <=> 0 \in IDs)
    BY DEF Kinds, IDs, HashCode
  <2>3. /\ UNCHANGED <<result, candidate, proxies, alongside>>
        /\ objectMap' \in [IDs -> Objects \cup {None}] /\ contested' \subseteq IDs
    BY <1>6 DEF InvokeMethod, history, Types, TypeOK
  <2> QED
    BY <2>1, <2>2, <2>3, AnswerTypes
<1>7. CASE InvokeRemoteMethod(k)
  BY <1>7 DEF InvokeRemoteMethod, calling, history, IDs, HashCode, Types, TypeOK, IDsSearched,
              Registering
<1>8. CASE TestID(k)
  <2>1. candidate[k] \in IDs
    BY <1>8 DEF TestID, Types, IDsSearched, Registering
  <2>2. CASE objectMap[candidate[k]] # None
    <3>1. PICK i \in candidate[k] .. MaxID : candidate' = [candidate EXCEPT ![k] = i]
      BY <1>8, <2>2 DEF TestID
    <3>2. i \in IDs /\ i \in 0 .. MaxID
      BY <2>1 DEF IDs, HashCode
    <3>3. UNCHANGED <<calling, serving, result, objectMap, proxies, history>>
      BY <1>8, <2>2 DEF TestID
    <3> QED
      BY <3>1, <3>2, <3>3 DEF calling, history, Types, TypeOK, IDsSearched, Registering
  <2>3. CASE objectMap[candidate[k]] = None
    BY <1>8, <2>1, <2>3 DEF TestID, calling, history, Types, TypeOK, IDsSearched, Registering
  <2> QED
    BY <2>2, <2>3
<1>9. CASE PutObject(k)
  <2>1. candidate[k] \in IDs /\ candidate[k] \in 0 .. MaxID
    BY <1>9 DEF PutObject, Types, TypeOK, IDsSearched, Registering
  <2>2. "remote" \in Kinds /\ Answer(k, "remote", candidate[k])
    BY <1>9 DEF PutObject, Kinds
  <2>3. /\ UNCHANGED <<result, candidate, proxies, alongside>>
        /\ objectMap' \in [IDs -> Objects \cup {None}]
    <3>1. result[k] \in Objects \cup {None}
      BY DEF Types, TypeOK
    <3> QED
      BY <1>9, <3>1 DEF PutObject, Types, TypeOK
  <2>4. contested' \subseteq IDs
    <3> DEFINE rivals == {j \in Calls \ {k} : serving[j] = "putting"}
    <3>1. \A j \in rivals \cup {k} : candidate[j] \in IDs
      BY <2>1 DEF Types, IDsSearched, Registering
    <3>2. contested' \subseteq contested \cup {candidate[j] : j \in rivals \cup {k}}
      BY <1>9 DEF PutObject
    <3> HIDE DEF rivals
    <3> QED
      BY <3>1, <3>2 DEF Types, TypeOK
  <2> QED
    BY <2>1, <2>2, <2>3, <2>4, AnswerTypes
<1> QED
  BY <1>1, <1>2, <1>3, <1>4, <1>5, <1>6, <1>7, <1>8, <1>9

\* Every variable keeps its type whatever threads, timeouts and objects there are; the
\* IDs of RemoteDummies are IDs that registerObject searched.
THEOREM TypeCorrect == Spec => []TypeOK
<1>1. Types => TypeOK
  BY DEF Types
<1> QED
  BY <1>1, TypesInit, TypesStep, PTL DEF Spec


-----------------------------------------------------------------------------
(* What an ID stands for *)

\* An ID that was found free is free when it is put, or it is contested by then.
FreeUntilPut ==
  \A k \in Calls : /\ Registering(k) => result[k] \in Objects
                   /\ serving[k] = "putting" =>
                        objectMap[candidate[k]] = None \/ candidate[k] \in contested

\* What was sent to the other side, as a RemoteDummy or a proxy, is registered.
DummiesRegistered ==
  \A k \in Calls : \A p \in offered[k] :
    p.id \in IDs \ contested => p.object \in Objects /\ objectMap[p.id] = p.object

ProxiesRegistered ==
  \A proxy \in proxies :
    proxy[1] \in IDs \ contested => proxy[2] \in Objects /\ objectMap[proxy[1]] = proxy[2]

Registered == FreeUntilPut /\ DummiesRegistered /\ ProxiesRegistered

\* The objects of uncontested IDs stay, and no ID becomes uncontested.
Kept ==
  /\ contested \subseteq contested'
  /\ \A i \in IDs \ contested' : objectMap[i] # None => objectMap'[i] = objectMap[i]

LEMMA RegisteredInit == Init => Registered
<1> SUFFICES ASSUME Init PROVE Registered
  OBVIOUS
<1>1. HashCode \in IDs /\ 0 \notin IDs
  BY ObjectsAssumption DEF HashCode, IDs
<1>2. ProxiesRegistered
  BY <1>1, ObjectsAssumption DEF Init, ProxiesRegistered
<1>3. DummiesRegistered
  BY DEF Init, Connection!AInit, DummiesRegistered
<1>4. FreeUntilPut
  BY DEF Init, FreeUntilPut, Registering
<1> QED
  BY <1>2, <1>3, <1>4 DEF Registered

\* What was sent stays registered as long as its ID is not contested.
LEMMA KeptDummies ==
  ASSUME Types, Registered, Kept
  PROVE  /\ \A k \in Calls : \A p \in offered[k] :
              p.id \in IDs \ contested' => p.object \in Objects /\ objectMap'[p.id] = p.object
         /\ \A proxy \in proxies : proxy[1] \in IDs \ contested' =>
              proxy[2] \in Objects /\ objectMap'[proxy[1]] = proxy[2]
  BY ObjectsAssumption DEF Registered, DummiesRegistered, ProxiesRegistered, Kept

\* The Reply of an invocation says nothing that is not so.
LEMMA AnswerKeeps ==
  ASSUME Types, Registered, Kept, NEW k \in Calls, NEW kind \in Kinds, NEW id \in 0 .. MaxID,
         kind = "remote" <=> id \in IDs,
         Answer(k, kind, id), UNCHANGED proxies,
         id \in IDs \ contested' => result[k] \in Objects /\ objectMap'[id] = result[k]
  PROVE  DummiesRegistered' /\ ProxiesRegistered'
<1> DEFINE p == [origin |-> k, kind |-> kind, id |-> id, object |-> result[k]]
<1>1. \A j \in Calls : offered'[j] \subseteq offered[j] \cup {p}
  BY AnswerEffect
<1>2. p.id = id /\ p.object = result[k]
  OBVIOUS
<1>3. DummiesRegistered'
  <2> SUFFICES ASSUME NEW j \in Calls, NEW q \in offered'[j], q.id \in IDs \ contested'
               PROVE  q.object \in Objects /\ objectMap'[q.id] = q.object
    BY DEF DummiesRegistered
  <2> HIDE DEF p
  <2>1. CASE q = p
    BY <1>2, <2>1
  <2>2. CASE q \in offered[j]
    BY <2>2, KeptDummies
  <2> QED
    BY <1>1, <2>1, <2>2
<1>4. ProxiesRegistered'
  BY KeptDummies DEF ProxiesRegistered
<1> QED
  BY <1>3, <1>4

LEMMA RegisteredStep == Types /\ Registered /\ [Next]_vars => Registered'
<1> SUFFICES ASSUME Types, Registered, [Next]_vars PROVE Registered'
  OBVIOUS
<1>0. CASE UNCHANGED vars
  BY <1>0 DEF vars, calling, listening, history, Registered, FreeUntilPut, Registering,
              DummiesRegistered, ProxiesRegistered
<1> SUFFICES ASSUME NEW k \in Calls,
                    \/ Invoke(k) \/ GetResult(k) \/ GetNoResult(k) \/ SendFails(k)
                    \/ FindObject(k) \/ InvokeMethod(k) \/ InvokeRemoteMethod(k)
                    \/ TestID(k) \/ PutObject(k)
             PROVE  Registered'
  BY <1>0 DEF Next
<1>1. CASE Invoke(k)
  <2>1. /\ serving' = [serving EXCEPT ![k] = "sent"]
        /\ UNCHANGED <<offered, result, candidate, objectMap, proxies, contested>>
    BY <1>1 DEF Invoke, Connection!Open
  <2> QED
    BY <2>1 DEF Types, TypeOK, Registered, FreeUntilPut, Registering, DummiesRegistered,
                ProxiesRegistered
<1>2. CASE GetResult(k)
  <2>1. PICK p \in offered[k] : returned' = [returned EXCEPT ![k] = p]
    BY <1>2 DEF GetResult, Connection!Reply
  <2>2. /\ UNCHANGED <<offered, serving, result, candidate, objectMap, contested>>
        /\ proxies' = proxies \cup IF p.kind = "remote" THEN {<<p.id, p.object>>} ELSE {}
    BY <1>2, <2>1 DEF GetResult, Connection!Reply, listening, history, Types, TypeOK
  <2>3. FreeUntilPut' /\ DummiesRegistered'
    BY <2>2 DEF Registered, FreeUntilPut, Registering, DummiesRegistered
  <2>4. ProxiesRegistered'
    BY <2>2 DEF Registered, ProxiesRegistered, DummiesRegistered
  <2> QED
    BY <2>3, <2>4 DEF Registered
<1>3. CASE GetNoResult(k) \/ SendFails(k)
  <2>1. /\ UNCHANGED <<offered, result, candidate, objectMap, proxies, contested>>
        /\ serving' \in {serving, [serving EXCEPT ![k] = "done"]}
    BY <1>3 DEF GetNoResult, SendFails, Connection!GiveUp, Connection!Fail, listening, history
  <2> QED
    BY <2>1 DEF Types, TypeOK, Registered, FreeUntilPut, Registering, DummiesRegistered,
                ProxiesRegistered
<1>5. CASE FindObject(k)
  <2>1. UNCHANGED <<result, candidate, objectMap, proxies, contested>>
    BY <1>5 DEF FindObject, history
  <2>2. CASE Answer(k, "error", 0)
    <3>1. /\ "error" \in Kinds /\ 0 \in 0 .. MaxID /\ ("error" = "remote" <=> 0 \in IDs)
          /\ 0 \notin IDs /\ Kept
      BY <2>1, ObjectsAssumption DEF Kinds, IDs, HashCode, Kept
    <3>2. DummiesRegistered' /\ ProxiesRegistered'
      BY <2>1, <2>2, <3>1, AnswerKeeps
    <3>3. serving' = [serving EXCEPT ![k] = "done"]
      BY <2>2 DEF Answer
    <3>4. FreeUntilPut'
      BY <2>1, <3>3 DEF Types, TypeOK, Registered, FreeUntilPut, Registering
    <3> QED
      BY <3>2, <3>4 DEF Registered
  <2>3. CASE serving' = [serving EXCEPT ![k] = "found"] /\ UNCHANGED calling
    BY <2>1, <2>3 DEF calling, Types, TypeOK, Registered, FreeUntilPut, Registering,
                      DummiesRegistered, ProxiesRegistered
  <2> QED
    BY <1>5, <2>2, <2>3 DEF FindObject
<1>6. CASE InvokeMethod(k)
  <2>1. PICK kind \in {"value", "error"} : Answer(k, kind, 0)
    BY <1>6 DEF InvokeMethod
  <2>2. UNCHANGED <<result, candidate, objectMap, proxies, contested>>
    BY <1>6 DEF InvokeMethod, history
  <2>3. /\ kind \in Kinds /\ 0 \in 0 .. MaxID /\ (kind = "remote" <=> 0 \in IDs)
        /\ 0 \notin IDs /\ Kept
    BY <2>2, ObjectsAssumption DEF Kinds, IDs, HashCode, Kept
  <2>4. DummiesRegistered' /\ ProxiesRegistered'
    BY <2>1, <2>2, <2>3, AnswerKeeps
  <2>5. serving' = [serving EXCEPT ![k] = "done"]
    BY <2>1 DEF Answer
  <2>6. FreeUntilPut'
    BY <2>2, <2>5 DEF Types, TypeOK, Registered, FreeUntilPut, Registering
  <2> QED
    BY <2>4, <2>6 DEF Registered
<1>7. CASE InvokeRemoteMethod(k)
  <2>1. PICK o \in Objects : result' = [result EXCEPT ![k] = o]
    BY <1>7 DEF InvokeRemoteMethod
  <2>2. /\ serving' = [serving EXCEPT ![k] = "testing"]
        /\ candidate' = [candidate EXCEPT ![k] = HashCode]
        /\ UNCHANGED <<offered, objectMap, proxies, contested>>
    BY <1>7 DEF InvokeRemoteMethod, calling, history
  <2>3. FreeUntilPut'
    BY <2>1, <2>2 DEF Types, TypeOK, Registered, FreeUntilPut, Registering
  <2> QED
    BY <2>2, <2>3 DEF Registered, DummiesRegistered, ProxiesRegistered
<1>8. CASE TestID(k)
  <2>1. /\ serving[k] = "testing"
        /\ UNCHANGED <<offered, result, objectMap, proxies, contested>>
    BY <1>8 DEF TestID, calling, history
  <2>2. \/ serving' = serving /\ \E i : candidate' = [candidate EXCEPT ![k] = i]
        \/ /\ objectMap[candidate[k]] = None
           /\ serving' = [serving EXCEPT ![k] = "putting"]
           /\ candidate' = candidate
    BY <1>8 DEF TestID
  <2>3. FreeUntilPut'
    BY <2>1, <2>2 DEF Types, TypeOK, Registered, FreeUntilPut, Registering
  <2> QED
    BY <2>1, <2>3 DEF Registered, DummiesRegistered, ProxiesRegistered
<1>9. CASE PutObject(k)
  <2> DEFINE rivals == {j \in Calls \ {k} : serving[j] = "putting"}
  <2>1. candidate[k] \in IDs /\ candidate[k] \in 0 .. MaxID
    BY <1>9 DEF PutObject, Types, TypeOK, IDsSearched, Registering
  <2>2. /\ result[k] \in Objects
        /\ objectMap[candidate[k]] = None \/ candidate[k] \in contested
    BY <1>9 DEF PutObject, Registered, FreeUntilPut, Registering
  <2>3. /\ "remote" \in Kinds /\ ("remote" = "remote" <=> candidate[k] \in IDs)
        /\ Answer(k, "remote", candidate[k])
        /\ UNCHANGED <<result, candidate, proxies>>
        /\ serving' = [serving EXCEPT ![k] = "done"]
    BY <1>9, <2>1 DEF PutObject, Kinds, Answer
  <2>4. contested \subseteq contested'
    BY <1>9 DEF PutObject
  <2>5. ASSUME candidate[k] \notin contested'
        PROVE  objectMap' = [objectMap EXCEPT ![candidate[k]] = result[k]]
    BY <1>9, <2>5 DEF PutObject
  <2>6. Kept
    <3> SUFFICES ASSUME NEW i \in IDs \ contested', objectMap[i] # None
                 PROVE  objectMap'[i] = objectMap[i]
      BY <2>4 DEF Kept
    <3>1. CASE i = candidate[k]
      BY <2>2, <2>4, <3>1
    <3>2. CASE i # candidate[k]
      BY <1>9, <3>2 DEF PutObject, Types, TypeOK
    <3> QED
      BY <3>1, <3>2
  <2>7. candidate[k] \in IDs \ contested' =>
          result[k] \in Objects /\ objectMap'[candidate[k]] = result[k]
    BY <2>1, <2>2, <2>5 DEF Types, TypeOK
  <2>8. DummiesRegistered' /\ ProxiesRegistered'
    BY <2>1, <2>3, <2>6, <2>7, AnswerKeeps
  \* Another registration of the same ID makes it contested.
  <2>9. FreeUntilPut'
    <3> SUFFICES ASSUME NEW j \in Calls
                 PROVE  /\ Registering(j)' => result'[j] \in Objects
                        /\ serving'[j] = "putting" =>
                             \/ objectMap'[candidate'[j]] = None
                             \/ candidate'[j] \in contested'
      BY DEF FreeUntilPut
    <3>1. CASE j = k
      BY <2>3, <3>1 DEF Types, TypeOK, Registering
    <3>2. CASE j # k
      <4>1. serving'[j] = serving[j]
        BY <2>3, <3>2 DEF Types, TypeOK
      <4>2. ASSUME serving[j] = "putting" PROVE candidate[j] \in contested'
        <5>1. j \in rivals
          BY <3>2, <4>2
        <5> QED
          BY <1>9, <5>1 DEF PutObject
      <4> QED
        BY <2>3, <4>1, <4>2 DEF Registered, FreeUntilPut, Registering
    <3> QED
      BY <3>1, <3>2
  <2> QED
    BY <2>8, <2>9 DEF Registered
<1> QED
  BY <1>1, <1>2, <1>3, <1>5, <1>6, <1>7, <1>8, <1>9

\* Whatever threads invoke, however late methods return and whichever IDs registerObject
\* tries: an ID that was put while no other one was stands for its object for good.
THEOREM IDsKeepObjects == Spec => []ProxyKeepsObject
<1>1. Init => Types /\ Registered
  BY TypesInit, RegisteredInit
<1>2. Types /\ Registered /\ [Next]_vars => (Types /\ Registered)'
  BY TypesStep, RegisteredStep
<1>3. Registered => ProxyKeepsObject
  BY DEF Registered, ProxiesRegistered, ProxyKeepsObject
<1> QED
  BY <1>1, <1>2, <1>3, PTL DEF Spec

-----------------------------------------------------------------------------
(* Whose Reply an invocation returns *)

\* Those that are under way together are remembered.
Remembered ==
  /\ \A j, k \in Calls : UnderWay(j) /\ UnderWay(k) /\ j # k => {j, k} \in alongside
  /\ \A k \in Calls : status[k] = "new" => serving[k] = "none"

\* p may be returned by k: its origin is k, or was under way with it.
Own(k, p) == SameMethod(k, p) /\ (p.origin # k => {p.origin, k} \in alongside)

OffersOwn == \A k \in Calls : \A p \in offered[k] : Own(k, p)

Owned == Remembered /\ OffersOwn /\ ResultOfSameMethod

LEMMA OwnedInit == Init => Owned
  BY DEF Init, Connection!AInit, Owned, Remembered, UnderWay, OffersOwn, ResultOfSameMethod,
         Replied

\* Nobody gets under way, and nobody is offered anything or gets a result.
LEMMA OwnedKept ==
  ASSUME Types, Owned, UNCHANGED <<offered, returned, alongside>>,
         \A k \in Calls : UnderWay(k)' => UnderWay(k),
         \A k \in Calls : status'[k] = "new" => status[k] = "new" /\ serving'[k] = serving[k],
         \A k \in Calls : status'[k] = "replied" => status[k] = "replied"
  PROVE  Owned'
<1>1. Remembered'
  BY DEF Owned, Remembered
<1>2. OffersOwn'
  BY DEF Owned, OffersOwn, Own
<1>3. ResultOfSameMethod'
  BY DEF Owned, ResultOfSameMethod, Replied
<1> QED
  BY <1>1, <1>2, <1>3 DEF Owned

\* A Reply is only offered to invocations that are under way, as its own is.
LEMMA OwnedAnswer ==
  ASSUME Types, Owned, NEW k \in Calls, NEW kind \in Kinds, NEW id \in 0 .. MaxID,
         kind = "remote" <=> id \in IDs,
         InProgress(k), Answer(k, kind, id), UNCHANGED alongside
  PROVE  Owned'
<1> DEFINE p == [origin |-> k, kind |-> kind, id |-> id, object |-> result[k]]
<1>1. /\ UNCHANGED <<status, returned>>
      /\ \A j \in Calls : offered'[j] \subseteq offered[j] \cup {p}
      /\ \A j \in Calls : status[j] # "open" \/ ~SameMethod(j, p) => offered'[j] = offered[j]
      /\ serving' = [serving EXCEPT ![k] = "done"]
  BY AnswerEffect
<1>2. UnderWay(k) /\ p.origin = k
  BY DEF UnderWay, InProgress
<1>3. OffersOwn'
  <2> SUFFICES ASSUME NEW j \in Calls, NEW q \in offered'[j] PROVE Own(j, q)'
    BY DEF OffersOwn
  <2> HIDE DEF p
  <2>1. CASE q \in offered[j]
    BY <2>1 DEF Owned, OffersOwn, Own
  <2>2. CASE q = p /\ q \notin offered[j]
    <3>1. status[j] = "open" /\ SameMethod(j, p)
      BY <1>1, <2>2
    <3>2. j # k => {k, j} \in alongside
      BY <1>2, <3>1 DEF Owned, Remembered, UnderWay
    <3> QED
      BY <1>2, <2>2, <3>1, <3>2 DEF Own
  <2> QED
    BY <1>1, <2>1, <2>2
<1>4. Remembered'
  <2>1. \A j \in Calls : UnderWay(j)' => UnderWay(j)
    BY <1>1 DEF UnderWay, Types, TypeOK
  <2>2. status[k] # "new"
    BY DEF Owned, Remembered, InProgress
  <2>3. \A j \in Calls : status'[j] = "new" => serving'[j] = "none"
    BY <1>1, <2>2 DEF Owned, Remembered, Types, TypeOK
  <2> QED
    BY <2>1, <2>3 DEF Owned, Remembered
<1>5. ResultOfSameMethod'
  BY <1>1 DEF Owned, ResultOfSameMethod, Replied
<1> QED
  BY <1>3, <1>4, <1>5 DEF Owned

LEMMA OwnedStep == Types /\ Owned /\ [Next]_vars => Owned'
<1> SUFFICES ASSUME Types, Owned, [Next]_vars PROVE Owned'
  OBVIOUS
<1>0. CASE UNCHANGED vars
  BY <1>0, OwnedKept DEF vars, calling, listening, history, UnderWay
<1> SUFFICES ASSUME NEW k \in Calls,
                    \/ Invoke(k) \/ GetResult(k) \/ GetNoResult(k) \/ SendFails(k)
                    \/ FindObject(k) \/ InvokeMethod(k) \/ InvokeRemoteMethod(k)
                    \/ TestID(k) \/ PutObject(k)
             PROVE  Owned'
  BY <1>0 DEF Next
<1>1. CASE Invoke(k)
  <2>1. /\ status[k] = "new" /\ status' = [status EXCEPT ![k] = "open"]
        /\ serving' = [serving EXCEPT ![k] = "sent"]
        /\ alongside' = alongside \cup {{j, k} : j \in {i \in Calls : UnderWay(i)}}
        /\ UNCHANGED <<offered, returned>>
    BY <1>1 DEF Invoke, Connection!Open
  <2>2. \A j \in Calls : j # k => (UnderWay(j)' <=> UnderWay(j))
    BY <2>1 DEF UnderWay, Types, TypeOK
  <2>3. Remembered'
    <3> SUFFICES ASSUME NEW i \in Calls, NEW j \in Calls
                 PROVE  /\ UnderWay(i)' /\ UnderWay(j)' /\ i # j => {i, j} \in alongside'
                        /\ status'[i] = "new" => serving'[i] = "none"
      BY DEF Remembered
    <3>1. status'[i] = "new" => serving'[i] = "none"
      BY <2>1 DEF Owned, Remembered, Types, TypeOK
    <3>2. ASSUME UnderWay(i)', UnderWay(j)', i # j PROVE {i, j} \in alongside'
      <4>1. CASE i = k
        <5>1. {j, k} = {i, j} /\ UnderWay(j)
          BY <2>2, <3>2, <4>1
        <5> QED
          BY <2>1, <5>1
      <4>2. CASE j = k
        <5>1. {i, k} = {i, j} /\ UnderWay(i)
          BY <2>2, <3>2, <4>2
        <5> QED
          BY <2>1, <5>1
      <4>3. CASE i # k /\ j # k
        BY <2>1, <2>2, <3>2, <4>3 DEF Owned, Remembered
      <4> QED
        BY <4>1, <4>2, <4>3
    <3> QED
      BY <3>1, <3>2
  <2>4. OffersOwn'
    BY <2>1 DEF Owned, OffersOwn, Own
  <2>5. ResultOfSameMethod'
    BY <2>1 DEF Owned, ResultOfSameMethod, Replied, Types, TypeOK
  <2> QED
    BY <2>3, <2>4, <2>5 DEF Owned
<1>2. CASE GetResult(k)
  <2>1. PICK p \in offered[k] : returned' = [returned EXCEPT ![k] = p]
    BY <1>2 DEF GetResult, Connection!Reply
  <2>2. /\ status[k] = "open" /\ status' = [status EXCEPT ![k] = "replied"]
        /\ UNCHANGED <<offered, serving, alongside>>
    BY <1>2 DEF GetResult, Connection!Reply, listening, history
  <2>3. Own(k, p)
    BY DEF Owned, OffersOwn
  <2>4. Remembered' /\ OffersOwn'
    BY <2>2 DEF Owned, Remembered, UnderWay, OffersOwn, Own, Types, TypeOK
  <2>5. ResultOfSameMethod'
    BY <2>1, <2>2, <2>3 DEF Owned, ResultOfSameMethod, Replied, Own, SameMethod, Types, TypeOK
  <2> QED
    BY <2>4, <2>5 DEF Owned
<1>3. CASE GetNoResult(k)
  <2>1. /\ status[k] = "open" /\ status' = [status EXCEPT ![k] = "noReply"]
        /\ UNCHANGED <<offered, returned, serving, alongside>>
    BY <1>3 DEF GetNoResult, Connection!GiveUp, listening, history
  <2> QED
    BY <2>1, OwnedKept DEF UnderWay, Types, TypeOK
<1>4. CASE SendFails(k)
  <2>1. /\ status[k] = "open" /\ status' = [status EXCEPT ![k] = "failed"]
        /\ serving' \in {serving, [serving EXCEPT ![k] = "done"]}
        /\ UNCHANGED <<offered, returned, alongside>>
    BY <1>4 DEF SendFails, Connection!Fail, history
  <2> QED
    BY <2>1, OwnedKept DEF UnderWay, Types, TypeOK
<1>5. CASE FindObject(k)
  <2>1. InProgress(k) /\ UNCHANGED alongside /\ serving[k] = "sent"
    BY <1>5 DEF FindObject, history, InProgress
  <2>2. CASE Answer(k, "error", 0)
    <3>1. "error" \in Kinds /\ 0 \in 0 .. MaxID /\ ("error" = "remote" <=> 0 \in IDs)
      BY ObjectsAssumption DEF Kinds, IDs, HashCode
    <3> QED
      BY <2>1, <2>2, <3>1, OwnedAnswer
  <2>3. CASE serving' = [serving EXCEPT ![k] = "found"] /\ UNCHANGED calling
    <3>1. status[k] # "new"
      BY <2>1 DEF Owned, Remembered
    <3> QED
      BY <2>1, <2>3, <3>1, OwnedKept DEF calling, UnderWay, Types, TypeOK
  <2> QED
    BY <1>5, <2>2, <2>3 DEF FindObject
<1>6. CASE InvokeMethod(k)
  <2>1. PICK kind \in {"value", "error"} : Answer(k, kind, 0)
    BY <1>6 DEF InvokeMethod
  <2>2. /\ kind \in Kinds /\ 0 \in 0 .. MaxID /\ (kind = "remote" <=> 0 \in IDs)
        /\ InProgress(k) /\ UNCHANGED alongside
    BY <1>6, ObjectsAssumption DEF InvokeMethod, history, InProgress, Kinds, IDs, HashCode
  <2> QED
    BY <2>1, <2>2, OwnedAnswer
<1>7. CASE InvokeRemoteMethod(k) \/ TestID(k)
  <2>1. /\ UNCHANGED <<status, offered, returned, alongside>>
        /\ serving[k] \in {"found", "testing"}
        /\ \E l \in {"testing", "putting"} :
             serving' \in {serving, [serving EXCEPT ![k] = l]}
    BY <1>7 DEF InvokeRemoteMethod, TestID, calling, history
  <2>2. status[k] # "new"
    BY <2>1 DEF Owned, Remembered
  <2> QED
    BY <2>1, <2>2, OwnedKept DEF UnderWay, Types, TypeOK
<1>8. CASE PutObject(k)
  <2>1. candidate[k] \in IDs /\ candidate[k] \in 0 .. MaxID
    BY <1>8 DEF PutObject, Types, TypeOK, IDsSearched, Registering
  <2>2. /\ "remote" \in Kinds /\ ("remote" = "remote" <=> candidate[k] \in IDs)
        /\ InProgress(k) /\ Answer(k, "remote", candidate[k]) /\ UNCHANGED alongside
    BY <1>8, <2>1 DEF PutObject, Kinds, InProgress
  <2> QED
    BY <2>1, <2>2, OwnedAnswer
<1> QED
  BY <1>1, <1>2, <1>3, <1>4, <1>5, <1>6, <1>7, <1>8

\* With any number of threads, and timeouts as short as they like, a result may be that of
\* another invocation, but only of the same method of the same object, and only of one
\* that was under way at the same time.
THEOREM ResultsBelong == Spec => []ResultOfSameMethod
<1>1. Init => Types /\ Owned
  BY TypesInit, OwnedInit
<1>2. Types /\ Owned /\ [Next]_vars => (Types /\ Owned)'
  BY TypesStep, OwnedStep
<1>3. Owned => ResultOfSameMethod
  BY DEF Owned
<1> QED
  BY <1>1, <1>2, <1>3, PTL DEF Spec
=============================================================================
