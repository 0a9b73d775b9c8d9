-------------------------- MODULE SynchronousCall --------------------------
(***************************************************************************)
(* What PacketConnection.sendAndReceive promises its callers, with no      *)
(* listener, thread, lock or notification in sight: a call is opened, some *)
(* packets are received while it is open, and it ends in one of three ways *)
(* - it returns a packet that was offered to it and that its filter        *)
(* accepts, it reports that no reply came, or it fails with an exception.  *)
(***************************************************************************)
EXTENDS Naturals

CONSTANTS
  Calls,            \* every invocation of sendAndReceive
  Timed,            \* the calls with a timeout greater than 0
  Packets,          \* the packets the connection can receive
  Accepts(_, _),    \* Accepts(k, p): the filter of call k lets packet p pass
  NoPacket          \* Java's null

VARIABLES
  status,           \* how far each call has come
  offered,          \* the packets received while the call was listening
  returned,         \* the packet a finished call returned
  interrupted       \* the calls whose wait was ended from outside

avars == <<status, offered, returned, interrupted>>

Statuses == {"new", "open", "replied", "noReply", "failed"}

AInit ==
  /\ status = [k \in Calls |-> "new"]
  /\ offered = [k \in Calls |-> {}]
  /\ returned = [k \in Calls |-> NoPacket]
  /\ interrupted = {}

Open(k) ==
  /\ status[k] = "new"
  /\ status' = [status EXCEPT ![k] = "open"]
  /\ UNCHANGED <<offered, returned, interrupted>>

\* A packet arrives and reaches some of the calls that have been opened.
Offer(p) ==
  /\ \E listening \in SUBSET {k \in Calls : status[k] # "new"} :
       offered' = [k \in Calls |-> IF k \in listening THEN offered[k] \cup {p}
                                                      ELSE offered[k]]
  /\ UNCHANGED <<status, returned, interrupted>>

Reply(k) ==
  /\ status[k] = "open"
  /\ \E p \in offered[k] :
       /\ Accepts(k, p)
       /\ returned' = [returned EXCEPT ![k] = p]
  /\ status' = [status EXCEPT ![k] = "replied"]
  /\ UNCHANGED <<offered, interrupted>>

\* The wait of a call is ended from outside, by an interrupt or by Java itself.
Interrupt(k) ==
  /\ status[k] = "open"
  /\ interrupted' = interrupted \cup {k}
  /\ UNCHANGED <<status, offered, returned>>

\* Only a call with a timeout, or an interrupted one, may come back without a
\* reply.
GiveUp(k) ==
  /\ k \in Timed \/ k \in interrupted
  /\ status[k] = "open"
  /\ status' = [status EXCEPT ![k] = "noReply"]
  /\ UNCHANGED <<offered, returned, interrupted>>

Fail(k) ==
  /\ status[k] = "open"
  /\ status' = [status EXCEPT ![k] = "failed"]
  /\ UNCHANGED <<offered, returned, interrupted>>

End(k) == Reply(k) \/ GiveUp(k) \/ Fail(k)

ANext ==
  \/ \E k \in Calls : Open(k) \/ Interrupt(k) \/ End(k)
  \/ \E p \in Packets : Offer(p)

ASpec == AInit /\ [][ANext]_avars

\* A call with a timeout is not left hanging.
AFairSpec == ASpec /\ \A k \in Timed : WF_avars(End(k))
=============================================================================
