---------------------------- MODULE DeviceProofs ----------------------------
(***************************************************************************)
(* Proofs about DeviceManagement, for any devices, threads and calls.      *)
(*                                                                         *)
(* What is proved rests on how the invocations of a thread are nested, and *)
(* on what each of them has claimed: a search for a bridge its device, in  *)
(* remoteImplementLocks, a builder that works its ArgumentSet, in the      *)
(* excludedArgumentSets.  Every step of a thread is put down to one of     *)
(* three effects on its stack (Works, Claims, Leaves), and the invariants  *)
(* are proved of the effects.                                              *)
(***************************************************************************)
EXTENDS DeviceManagement, SequenceTheorems, WellFoundedInduction, TLAPS

Places ==
  {"lookup", "managed", "remote", "interfaced", "enter", "build", "loop", "asked",
   "building", "started", "component", "linking", "parent", "unported", "assembling",
   "hosted"}

\* A search for a bridge in progress; a builder at work.
Searches(f) == f.op = "remote" /\ f.at # "enter"
Builds(f) == f.op = "manage" /\ f.at \notin {"enter", "build", "building"}

\* The builders that get to each place.
BuildersAt(at) ==
  CASE at = "component" -> {"chip", "board", "serial", "local"}
    [] at = "linking" -> {"board", "serial", "host"}
    [] at \in {"parent", "unported"} -> {"slave"}
    [] at \in {"assembling", "hosted"} -> {"hosted", "slave"}
    [] OTHER -> {Builders[i] : i \in 1 .. 8}

Sound(f) ==
  /\ f.bridged => Answering
  /\ f.op = "remote" => f.device \notin f.hosts
  /\ Builds(f) => /\ f.builder # 0
                  /\ Builders[f.builder] \in BuildersAt(f.at)
                  /\ <<f.device, f.port>> \in Accepted(Builders[f.builder])
                  /\ Satisfies(Produces(Builders[f.builder], f.type), f.type)

Fields ==
  [op : {"interface", "implement", "remote", "manage"}, at : Places, device : Devices,
   type : Types, port : Ports, manager : Nat, builder : 0 .. 8, hosts : SUBSET Hosts,
   bridged : BOOLEAN]

Invocations == {f \in Fields : Sound(f)}

\* g is the invocation that f waits for.
Awaits(f, g) ==
  \/ f.op = "interface" /\ f.at = "remote" /\ g.op = "remote" /\ g.device = f.device
  \/ f.op \in {"interface", "implement"} /\ f.at = "managed" /\ g.op = "manage"
     /\ g.device = f.device
  \/ f.op = "implement" /\ f.at = "interfaced" /\ g.op = "interface" /\ g.device = f.device
  \/ f.op = "remote" /\ f.at = "asked" /\ g.op = "interface" /\ g.device \in Hosts \ {f.device}
  \/ f.op = "manage" /\ f.at = "component" /\ g.op = "implement" /\ g.device = f.device
  \/ f.op = "manage" /\ f.at = "parent" /\ g.op = "interface" /\ g.device = Board
  \/ f.op = "manage" /\ f.at = "unported" /\ g.op = "manage" /\ g.device = f.device
  \/ f.op = "manage" /\ f.at = "assembling"
     /\ \/ g.op = "implement" /\ g.device = Board
        \/ g.op = "manage" /\ g.device = f.device
  \/ f.op = "manage" /\ f.at = "hosted" /\ g.op = "interface" /\ g.device \in Hosts

\* What f has claimed, and all that is claimed.
Claim(f) ==
  IF Searches(f) THEN {<<"search", f.device>>}
  ELSE IF Builds(f) THEN {<<"build", ArgumentSet(f, f.builder)>>} ELSE {}

Claimed == {<<"search", d>> : d \in locks} \cup {<<"build", a>> : a \in excluded}

\* An invocation that has just been begun.
Begun(g) ==
  Claim(g) = {} /\ g.builder = 0 /\ g.at \in {"lookup", "interfaced", "enter", "build"}

-----------------------------------------------------------------------------
(* The invariant *)

Stacks == stack \in [Threads -> Seq(Invocations)]

Shared ==
  /\ result \in [Threads -> Results \cup {"none"}]
  /\ managers \in Seq([device : Devices, types : SUBSET Types])
  /\ locks \subseteq Devices
  /\ excluded \subseteq ToSet(Builders) \X Devices \X Types \X Ports
  /\ calls \in [Threads -> 0 .. MaxCalls]
  /\ links \in [Devices -> Nat]

\* An invocation in a device manager is about the device of that manager.
ManagedBy(f, ms) ==
  f.op = "manage" => f.manager \in DOMAIN ms /\ ms[f.manager].device = f.device

Managed == \A t \in Threads : \A n \in 1 .. Len(stack[t]) : ManagedBy(stack[t][n], managers)

\* Each invocation waits for the one above it.
Nested ==
  \A t \in Threads : \A n \in 1 .. Len(stack[t]) - 1 : Awaits(stack[t][n], stack[t][n + 1])

\* What an invocation works on is claimed, and claimed for it alone.
ClaimsHeld ==
  \A t \in Threads : \A n \in 1 .. Len(stack[t]) : Claim(stack[t][n]) \subseteq Claimed

ClaimsApart ==
  \A t, u \in Threads : \A m \in 1 .. Len(stack[t]), n \in 1 .. Len(stack[u]) :
    \A c \in Claim(stack[t][m]) : c \in Claim(stack[u][n]) => t = u /\ m = n

TypesInv == Stacks /\ Shared /\ Managed
Nesting == Nested /\ ClaimsHeld /\ ClaimsApart

\* Without answers of other hosts there are no bridges, and every lock has a holder.
LocksHeld ==
  \A d \in locks : \E t \in Threads : \E n \in 1 .. Len(stack[t]) :
    <<"search", d>> \in Claim(stack[t][n])

-----------------------------------------------------------------------------
(* Sequences and numbers *)

LEMMA Smallest ==
  ASSUME NEW T, T \subseteq Nat, T # {}
  PROVE  \E i \in T : \A j \in T : i <= j
<1>1. PICK i \in T : \A j \in T : <<j, i>> \notin OpToRel(<, Nat)
  BY WFMin, NatLessThanWellFounded
<1>2. \A j \in T : ~(j < i)
  BY <1>1 DEF OpToRel
<1> QED
  BY <1>2

LEMMA LastAndFront ==
  ASSUME NEW S, NEW s \in Seq(S), s # <<>>
  PROVE  /\ Len(s) \in Nat \ {0}
         /\ Last(s) = s[Len(s)] /\ Last(s) \in S
         /\ Front(s) \in Seq(S)
         /\ Len(Front(s)) = Len(s) - 1
         /\ \A n \in 1 .. Len(s) - 1 : Front(s)[n] = s[n]
<1>1. Len(s) \in Nat \ {0}
  BY EmptySeq, LenProperties
<1>2. \A n \in 1 .. Len(s) : s[n] \in S
  BY ElementOfSeq
<1>3. Last(s) = s[Len(s)] /\ Last(s) \in S
  BY <1>1, <1>2 DEF Last
<1>4. \A n \in 1 .. Len(s) - 1 : s[n] \in S
  BY <1>1, <1>2
<1>5. ASSUME NEW m \in Nat, m = Len(s) - 1
      PROVE  /\ SubSeq(s, 1, m) \in Seq(S)
             /\ Len(SubSeq(s, 1, m)) = m
             /\ \A n \in 1 .. m : SubSeq(s, 1, m)[n] = s[n]
  <2>1. 1 \in Int /\ m \in Int /\ \A i \in 1 .. m : s[i] \in S
    BY <1>4, <1>5
  <2>2. /\ SubSeq(s, 1, m) \in Seq(S)
        /\ Len(SubSeq(s, 1, m)) = IF 1 <= m THEN m - 1 + 1 ELSE 0
        /\ \A n \in 1 .. m - 1 + 1 : SubSeq(s, 1, m)[n] = s[1 + n - 1]
    BY <2>1, SubSeqProperties
  <2> QED
    BY <2>2
<1>6. Len(s) - 1 \in Nat
  BY <1>1
<1>7. /\ SubSeq(s, 1, Len(s) - 1) \in Seq(S)
      /\ Len(SubSeq(s, 1, Len(s) - 1)) = Len(s) - 1
      /\ \A n \in 1 .. Len(s) - 1 : SubSeq(s, 1, Len(s) - 1)[n] = s[n]
  BY <1>5, <1>6
<1> QED
  BY <1>1, <1>3, <1>7 DEF Front

\* The sequence with its last element replaced and others behind it.
Replaced(s, e, p) == Append(Front(s), e) \o p

IsReplaced(S, r, s, e, p) ==
  /\ r \in Seq(S)
  /\ Len(r) = Len(s) + Len(p)
  /\ \A n \in 1 .. Len(s) - 1 : r[n] = s[n]
  /\ r[Len(s)] = e
  /\ \A n \in 1 .. Len(p) : r[Len(s) + n] = p[n]

LEMMA Replacing ==
  ASSUME NEW S, NEW s \in Seq(S), s # <<>>, NEW e \in S, NEW p \in Seq(S)
  PROVE  IsReplaced(S, Replaced(s, e, p), s, e, p)
<1> DEFINE q == Append(Front(s), e)
<1>1. /\ Len(s) \in Nat \ {0} /\ Len(p) \in Nat
      /\ Front(s) \in Seq(S) /\ Len(Front(s)) = Len(s) - 1
      /\ \A n \in 1 .. Len(s) - 1 : Front(s)[n] = s[n]
  BY LastAndFront, LenProperties
<1>2. /\ q \in Seq(S) /\ Len(q) = Len(Front(s)) + 1
      /\ \A n \in 1 .. Len(Front(s)) : q[n] = Front(s)[n]
      /\ q[Len(Front(s)) + 1] = e
  BY <1>1, AppendProperties
<1>3. /\ q \in Seq(S) /\ Len(q) = Len(s)
      /\ \A n \in 1 .. Len(s) - 1 : q[n] = s[n]
      /\ q[Len(s)] = e
  BY <1>1, <1>2
<1> HIDE DEF q
<1>4. /\ q \o p \in Seq(S)
      /\ Len(q \o p) = Len(s) + Len(p)
      /\ \A n \in 1 .. Len(s) + Len(p) : (q \o p)[n] = IF n <= Len(s) THEN q[n] ELSE p[n - Len(s)]
  <2>1. /\ q \o p \in Seq(S)
        /\ Len(q \o p) = Len(q) + Len(p)
        /\ \A n \in 1 .. Len(q) + Len(p) :
             (q \o p)[n] = IF n <= Len(q) THEN q[n] ELSE p[n - Len(q)]
    BY <1>3, ConcatProperties
  <2> QED
    BY <1>3, <2>1
<1>5. ASSUME NEW n \in 1 .. Len(s) - 1
      PROVE  (q \o p)[n] = s[n]
  <2>1. n \in 1 .. Len(s) + Len(p) /\ n <= Len(s)
    BY <1>1
  <2>2. (q \o p)[n] = q[n]
    BY <1>4, <2>1
  <2> QED
    BY <1>3, <2>2
<1>6. (q \o p)[Len(s)] = e
  BY <1>1, <1>3, <1>4
<1>7. \A n \in 1 .. Len(p) : (q \o p)[Len(s) + n] = p[n]
  BY <1>1, <1>4
<1>8. Replaced(s, e, p) = q \o p
  BY DEF Replaced, q
<1> QED
  BY <1>4, <1>5, <1>6, <1>7, <1>8 DEF IsReplaced
-----------------------------------------------------------------------------
(* The effects of a step *)

Continues(frame, f) ==
  frame.op = f.op /\ frame.device = f.device /\ frame.type = f.type /\ frame.manager = f.manager

Moves(t, frame, pushed) ==
  /\ stack[t] # <<>>
  /\ stack' = [stack EXCEPT ![t] = Append(Front(@), frame) \o pushed]
  /\ Continues(frame, Top(t))
  /\ pushed # <<>> => Awaits(frame, pushed[1])
  /\ \A n \in 1 .. Len(pushed) - 1 : Awaits(pushed[n], pushed[n + 1])
  /\ \A n \in 1 .. Len(pushed) : Begun(pushed[n]) /\ ManagedBy(pushed[n], managers')

\* The innermost invocation goes on, with what it had claimed or less.
Works(t, frame, pushed) ==
  /\ Moves(t, frame, pushed)
  /\ Claim(frame) \subseteq Claim(Top(t))
  /\ Searches(Top(t)) => Claim(frame) = Claim(Top(t))
  /\ UNCHANGED <<locks, excluded>>

\* It claims what nobody has claimed.
Claims(t, frame) ==
  /\ Moves(t, frame, <<>>)
  /\ \A c \in Claim(frame) : c \notin Claimed
  /\ Claim(Top(t)) = {}
  /\ Claimed' = Claimed \cup Claim(frame)

\* It ends; without bridges a search gives back its lock.
Leaves(t) ==
  /\ stack[t] # <<>>
  /\ stack' = [stack EXCEPT ![t] = Front(@)]
  /\ Claimed' \subseteq Claimed
  /\ Claimed \ Claim(Top(t)) \subseteq Claimed'
  /\ ~Answering /\ Searches(Top(t)) => Claimed' = Claimed \ Claim(Top(t))

Effect(t) ==
  \/ \E frame \in Invocations, pushed \in Seq(Invocations) : Works(t, frame, pushed)
  \/ \E frame \in Invocations : Claims(t, frame)
  \/ Leaves(t)

LEMMA BuildersEight == DOMAIN Builders = 1 .. 8 /\ Len(Builders) = 8
  BY DEF Builders

LEMMA TopFacts ==
  ASSUME Stacks, NEW t \in Threads, stack[t] # <<>>
  PROVE  /\ stack[t] \in Seq(Invocations)
         /\ Len(stack[t]) \in Nat \ {0}
         /\ Top(t) = stack[t][Len(stack[t])]
         /\ Top(t) \in Invocations
<1>1. stack[t] \in Seq(Invocations)
  BY DEF Stacks
<1> QED
  BY <1>1, LastAndFront DEF Top

LEMMA BecomeIsInvoke ==
  ASSUME Stacks, NEW t \in Threads, stack[t] # <<>>, NEW frame \in Invocations,
         Become(t, frame)
  PROVE  stack' = [stack EXCEPT ![t] = Append(Front(@), frame) \o <<>>]
<1>1. stack[t] \in Seq(Invocations) /\ Front(stack[t]) \in Seq(Invocations)
  BY LastAndFront DEF Stacks
<1>2. Append(Front(stack[t]), frame) \in Seq(Invocations)
  BY <1>1, AppendProperties
<1>3. Append(Front(stack[t]), frame) \o <<>> = Append(Front(stack[t]), frame)
  BY <1>2, ConcatEmptySeq
<1> QED
  BY <1>3 DEF Become

\* The invocations that are begun.
LEMMA PortIsPort == \A d : Port(d) \in Ports
  BY DEF Port, Ports

LEMMA NewInvocations ==
  ASSUME NEW d \in Devices, NEW type \in Types
  PROVE  /\ Interface(d, type) \in Invocations /\ Begun(Interface(d, type))
         /\ Interface(d, type).op = "interface" /\ Interface(d, type).device = d
         /\ Remote(d, type) \in Invocations /\ Begun(Remote(d, type))
         /\ Remote(d, type).op = "remote" /\ Remote(d, type).device = d
         /\ \A i \in Nat : /\ Manage(i, d, type) \in Invocations
                           /\ Begun(Manage(i, d, type))
                           /\ Manage(i, d, type).op = "manage"
                           /\ Manage(i, d, type).device = d
                           /\ Manage(i, d, type).manager = i
         /\ \A i \in Nat, port \in Ports :
              LET g == Build(i, d, type, port)
              IN  /\ g \in Invocations /\ Begun(g)
                  /\ g.op = "manage" /\ g.device = d /\ g.manager = i
         /\ Implement(d, type) \in Seq(Invocations) /\ Len(Implement(d, type)) = 2
         /\ Implement(d, type)[1].op = "implement" /\ Implement(d, type)[1].device = d
         /\ Implement(d, type)[1].at = "interfaced" /\ Begun(Implement(d, type)[1])
         /\ Implement(d, type)[2] = Interface(d, "basic")
<1>1. "basic" \in Types
  BY DEF Types
<1>2. ASSUME NEW op \in {"interface", "implement", "remote", "manage"}, NEW at \in Places,
             at \in {"lookup", "interfaced", "enter", "build"},
             op = "remote" => at = "enter",
             op = "manage" => at \in {"enter", "build"},
             NEW tp \in Types, NEW port \in Ports, NEW i \in Nat
      PROVE  LET f == [op |-> op, at |-> at, device |-> d, type |-> tp, port |-> port,
                       manager |-> i, builder |-> 0, hosts |-> {}, bridged |-> FALSE]
             IN  f \in Invocations /\ Begun(f)
  BY <1>2 DEF Invocations, Fields, Sound, Builds, Claim, Searches, Begun
<1>3. \A tp \in Types : /\ Interface(d, tp) \in Invocations /\ Begun(Interface(d, tp))
                        /\ Interface(d, tp).op = "interface" /\ Interface(d, tp).device = d
  BY <1>2, PortIsPort DEF Interface, Frame, Places
<1>4. /\ Remote(d, type) \in Invocations /\ Begun(Remote(d, type))
      /\ Remote(d, type).op = "remote" /\ Remote(d, type).device = d
  BY <1>2, PortIsPort DEF Remote, Frame, Places
<1>5. LET f == Frame("manage", "enter", d, type)
      IN  f \in Fields /\ f.op = "manage" /\ f.at = "enter" /\ f.device = d /\ ~f.bridged
          /\ f.builder = 0
  BY PortIsPort DEF Frame, Fields, Places
<1>6. ASSUME NEW i \in Nat
      PROVE  /\ Manage(i, d, type) \in Invocations /\ Begun(Manage(i, d, type))
             /\ Manage(i, d, type).op = "manage"
             /\ Manage(i, d, type).device = d
             /\ Manage(i, d, type).manager = i
  BY <1>5 DEF Manage, Invocations, Fields, Sound, Builds, Claim, Searches, Begun
<1>7. LET f == Frame("implement", "interfaced", d, type)
      IN  /\ f \in Invocations /\ Begun(f)
          /\ f.op = "implement" /\ f.device = d /\ f.at = "interfaced"
  BY <1>2, PortIsPort DEF Frame, Places
<1>8. /\ Implement(d, type) \in Seq(Invocations) /\ Len(Implement(d, type)) = 2
      /\ Implement(d, type)[1] = Frame("implement", "interfaced", d, type)
      /\ Implement(d, type)[2] = Interface(d, "basic")
  BY <1>1, <1>3, <1>7 DEF Implement
<1>9. ASSUME NEW i \in Nat, NEW port \in Ports
      PROVE  LET g == Build(i, d, type, port)
             IN  /\ g \in Invocations /\ Begun(g)
                 /\ g.op = "manage" /\ g.device = d /\ g.manager = i
  <2>1. LET f == Frame("manage", "build", d, type)
        IN  f \in Fields /\ f.op = "manage" /\ f.at = "build" /\ f.device = d /\ ~f.bridged
            /\ f.builder = 0
    BY PortIsPort DEF Frame, Fields, Places
  <2> QED
    BY <2>1 DEF Build, Invocations, Fields, Sound, Builds, Claim, Searches, Begun
<1> QED
  BY <1>3, <1>4, <1>6, <1>7, <1>8, <1>9

LEMMA FirstIsManager ==
  ASSUME Shared, NEW d \in Devices, ManagersOf(d) # {}
  PROVE  FirstManager(d) \in DOMAIN managers /\ managers[FirstManager(d)].device = d
<1>1. ManagersOf(d) \subseteq Nat
  <2>1. DOMAIN managers = 1 .. Len(managers) /\ Len(managers) \in Nat
    BY LenProperties DEF Shared
  <2> QED
    BY <2>1 DEF ManagersOf
<1>2. \E i \in ManagersOf(d) : \A j \in ManagersOf(d) : i <= j
  BY <1>1, Smallest
<1>3. FirstManager(d) \in ManagersOf(d)
  BY <1>2 DEF FirstManager
<1> QED
  BY <1>3 DEF ManagersOf

\* Managers are added and get types; they keep their place and their device.
ManagersKept ==
  /\ managers' \in Seq([device : Devices, types : SUBSET Types])
  /\ Len(managers) <= Len(managers')
  /\ \A i \in 1 .. Len(managers) : managers'[i].device = managers[i].device

Managers == [device : Devices, types : SUBSET Types]

LEMMA TypeAdded ==
  ASSUME NEW ms \in Seq(Managers), NEW i \in 1 .. Len(ms), NEW type \in Types
  PROVE  LET r == [ms EXCEPT ![i].types = @ \cup {type}]
         IN  /\ r \in Seq(Managers) /\ Len(r) = Len(ms)
             /\ \A j \in 1 .. Len(ms) : j # i => r[j] = ms[j]
             /\ r[i].device = ms[i].device
             /\ r[i].types = ms[i].types \cup {type}
<1> DEFINE m == [ms[i] EXCEPT !.types = @ \cup {type}]
<1>1. ms[i] \in Managers
  BY ElementOfSeq
<1>2. m \in Managers /\ m.device = ms[i].device /\ m.types = ms[i].types \cup {type}
  <2>1. ms[i].types \cup {type} \in SUBSET Types
    BY <1>1 DEF Managers
  <2> QED
    BY <1>1, <2>1 DEF Managers
<1>3. [ms EXCEPT ![i].types = @ \cup {type}] = [ms EXCEPT ![i] = m]
  OBVIOUS
<1> HIDE DEF m
<1>4. /\ [ms EXCEPT ![i] = m] \in Seq(Managers)
      /\ Len([ms EXCEPT ![i] = m]) = Len(ms)
      /\ \A j \in 1 .. Len(ms) : [ms EXCEPT ![i] = m][j] = IF j = i THEN m ELSE ms[j]
  BY <1>2, ExceptSeq
<1>5. \A j \in 1 .. Len(ms) : j # i => [ms EXCEPT ![i] = m][j] = ms[j]
  BY <1>4
<1>6. [ms EXCEPT ![i] = m][i] = m
  BY <1>4
<1> QED
  BY <1>2, <1>3, <1>4, <1>5, <1>6

LEMMA AddType ==
  ASSUME Shared, NEW i \in DOMAIN managers, NEW type \in Types,
         managers' = [managers EXCEPT ![i].types = @ \cup {type}]
  PROVE  /\ ManagersKept /\ Len(managers') = Len(managers)
         /\ \A j \in DOMAIN managers : j # i => managers'[j] = managers[j]
         /\ managers'[i].types = managers[i].types \cup {type}
<1>1. /\ managers \in Seq(Managers) /\ DOMAIN managers = 1 .. Len(managers)
      /\ Len(managers) \in Nat /\ i \in 1 .. Len(managers)
  BY LenProperties DEF Shared, Managers
<1>2. /\ managers' \in Seq(Managers) /\ Len(managers') = Len(managers)
      /\ \A j \in 1 .. Len(managers) : j # i => managers'[j] = managers[j]
      /\ managers'[i].device = managers[i].device
      /\ managers'[i].types = managers[i].types \cup {type}
  BY <1>1, TypeAdded
<1>3. \A j \in 1 .. Len(managers) : managers'[j].device = managers[j].device
  BY <1>2
<1> QED
  BY <1>1, <1>2, <1>3 DEF ManagersKept, Managers

LEMMA AddManager ==
  ASSUME Shared, NEW m \in [device : Devices, types : SUBSET Types],
         managers' = Append(managers, m)
  PROVE  /\ ManagersKept /\ Len(managers') = Len(managers) + 1
         /\ \A i \in 1 .. Len(managers) : managers'[i] = managers[i]
         /\ managers'[Len(managers) + 1] = m
<1>1. /\ managers \in Seq([device : Devices, types : SUBSET Types])
      /\ Len(managers) \in Nat
  BY LenProperties DEF Shared
<1> QED
  BY <1>1, AppendProperties DEF ManagersKept

\* What the builder that is done leaves behind.
LEMMA BuiltShared ==
  ASSUME TypesInv, NEW t \in Threads, stack[t] # <<>>, Top(t).op = "manage",
         Builds(Top(t)), Built(t)
  PROVE  /\ ManagersKept /\ Len(managers') = Len(managers)
         /\ \A i \in DOMAIN managers :
              /\ i # Top(t).manager => managers'[i] = managers[i]
              /\ i = Top(t).manager =>
                   managers'[i].types = managers[i].types
                     \cup {Produces(Builders[Top(t).builder], Top(t).type)}
         /\ excluded' = excluded \ {ArgumentSet(Top(t), Top(t).builder)}
<1> DEFINE f == Top(t)
<1>1. /\ f \in Invocations /\ f = stack[t][Len(stack[t])]
      /\ Len(stack[t]) \in 1 .. Len(stack[t])
  BY TopFacts DEF TypesInv
<1>2. f.manager \in DOMAIN managers
  BY <1>1 DEF TypesInv, Managed, ManagedBy
<1>3. Produces(Builders[f.builder], f.type) \in Types
  BY <1>1 DEF Invocations, Fields, Produces, Types
<1> QED
  BY <1>2, <1>3, AddType DEF Built, TypesInv

LEMMA BecomeWorks ==
  ASSUME TypesInv, NEW t \in Threads, stack[t] # <<>>, NEW frame \in Invocations,
         Become(t, frame), Continues(frame, Top(t)),
         Claim(frame) \subseteq Claim(Top(t)),
         Searches(Top(t)) => Claim(frame) = Claim(Top(t)),
         UNCHANGED <<locks, excluded>>
  PROVE  Effect(t)
<1>1. stack' = [stack EXCEPT ![t] = Append(Front(@), frame) \o <<>>]
  BY BecomeIsInvoke DEF TypesInv
<1>2. <<>> \in Seq(Invocations) /\ Len(<<>>) = 0
  BY EmptySeq
<1>3. Moves(t, frame, <<>>)
  BY <1>1, <1>2 DEF Moves
<1>4. Works(t, frame, <<>>)
  BY <1>3 DEF Works
<1> QED
  BY <1>2, <1>4 DEF Effect

LEMMA InvokeWorks ==
  ASSUME TypesInv, NEW t \in Threads, stack[t] # <<>>, NEW frame \in Invocations,
         NEW g \in Invocations,
         Invoke(t, frame, <<g>>), Continues(frame, Top(t)),
         Claim(frame) = Claim(Top(t)),
         Awaits(frame, g), Begun(g), ManagedBy(g, managers'),
         UNCHANGED <<locks, excluded>>
  PROVE  Effect(t)
<1>1. <<g>> \in Seq(Invocations) /\ Len(<<g>>) = 1 /\ <<g>>[1] = g
  OBVIOUS
<1>2. Moves(t, frame, <<g>>)
  BY <1>1 DEF Moves, Invoke
<1>3. Works(t, frame, <<g>>)
  BY <1>2 DEF Works
<1> QED
  BY <1>1, <1>3 DEF Effect

LEMMA ImplementWorks ==
  ASSUME TypesInv, NEW t \in Threads, stack[t] # <<>>, NEW frame \in Invocations,
         NEW d \in Devices, NEW type \in Types,
         Invoke(t, frame, Implement(d, type)), Continues(frame, Top(t)),
         Claim(frame) = Claim(Top(t)), Awaits(frame, Implement(d, type)[1]),
         UNCHANGED <<locks, excluded>>
  PROVE  Effect(t)
<1> DEFINE p == Implement(d, type)
<1>0. "basic" \in Types
  BY DEF Types
<1>1. /\ p \in Seq(Invocations) /\ Len(p) = 2 /\ p # <<>>
      /\ p[1].op = "implement" /\ p[1].at = "interfaced" /\ p[1].device = d
      /\ p[2].op = "interface" /\ p[2].device = d
      /\ Begun(p[1]) /\ Begun(p[2])
  BY <1>0, NewInvocations
<1>2. Awaits(p[1], p[2])
  BY <1>1 DEF Awaits
<1>3. \A n \in 1 .. 2 : Begun(p[n]) /\ ManagedBy(p[n], managers')
  BY <1>1 DEF ManagedBy
<1> HIDE DEF p
<1>4. Moves(t, frame, p)
  BY <1>1, <1>2, <1>3 DEF Moves, Invoke, p
<1>5. Works(t, frame, p)
  BY <1>4 DEF Works
<1> QED
  BY <1>1, <1>5 DEF Effect

LEMMA ReturnLeaves ==
  ASSUME NEW t \in Threads, stack[t] # <<>>, NEW r, Return(t, r),
         \/ UNCHANGED <<locks, excluded>> /\ (~Answering => ~Searches(Top(t)))
         \/ /\ locks' = locks \ {Top(t).device} /\ UNCHANGED excluded
            /\ Searches(Top(t))
         \/ /\ excluded' = excluded \ {ArgumentSet(Top(t), Top(t).builder)} /\ UNCHANGED locks
            /\ Builds(Top(t))
  PROVE  Effect(t)
<1>1. stack' = [stack EXCEPT ![t] = Front(@)]
  BY DEF Return
<1>2. CASE UNCHANGED <<locks, excluded>> /\ (~Answering => ~Searches(Top(t)))
  <2>1. Claimed' = Claimed
    BY <1>2 DEF Claimed
  <2> QED
    BY <1>1, <1>2, <2>1 DEF Leaves, Effect
<1>3. CASE /\ locks' = locks \ {Top(t).device} /\ UNCHANGED excluded
           /\ Searches(Top(t))
  <2>1. Claim(Top(t)) = {<<"search", Top(t).device>>}
    BY <1>3 DEF Claim
  <2>2. Claimed' = Claimed \ Claim(Top(t))
    BY <1>3, <2>1 DEF Claimed
  <2> QED
    BY <1>1, <2>2 DEF Leaves, Effect
<1>4. CASE /\ excluded' = excluded \ {ArgumentSet(Top(t), Top(t).builder)} /\ UNCHANGED locks
           /\ Builds(Top(t))
  <2>1. ~Searches(Top(t))
    BY <1>4 DEF Builds, Searches
  <2>2. Claim(Top(t)) = {<<"build", ArgumentSet(Top(t), Top(t).builder)>>}
    BY <1>4, <2>1 DEF Claim
  <2>3. Claimed' = Claimed \ Claim(Top(t))
    BY <1>4, <2>2 DEF Claimed
  <2> QED
    BY <1>1, <2>3 DEF Leaves, Effect
<1> QED
  BY <1>2, <1>3, <1>4

\* Every step of a thread has one of the effects.
LEMMA InterfaceEffect ==
  ASSUME TypesInv, NEW t \in Threads,
         Lookup(t) \/ CreateDeviceManager(t) \/ Interfaced(t) \/ PassOn(t)
  PROVE  Effect(t)
<1> DEFINE f == Top(t)
<1>1. stack[t] # <<>>
  BY DEF Lookup, CreateDeviceManager, Interfaced, PassOn, Gets, Begins, Runs
<1>2. f \in Invocations /\ f.device \in Devices /\ f.type \in Types
  BY <1>1, TopFacts DEF TypesInv, Invocations, Fields
<1> DEFINE waiting(at) == [f EXCEPT !.at = at]
<1>3. ASSUME NEW at \in {"managed", "remote"}, f.op \in {"interface", "implement"}
      PROVE  /\ waiting(at) \in Invocations /\ Continues(waiting(at), f)
             /\ waiting(at).at = at
             /\ Claim(waiting(at)) = Claim(f)
  BY <1>2, <1>3 DEF Invocations, Fields, Sound, Builds, Searches, Claim, Continues, Places
<1>4. Shared
  BY DEF TypesInv
\* The two invocations that follow.
<1>5. ASSUME f.op \in {"interface", "implement"}, ManagersOf(f.device) # {},
             Invoke(t, waiting("managed"), <<Manage(FirstManager(f.device), f.device, f.type)>>),
             UNCHANGED <<managers, locks, excluded>>
      PROVE  Effect(t)
  <2> DEFINE g == Manage(FirstManager(f.device), f.device, f.type)
  <2>1. /\ FirstManager(f.device) \in DOMAIN managers
        /\ managers[FirstManager(f.device)].device = f.device
    BY <1>2, <1>4, <1>5, FirstIsManager
  <2>2. FirstManager(f.device) \in Nat
    BY <1>4, <2>1, LenProperties DEF Shared
  <2>3. /\ g \in Invocations /\ Begun(g) /\ g.op = "manage" /\ g.device = f.device
        /\ g.manager = FirstManager(f.device)
    BY <1>2, <2>2, NewInvocations
  <2>4. ManagedBy(g, managers')
    BY <1>5, <2>1, <2>3 DEF ManagedBy
  <2>5. Awaits(waiting("managed"), g)
    BY <1>3, <1>5, <2>3 DEF Awaits, Continues
  <2> HIDE DEF g
  <2> QED
    BY <1>1, <1>3, <1>5, <2>3, <2>4, <2>5, InvokeWorks DEF g
<1>6. ASSUME f.op = "interface", ManagersOf(f.device) = {},
             Invoke(t, waiting("remote"), <<Remote(f.device, f.type)>>),
             UNCHANGED <<managers, locks, excluded>>
      PROVE  Effect(t)
  <2> DEFINE g == Remote(f.device, f.type)
  <2>1. g \in Invocations /\ Begun(g) /\ g.op = "remote" /\ g.device = f.device
    BY <1>2, NewInvocations
  <2>2. ManagedBy(g, managers')
    BY <2>1 DEF ManagedBy
  <2>3. Awaits(waiting("remote"), g)
    BY <1>3, <1>6, <2>1 DEF Awaits, Continues
  <2> HIDE DEF g
  <2> QED
    BY <1>1, <1>3, <1>6, <2>1, <2>2, <2>3, InvokeWorks DEF g
<1>7. CASE Lookup(t)
  <2>1. f.op = "interface" /\ UNCHANGED <<managers, locks, excluded>>
    BY <1>7 DEF Lookup, Begins, Runs
  <2>2. CASE ManagersOf(f.device) # {}
    <3>1. Invoke(t, waiting("managed"), <<Manage(FirstManager(f.device), f.device, f.type)>>)
      BY <1>7, <2>2 DEF Lookup
    <3> QED
      BY <1>5, <2>1, <2>2, <3>1
  <2>3. CASE ManagersOf(f.device) = {}
    <3>1. Invoke(t, waiting("remote"), <<Remote(f.device, f.type)>>)
      BY <1>7, <2>3 DEF Lookup
    <3> QED
      BY <1>6, <2>1, <2>3, <3>1
  <2> QED
    BY <2>2, <2>3
<1>8. CASE CreateDeviceManager(t)
  <2> DEFINE g == Manage(Len(managers) + 1, f.device, f.type)
             m == [device |-> f.device, types |-> {}]
  <2>1. /\ f.op = "interface" /\ UNCHANGED <<locks, excluded>>
        /\ managers' = Append(managers, m)
        /\ Invoke(t, waiting("managed"), <<g>>)
    BY <1>8 DEF CreateDeviceManager, Gets, Runs
  <2>2. m \in [device : Devices, types : SUBSET Types] /\ m.device = f.device
    BY <1>2
  <2>3. /\ Len(managers) \in Nat /\ Len(managers) + 1 \in Nat
    BY <1>4, LenProperties DEF Shared
  <2>4. /\ managers'[Len(managers) + 1] = m /\ Len(managers') = Len(managers) + 1
        /\ managers' \in Seq([device : Devices, types : SUBSET Types])
    <3> HIDE DEF m
    <3> QED
      BY <1>4, <2>1, <2>2, AddManager DEF ManagersKept
  <2>5. /\ g \in Invocations /\ Begun(g) /\ g.op = "manage" /\ g.device = f.device
        /\ g.manager = Len(managers) + 1
    BY <1>2, <2>3, NewInvocations
  <2>6. DOMAIN managers' = 1 .. Len(managers')
    BY <2>4, LenProperties
  <2>7. ManagedBy(g, managers')
    BY <2>2, <2>3, <2>4, <2>5, <2>6 DEF ManagedBy
  <2>8. Awaits(waiting("managed"), g)
    BY <1>3, <2>1, <2>5 DEF Awaits, Continues
  <2> HIDE DEF g, m
  <2> QED
    BY <1>1, <1>3, <2>1, <2>5, <2>7, <2>8, InvokeWorks
<1>9. CASE Interfaced(t)
  <2>1. f.op = "implement" /\ UNCHANGED <<managers, locks, excluded>>
    BY <1>9 DEF Interfaced, Gets, Runs
  <2>2. CASE ManagersOf(f.device) # {}
    <3>1. Invoke(t, waiting("managed"), <<Manage(FirstManager(f.device), f.device, f.type)>>)
      BY <1>9, <2>2 DEF Interfaced
    <3> QED
      BY <1>5, <2>1, <2>2, <3>1
  <2>3. CASE ManagersOf(f.device) = {}
    <3>1. Return(t, "error")
      BY <1>9, <2>3 DEF Interfaced
    <3> QED
      BY <1>1, <2>1, <3>1, ReturnLeaves DEF Searches
  <2> QED
    BY <2>2, <2>3
<1>10. CASE PassOn(t)
  <2>1. f.op # "remote" /\ UNCHANGED <<locks, excluded>> /\ Return(t, result[t])
    BY <1>10 DEF PassOn, Gets, Runs
  <2> QED
    BY <1>1, <2>1, ReturnLeaves DEF Searches
<1> QED
  BY <1>7, <1>8, <1>9, <1>10

LEMMA RemoteEffect ==
  ASSUME TypesInv, NEW t \in Threads,
         EnterRemote(t) \/ AskHost(t) \/ HostAsked(t) \/ UseBridge(t) \/ NoBridge(t)
  PROVE  Effect(t)
<1> DEFINE f == Top(t)
<1>1. stack[t] # <<>> /\ f.op = "remote"
  BY DEF EnterRemote, AskHost, HostAsked, UseBridge, NoBridge, Gets, Begins, Runs
<1>2. f \in Invocations /\ f.device \in Devices /\ f.type \in Types
  BY <1>1, TopFacts DEF TypesInv, Invocations, Fields
<1>3. CASE EnterRemote(t)
  <2>1. f.at = "enter" /\ excluded' = excluded
    BY <1>3 DEF EnterRemote, Begins, Runs
  <2>2. CASE f.device \in locks
    <3>1. Return(t, "null") /\ locks' = locks /\ ~Searches(f)
      BY <1>3, <2>1, <2>2 DEF EnterRemote, Searches
    <3> QED
      BY <1>1, <2>1, <3>1, ReturnLeaves
  <2>3. CASE f.device \notin locks
    <3> DEFINE frame == [f EXCEPT !.at = "loop", !.hosts = Hosts \ {f.device}]
    <3>1. Become(t, frame) /\ locks' = locks \cup {f.device}
      BY <1>3, <2>3 DEF EnterRemote
    <3>2. frame \in Invocations /\ Continues(frame, f) /\ Searches(frame)
      BY <1>1, <1>2 DEF Invocations, Fields, Sound, Builds, Searches, Continues, Places
    <3>3. Claim(frame) = {<<"search", f.device>>} /\ Claim(f) = {}
      BY <1>1, <2>1, <3>2 DEF Claim, Searches, Builds, Continues
    <3>4. <<"search", f.device>> \notin Claimed
      BY <2>3 DEF Claimed
    <3>5. Claimed' = Claimed \cup Claim(frame)
      BY <2>1, <3>1, <3>3 DEF Claimed
    <3> HIDE DEF frame
    <3>6. stack' = [stack EXCEPT ![t] = Append(Front(@), frame) \o <<>>]
      BY <1>1, <3>1, <3>2, BecomeIsInvoke DEF TypesInv
    <3>7. Moves(t, frame, <<>>)
      BY <1>1, <3>2, <3>6, EmptySeq DEF Moves
    <3> QED
      BY <3>2, <3>3, <3>4, <3>5, <3>7 DEF Claims, Effect
  <2> QED
    BY <2>2, <2>3
<1>4. CASE AskHost(t)
  <2>1. f.at = "loop" /\ UNCHANGED <<managers, locks, excluded>>
    BY <1>4 DEF AskHost, Begins, Runs
  <2>2. PICK h \in f.hosts :
          Invoke(t, [f EXCEPT !.at = "asked", !.hosts = @ \ {h}], <<Interface(h, "full")>>)
    BY <1>4 DEF AskHost
  <2> DEFINE frame == [f EXCEPT !.at = "asked", !.hosts = @ \ {h}]
             g == Interface(h, "full")
  <2>3. h \in Hosts /\ h # f.device /\ h \in Devices /\ "full" \in Types
    BY <1>1, <1>2 DEF Invocations, Fields, Sound, Devices, Types
  <2>4. g \in Invocations /\ Begun(g) /\ g.op = "interface" /\ g.device = h
    BY <2>3, NewInvocations
  <2>5. /\ frame \in Invocations /\ Continues(frame, f) /\ frame.at = "asked"
        /\ frame.op = "remote" /\ frame.device = f.device
    BY <1>1, <1>2 DEF Invocations, Fields, Sound, Builds, Continues, Places
  <2>6. Claim(frame) = Claim(f)
    BY <1>1, <2>1, <2>5 DEF Claim, Searches, Builds
  <2>7. Awaits(frame, g) /\ ManagedBy(g, managers')
    BY <2>3, <2>4, <2>5 DEF Awaits, ManagedBy
  <2> HIDE DEF frame, g
  <2> QED
    BY <1>1, <2>1, <2>2, <2>4, <2>5, <2>6, <2>7, InvokeWorks DEF frame, g
<1>5. CASE HostAsked(t)
  <2>1. f.at = "asked" /\ UNCHANGED <<locks, excluded>>
    BY <1>5 DEF HostAsked, Gets, Runs
  <2>2. PICK bridge \in {FALSE, Answering /\ result[t] \in {"local", "remote"}} :
          Become(t, [f EXCEPT !.at = "loop", !.bridged = @ \/ bridge])
    BY <1>5 DEF HostAsked
  <2> DEFINE frame == [f EXCEPT !.at = "loop", !.bridged = @ \/ bridge]
  <2>3. bridge \in BOOLEAN /\ (bridge => Answering)
    BY DevicesAssumption
  <2>4. /\ frame \in Invocations /\ Continues(frame, f) /\ frame.at = "loop"
        /\ frame.op = "remote" /\ frame.device = f.device
    <3>1. f \in Fields /\ Sound(f)
      BY <1>2 DEF Invocations
    <3>2. /\ frame.op = f.op /\ frame.at = "loop" /\ frame.device = f.device
          /\ frame.type = f.type /\ frame.manager = f.manager
          /\ frame.builder = f.builder /\ frame.hosts = f.hosts
          /\ frame.bridged = (f.bridged \/ bridge)
      BY <3>1 DEF Fields
    <3>3. frame \in Fields
      BY <2>3, <3>1 DEF Fields, Places
    <3> HIDE DEF frame
    <3>4. frame.bridged => Answering
      BY <2>3, <3>1, <3>2 DEF Sound
    <3>5. Sound(frame)
      BY <1>1, <3>1, <3>2, <3>4 DEF Sound, Builds
    <3> QED
      BY <1>1, <3>2, <3>3, <3>5 DEF Invocations, Continues
  <2>5. Claim(frame) = Claim(f)
    BY <1>1, <2>1, <2>4 DEF Claim, Searches, Builds
  <2> HIDE DEF frame
  <2> QED
    BY <1>1, <2>1, <2>2, <2>4, <2>5, BecomeWorks DEF frame
<1>6. CASE UseBridge(t)
  <2>1. f.at = "loop" /\ f.bridged /\ excluded' = excluded
    BY <1>6 DEF UseBridge, Begins, Runs
  <2>2. Answering /\ Searches(f)
    BY <1>1, <1>2, <2>1 DEF Invocations, Sound, Searches
  <2>3. \/ Return(t, "remote") /\ locks' = locks \ {f.device}
        \/ Return(t, "error") /\ UNCHANGED locks
    BY <1>6 DEF UseBridge
  <2> QED
    BY <1>1, <2>1, <2>2, <2>3, ReturnLeaves
<1>7. CASE NoBridge(t)
  <2>1. Searches(f) /\ excluded' = excluded /\ Return(t, "null") /\ locks' = locks \ {f.device}
    BY <1>7 DEF NoBridge, Begins, Runs, Searches
  <2> QED
    BY <1>1, <2>1, ReturnLeaves
<1> QED
  BY <1>3, <1>4, <1>5, <1>6, <1>7

\* A builder that goes on from one place to another.
LEMMA BuilderMoves ==
  ASSUME NEW f \in Invocations, Builds(f), NEW at \in Places \ {"enter", "build", "building"},
         Builders[f.builder] \in BuildersAt(at)
  PROVE  LET frame == [f EXCEPT !.at = at]
         IN  /\ frame \in Invocations /\ Continues(frame, f) /\ frame.at = at
             /\ frame.op = "manage" /\ frame.device = f.device /\ frame.builder = f.builder
             /\ Claim(frame) = Claim(f) /\ ~Searches(f)
<1> DEFINE frame == [f EXCEPT !.at = at]
<1>1. f \in Fields /\ Sound(f) /\ f.op = "manage"
  BY DEF Invocations, Builds
<1>2. /\ frame \in Fields
      /\ frame.op = f.op /\ frame.at = at /\ frame.device = f.device /\ frame.type = f.type
      /\ frame.port = f.port /\ frame.manager = f.manager /\ frame.builder = f.builder
      /\ frame.hosts = f.hosts /\ frame.bridged = f.bridged
  BY <1>1 DEF Fields
<1> HIDE DEF frame
<1>3. Sound(frame)
  BY <1>1, <1>2 DEF Sound, Builds
<1>4. Claim(frame) = Claim(f) /\ ~Searches(f) /\ Continues(frame, f)
  BY <1>1, <1>2 DEF Claim, Builds, Searches, ArgumentSet, Continues
<1> QED
  BY <1>1, <1>2, <1>3, <1>4 DEF Invocations, frame

\* A builder that has failed: the next one is looked for.
LEMMA BuildingAgain ==
  ASSUME TypesInv, NEW t \in Threads, stack[t] # <<>>, Top(t).op = "manage",
         Become(t, [Top(t) EXCEPT !.at = "building"]),
         UNCHANGED <<locks, excluded>>
  PROVE  Effect(t)
<1> DEFINE f == Top(t)
           frame == [f EXCEPT !.at = "building"]
<1>1. f \in Invocations
  BY TopFacts DEF TypesInv
<1>2. /\ frame \in Invocations /\ Continues(frame, f) /\ Claim(frame) = {} /\ ~Searches(f)
      /\ frame.at = "building" /\ frame.builder = f.builder /\ frame.op = "manage"
  BY <1>1 DEF Invocations, Fields, Sound, Builds, Searches, Claim, Continues, Places
<1> HIDE DEF frame
<1> QED
  BY <1>2, BecomeWorks DEF frame

LEMMA TopManages ==
  ASSUME TypesInv, NEW t \in Threads, stack[t] # <<>>, Top(t).op = "manage"
  PROVE  /\ Top(t) \in Invocations /\ Top(t).device \in Devices /\ Top(t).type \in Types
         /\ Top(t).manager \in DOMAIN managers
         /\ managers[Top(t).manager].device = Top(t).device
<1>1. /\ Top(t) \in Invocations /\ Top(t) = stack[t][Len(stack[t])]
      /\ Len(stack[t]) \in 1 .. Len(stack[t])
  BY TopFacts DEF TypesInv
<1> QED
  BY <1>1 DEF TypesInv, Managed, ManagedBy, Invocations, Fields

LEMMA ManageEffect ==
  ASSUME TypesInv, NEW t \in Threads,
         EnterManager(t) \/ EnterToBuild(t) \/ TryBuilder(t) \/ BuildFailed(t)
  PROVE  Effect(t)
<1> DEFINE f == Top(t)
<1>1. stack[t] # <<>> /\ f.op = "manage"
  BY DEF EnterManager, EnterToBuild, TryBuilder, BuildFailed, Gets, Begins, Runs
<1>2. f \in Invocations /\ f.device \in Devices /\ f.type \in Types
  BY <1>1, TopManages
<1>3. CASE EnterManager(t)
  <2>1. UNCHANGED <<locks, excluded>>
    BY <1>3 DEF EnterManager
  <2>2. CASE Return(t, "local")
    BY <1>1, <2>1, <2>2, ReturnLeaves DEF Searches
  <2>3. CASE Become(t, [f EXCEPT !.at = "building"])
    BY <1>1, <2>1, <2>3, BuildingAgain
  <2> QED
    BY <1>3, <2>2, <2>3 DEF EnterManager
<1>4. CASE TryBuilder(t)
  <2>1. f.at = "building" /\ locks' = locks
    BY <1>4 DEF TryBuilder, Begins, Runs
  <2>2. CASE Untried(f) = {}
    <3>1. Return(t, "failed") /\ UNCHANGED excluded
      BY <1>4, <2>2 DEF TryBuilder
    <3> QED
      BY <1>1, <2>1, <3>1, ReturnLeaves DEF Searches
  <2>3. CASE Untried(f) # {}
    <3> DEFINE i == CHOOSE i \in Untried(f) : \A j \in Untried(f) : i <= j
               frame == [f EXCEPT !.at = "started", !.builder = i]
    <3>1. /\ excluded' = excluded \cup {ArgumentSet(f, i)}
          /\ Become(t, frame)
      BY <1>4, <2>3 DEF TryBuilder
    <3>2. Untried(f) \subseteq 1 .. 8
      BY BuildersEight DEF Untried
    <3>3. i \in Untried(f) /\ \A j \in Untried(f) : i <= j
      <4>1. \E k \in Untried(f) : \A j \in Untried(f) : k <= j
        BY <2>3, <3>2, Smallest
      <4> QED
        BY <4>1
    <3> HIDE DEF i
    <3>4. /\ i \in 1 .. 8
          /\ <<f.device, f.port>> \in Accepted(Builders[i])
          /\ Satisfies(Produces(Builders[i], f.type), f.type)
          /\ ArgumentSet(f, i) \notin excluded
      BY <3>2, <3>3 DEF Untried
    <3>5. Builders[i] \in BuildersAt("started")
      BY <3>4 DEF BuildersAt
    <3>6. /\ frame \in Fields
          /\ frame.op = "manage" /\ frame.at = "started" /\ frame.device = f.device
          /\ frame.type = f.type /\ frame.port = f.port /\ frame.manager = f.manager
          /\ frame.builder = i
          /\ frame.hosts = f.hosts /\ frame.bridged = f.bridged
      <4>1. f \in Fields /\ i \in 0 .. 8 /\ "started" \in Places
        BY <1>2, <3>4 DEF Invocations, Places
      <4> QED
        BY <1>1, <4>1 DEF Fields
    <3> HIDE DEF frame
    <3>7. Sound(frame)
      BY <1>2, <3>4, <3>5, <3>6 DEF Sound, Builds, Invocations
    <3>8. frame \in Invocations /\ Continues(frame, f)
      BY <1>1, <3>6, <3>7 DEF Invocations, Continues
    <3>9. Claim(frame) = {<<"build", ArgumentSet(f, i)>>} /\ Claim(f) = {}
      BY <1>1, <2>1, <3>6 DEF Claim, Searches, Builds, ArgumentSet
    <3>10. <<"build", ArgumentSet(f, i)>> \notin Claimed
      BY <3>4 DEF Claimed
    <3>11. Claimed' = Claimed \cup Claim(frame)
      BY <2>1, <3>1, <3>9 DEF Claimed
    <3>12. stack' = [stack EXCEPT ![t] = Append(Front(@), frame) \o <<>>]
      BY <1>1, <3>1, <3>8, BecomeIsInvoke DEF TypesInv
    <3>13. Moves(t, frame, <<>>)
      BY <1>1, <3>8, <3>12, EmptySeq DEF Moves
    <3> QED
      BY <3>8, <3>9, <3>10, <3>11, <3>13 DEF Claims, Effect
  <2> QED
    BY <2>2, <2>3
<1>5. CASE BuildFailed(t)
  <2>1. /\ Become(t, [f EXCEPT !.at = "building"]) /\ UNCHANGED <<locks, excluded>>
    BY <1>5 DEF BuildFailed
  <2> QED
    BY <1>1, <2>1, BuildingAgain
<1>6. CASE EnterToBuild(t)
  BY <1>1, <1>6, BuildingAgain DEF EnterToBuild
<1> QED
  BY <1>3, <1>4, <1>5, <1>6

LEMMA BuiltEffect ==
  ASSUME TypesInv, NEW t \in Threads, stack[t] # <<>>, Builds(Top(t)), Built(t),
         UNCHANGED locks
  PROVE  Effect(t)
  BY ReturnLeaves DEF Built

\* A builder that has its device built with another port.
LEMMA BuildInvoked ==
  ASSUME TypesInv, NEW t \in Threads, stack[t] # <<>>, Builds(Top(t)),
         NEW at \in {"unported", "assembling"},
         NEW type \in Types, NEW port \in Ports,
         Builders[Top(t).builder] \in BuildersAt(at),
         Invoke(t, [Top(t) EXCEPT !.at = at],
                <<Build(FirstManager(Top(t).device), Top(t).device, type, port)>>),
         UNCHANGED <<managers, locks, excluded>>
  PROVE  Effect(t)
<1> DEFINE f == Top(t)
           frame == [f EXCEPT !.at = at]
           g == Build(FirstManager(f.device), f.device, type, port)
<1>1. /\ f \in Invocations /\ f.device \in Devices /\ f.op = "manage"
      /\ f.manager \in DOMAIN managers /\ managers[f.manager].device = f.device
  BY TopManages DEF Builds
<1>2. /\ FirstManager(f.device) \in DOMAIN managers
      /\ managers[FirstManager(f.device)].device = f.device
  <2>1. ManagersOf(f.device) # {} /\ Shared
    BY <1>1 DEF ManagersOf, TypesInv
  <2> QED
    BY <1>1, <2>1, FirstIsManager
<1>3. FirstManager(f.device) \in Nat
  BY <1>2, LenProperties DEF TypesInv, Shared
<1>4. /\ g \in Invocations /\ Begun(g) /\ g.op = "manage" /\ g.device = f.device
      /\ g.manager = FirstManager(f.device)
  BY <1>1, <1>3, NewInvocations
<1>5. ManagedBy(g, managers')
  BY <1>2, <1>4 DEF ManagedBy
<1>6. /\ frame \in Invocations /\ Continues(frame, f) /\ frame.at = at
      /\ frame.op = "manage" /\ frame.device = f.device /\ Claim(frame) = Claim(f)
  BY <1>1, BuilderMoves DEF Places
<1> HIDE DEF frame, g
<1>7. Awaits(frame, g)
  BY <1>4, <1>6 DEF Awaits
<1> QED
  BY <1>4, <1>5, <1>6, <1>7, InvokeWorks DEF frame, g

LEMMA BuildEffect ==
  ASSUME TypesInv, NEW t \in Threads,
         \/ BuildDefault(t) \/ ImplementComponent(t) \/ BuildOnComponent(t) \/ BuildHost(t)
         \/ Link(t) \/ InterfaceParent(t) \/ BuildWithoutPort(t) \/ ImplementParent(t)
         \/ Assemble(t) \/ BuildWithChild(t) \/ InterfaceHost(t) \/ AskHostForDevice(t)
  PROVE  Effect(t)
<1> DEFINE f == Top(t)
<1>1. stack[t] # <<>> /\ Builds(f)
  BY DEF BuildDefault, ImplementComponent, BuildOnComponent, BuildHost, Link, InterfaceParent,
         BuildWithoutPort, ImplementParent, Assemble, BuildWithChild, InterfaceHost,
         AskHostForDevice, Gets, Begins, Runs, Builds
<1>2. f \in Invocations /\ f.device \in Devices /\ f.type \in Types /\ f.op = "manage"
  BY <1>1, TopManages DEF Builds
<1>3. Builders[f.builder] \in BuildersAt(f.at)
  BY <1>1, <1>2 DEF Invocations, Sound
<1>4. CASE BuildDefault(t)
  BY <1>1, <1>4, BuiltEffect DEF BuildDefault
<1>5. CASE ImplementComponent(t)
  <2> DEFINE frame == [f EXCEPT !.at = "component"]
             type == Components[Builder(t)]
  <2>1. /\ Builders[f.builder] \in {"chip", "board", "serial", "local"} /\ type \in Types
        /\ Invoke(t, frame, Implement(f.device, type)) /\ UNCHANGED <<locks, excluded>>
    BY <1>5 DEF ImplementComponent, Builder, Components, Types
  <2>2. Builders[f.builder] \in BuildersAt("component")
    BY <2>1 DEF BuildersAt
  <2>3. /\ frame \in Invocations /\ Continues(frame, f) /\ frame.at = "component"
        /\ frame.op = "manage" /\ frame.device = f.device /\ frame.builder = f.builder
        /\ Claim(frame) = Claim(f)
    BY <1>1, <1>2, <2>2, BuilderMoves DEF Places
  <2>4. Awaits(frame, Implement(f.device, type)[1])
    <3>1. /\ Implement(f.device, type)[1].op = "implement"
          /\ Implement(f.device, type)[1].device = f.device
      BY <1>2, <2>1, NewInvocations
    <3> QED
      BY <2>3, <3>1 DEF Awaits
  <2> HIDE DEF frame, type
  <2> QED
    BY <1>1, <1>2, <2>1, <2>3, <2>4, ImplementWorks
<1>6. CASE BuildOnComponent(t)
  <2>1. f.at = "component" /\ locks' = locks
    BY <1>6 DEF BuildOnComponent, Gets, Runs
  <2>2. CASE Built(t)
    BY <1>1, <2>1, <2>2, BuiltEffect
  <2>3. CASE Become(t, [f EXCEPT !.at = "building"]) /\ excluded' = excluded
    BY <1>1, <1>2, <2>1, <2>3, BuildingAgain
  <2>4. CASE /\ Become(t, [f EXCEPT !.at = "linking"]) /\ excluded' = excluded
             /\ Builder(t) \in {"board", "serial"}
    <3>1. Builders[f.builder] \in BuildersAt("linking")
      BY <2>4 DEF BuildersAt, Builder
    <3> DEFINE frame == [f EXCEPT !.at = "linking"]
    <3>2. /\ frame \in Invocations /\ Continues(frame, f) /\ Claim(frame) = Claim(f)
          /\ ~Searches(f)
      BY <1>1, <1>2, <3>1, BuilderMoves DEF Places
    <3> HIDE DEF frame
    <3> QED
      BY <1>1, <2>1, <2>4, <3>2, BecomeWorks DEF frame
  <2> QED
    BY <1>6, <2>2, <2>3, <2>4 DEF BuildOnComponent
<1>7. CASE BuildHost(t)
  <2>1. /\ Builder(t) = "host" /\ Become(t, [f EXCEPT !.at = "linking"])
        /\ UNCHANGED <<locks, excluded>>
    BY <1>7 DEF BuildHost
  <2>2. Builders[f.builder] \in BuildersAt("linking")
    BY <2>1 DEF BuildersAt, Builder
  <2> DEFINE frame == [f EXCEPT !.at = "linking"]
  <2>3. /\ frame \in Invocations /\ Continues(frame, f) /\ Claim(frame) = Claim(f)
        /\ frame.at = "linking" /\ frame.builder = f.builder
    BY <1>1, <1>2, <2>2, BuilderMoves DEF Places
  <2> HIDE DEF frame
  <2> QED
    BY <1>1, <2>1, <2>3, BecomeWorks DEF frame
<1>8. CASE Link(t)
  <2>1. locks' = locks /\ f.at = "linking"
    BY <1>8 DEF Link, Begins, Runs
  <2>2. CASE Built(t)
    BY <1>1, <2>1, <2>2, BuiltEffect
  <2>3. CASE Become(t, [f EXCEPT !.at = "building"]) /\ excluded' = excluded
    BY <1>1, <1>2, <2>1, <2>3, BuildingAgain
  <2> QED
    BY <1>8, <2>2, <2>3 DEF Link
<1>9. CASE InterfaceParent(t)
  <2> DEFINE frame == [f EXCEPT !.at = "parent"]
             g == Interface(Board, "basic")
  <2>1. /\ Builder(t) = "slave" /\ Invoke(t, frame, <<g>>)
        /\ UNCHANGED <<managers, locks, excluded>>
    BY <1>9 DEF InterfaceParent
  <2>2. Builders[f.builder] \in BuildersAt("parent")
    BY <2>1 DEF BuildersAt, Builder
  <2>3. /\ frame \in Invocations /\ Continues(frame, f) /\ frame.at = "parent"
        /\ frame.op = "manage" /\ frame.builder = f.builder /\ Claim(frame) = Claim(f)
    BY <1>1, <1>2, <2>2, BuilderMoves DEF Places
  <2>4. Board \in Devices /\ "basic" \in Types
    BY DEF Devices, Types
  <2>5. g \in Invocations /\ Begun(g) /\ g.op = "interface" /\ g.device = Board
    BY <2>4, NewInvocations
  <2>6. Awaits(frame, g) /\ ManagedBy(g, managers')
    BY <2>3, <2>5 DEF Awaits, ManagedBy
  <2> HIDE DEF frame, g
  <2> QED
    BY <1>1, <2>1, <2>3, <2>5, <2>6, InvokeWorks
<1>10. CASE ImplementParent(t)
  <2> DEFINE frame == [f EXCEPT !.at = "assembling"]
  <2>1. /\ f.at = "unported" /\ Invoke(t, frame, Implement(Board, "full"))
        /\ UNCHANGED <<locks, excluded>>
    BY <1>10 DEF ImplementParent, Gets, Runs
  <2>2. Builders[f.builder] \in BuildersAt("assembling")
    BY <1>3, <2>1 DEF BuildersAt
  <2>3. /\ frame \in Invocations /\ Continues(frame, f) /\ frame.at = "assembling"
        /\ frame.op = "manage" /\ frame.builder = f.builder /\ Claim(frame) = Claim(f)
    BY <1>1, <1>2, <2>2, BuilderMoves DEF Places
  <2>4. Board \in Devices /\ "full" \in Types
    BY DEF Devices, Types
  <2>5. Awaits(frame, Implement(Board, "full")[1])
    <3>1. /\ Implement(Board, "full")[1].op = "implement"
          /\ Implement(Board, "full")[1].device = Board
      BY <2>4, NewInvocations
    <3> QED
      BY <2>3, <3>1 DEF Awaits
  <2> HIDE DEF frame
  <2> QED
    BY <1>1, <2>1, <2>3, <2>4, <2>5, ImplementWorks
<1>11. CASE Assemble(t)
  BY <1>1, <1>11, BuiltEffect DEF Assemble
<1>12. CASE InterfaceHost(t)
  <2>1. PICK h \in Hosts : Invoke(t, [f EXCEPT !.at = "hosted"], <<Interface(h, "full")>>)
    BY <1>12 DEF InterfaceHost
  <2> DEFINE frame == [f EXCEPT !.at = "hosted"]
             g == Interface(h, "full")
  <2>2. UNCHANGED <<managers, locks, excluded>>
    BY <1>12 DEF InterfaceHost
  <2>3. Builders[f.builder] \in BuildersAt("hosted")
    <3>1. CASE Gets(t, "manage", "parent", {"remote"})
      <4>1. f.at = "parent"
        BY <3>1 DEF Gets, Runs
      <4> QED
        BY <1>3, <4>1 DEF BuildersAt
    <3>2. CASE Builder(t) = "hosted"
      BY <3>2 DEF BuildersAt, Builder
    <3> QED
      BY <1>12, <3>1, <3>2 DEF InterfaceHost
  <2>4. /\ frame \in Invocations /\ Continues(frame, f) /\ frame.at = "hosted"
        /\ frame.op = "manage" /\ frame.builder = f.builder /\ Claim(frame) = Claim(f)
    BY <1>1, <1>2, <2>3, BuilderMoves DEF Places
  <2>5. h \in Devices /\ "full" \in Types
    BY DEF Devices, Types
  <2>6. g \in Invocations /\ Begun(g) /\ g.op = "interface" /\ g.device = h
    BY <2>5, NewInvocations
  <2>7. Awaits(frame, g) /\ ManagedBy(g, managers')
    BY <2>4, <2>6 DEF Awaits, ManagedBy
  <2> HIDE DEF frame, g
  <2> QED
    BY <1>1, <2>1, <2>2, <2>4, <2>6, <2>7, InvokeWorks DEF frame, g
<1>13. CASE AskHostForDevice(t)
  <2>1. locks' = locks
    BY <1>13 DEF AskHostForDevice
  <2>2. CASE Built(t)
    BY <1>1, <2>1, <2>2, BuiltEffect
  <2>3. CASE Return(t, "error") /\ excluded' = excluded
    <3>1. ~Searches(f)
      BY <1>2 DEF Searches
    <3> QED
      BY <1>1, <2>1, <2>3, <3>1, ReturnLeaves
  <2> QED
    BY <1>13, <2>2, <2>3 DEF AskHostForDevice
<1>14. CASE BuildWithoutPort(t)
  <2>1. f.at = "parent" /\ UNCHANGED <<managers, locks, excluded>>
    BY <1>14 DEF BuildWithoutPort, Gets, Runs
  <2>2. /\ Builders[f.builder] \in BuildersAt("unported")
        /\ "basic" \in Types /\ "none" \in Ports
    BY <1>3, <2>1 DEF BuildersAt, Types, Ports
  <2>3. Invoke(t, [f EXCEPT !.at = "unported"],
               <<Build(FirstManager(f.device), f.device, "basic", "none")>>)
    BY <1>14 DEF BuildWithoutPort
  <2> QED
    BY <1>1, <2>1, <2>2, <2>3, BuildInvoked
<1>15. CASE BuildWithChild(t)
  <2>1. Builder(t) = "hosted" /\ UNCHANGED <<managers, locks, excluded>>
    BY <1>15 DEF BuildWithChild
  <2>2. /\ Builders[f.builder] \in BuildersAt("assembling") /\ "serial" \in Ports
    BY <2>1 DEF BuildersAt, Builder, Ports
  <2>3. Invoke(t, [f EXCEPT !.at = "assembling"],
               <<Build(FirstManager(f.device), f.device, f.type, "serial")>>)
    BY <1>15 DEF BuildWithChild
  <2> QED
    BY <1>1, <1>2, <2>1, <2>2, <2>3, BuildInvoked
<1> QED
  BY <1>4, <1>5, <1>6, <1>7, <1>8, <1>9, <1>10, <1>11, <1>12, <1>13, <1>14, <1>15

LEMMA StepEffect ==
  ASSUME TypesInv, NEW t \in Threads, Step(t)
  PROVE  Effect(t)
  BY InterfaceEffect, RemoteEffect, ManageEffect, BuildEffect DEF Step

-----------------------------------------------------------------------------
(* What the steps leave of the shared state *)

LEMMA SameManagers == Shared /\ managers' = managers => ManagersKept
<1> SUFFICES ASSUME Shared, managers' = managers PROVE ManagersKept
  OBVIOUS
<1>1. Len(managers) \in Nat
  BY LenProperties DEF Shared
<1> QED
  BY <1>1 DEF Shared, ManagersKept

LEMMA StepManagers ==
  ASSUME TypesInv, NEW t \in Threads, Step(t)
  PROVE  ManagersKept
<1> DEFINE f == Top(t)
<1>0. Shared
  BY DEF TypesInv
<1>1. CASE managers' = managers
  BY <1>0, <1>1, SameManagers
<1>2. CASE CreateDeviceManager(t)
  <2>1. /\ stack[t] # <<>>
        /\ managers' = Append(managers, [device |-> f.device, types |-> {}])
    BY <1>2 DEF CreateDeviceManager, Gets, Runs
  <2>2. [device |-> f.device, types |-> {}] \in [device : Devices, types : SUBSET Types]
    BY <2>1, TopFacts DEF TypesInv, Invocations, Fields
  <2> QED
    BY <1>0, <2>1, <2>2, AddManager
<1>4. CASE Built(t) /\ stack[t] # <<>> /\ Builds(f)
  BY <1>4, BuiltShared DEF Builds
<1>5. CASE BuildDefault(t) \/ Assemble(t)
  <2>1. Built(t) /\ stack[t] # <<>> /\ Builds(f)
    BY <1>5 DEF BuildDefault, Assemble, Gets, Begins, Runs, Builds
  <2> QED
    BY <1>4, <2>1
<1>6. CASE BuildOnComponent(t) \/ Link(t) \/ AskHostForDevice(t)
  <2>1. stack[t] # <<>> /\ Builds(f)
    BY <1>6 DEF BuildOnComponent, Link, AskHostForDevice, Gets, Begins, Runs, Builds
  <2>2. Built(t) \/ managers' = managers
    BY <1>6 DEF BuildOnComponent, Link, AskHostForDevice
  <2> QED
    BY <1>1, <1>4, <2>1, <2>2
<1>7. CASE \/ Lookup(t) \/ Interfaced(t) \/ PassOn(t) \/ EnterRemote(t) \/ AskHost(t)
           \/ HostAsked(t) \/ UseBridge(t) \/ NoBridge(t) \/ EnterManager(t) \/ TryBuilder(t)
           \/ BuildFailed(t) \/ ImplementComponent(t) \/ BuildHost(t) \/ InterfaceParent(t)
           \/ EnterToBuild(t) \/ BuildWithoutPort(t) \/ ImplementParent(t)
           \/ BuildWithChild(t) \/ InterfaceHost(t)
  <2>1. managers' = managers
    BY <1>7 DEF Lookup, Interfaced, PassOn, EnterRemote, AskHost, HostAsked, UseBridge,
         NoBridge, EnterManager, EnterToBuild, TryBuilder, BuildFailed, ImplementComponent,
         BuildHost, InterfaceParent, BuildWithoutPort, ImplementParent, BuildWithChild,
         InterfaceHost
  <2> QED
    BY <1>1, <2>1
<1> QED
  BY <1>2, <1>5, <1>6, <1>7 DEF Step

LEMMA ResultKept ==
  ASSUME Shared, NEW t \in Threads,
         \/ \E frame : Become(t, frame) \/ \E pushed : Invoke(t, frame, pushed)
         \/ \E r \in Results \cup {"none"} : Return(t, r)
  PROVE  result' \in [Threads -> Results \cup {"none"}]
  BY DEF Shared, Become, Invoke, Return

LEMMA StepResult ==
  ASSUME TypesInv, NEW t \in Threads, Step(t)
  PROVE  result' \in [Threads -> Results \cup {"none"}]
<1>0. Shared
  BY DEF TypesInv
<1>1. \A r \in {"local", "remote", "null", "failed", "error"} : r \in Results
  BY DEF Results
<1>2. ASSUME NEW r \in {"local", "remote", "null", "failed", "error"}, Return(t, r)
      PROVE  result' \in [Threads -> Results \cup {"none"}]
  BY <1>0, <1>1, <1>2, ResultKept
<1>3. ASSUME Built(t) PROVE result' \in [Threads -> Results \cup {"none"}]
  BY <1>2, <1>3 DEF Built
<1>4. CASE PassOn(t)
  <2>1. result[t] \in Results \cup {"none"} /\ Return(t, result[t])
    BY <1>0, <1>4 DEF PassOn, Shared
  <2> QED
    BY <1>0, <2>1, ResultKept
<1>5. CASE \/ Lookup(t) \/ CreateDeviceManager(t) \/ Interfaced(t)
  BY <1>0, <1>2, <1>5, ResultKept DEF Lookup, CreateDeviceManager, Interfaced
<1>6. CASE \/ EnterRemote(t) \/ AskHost(t) \/ HostAsked(t) \/ UseBridge(t) \/ NoBridge(t)
  BY <1>0, <1>2, <1>6, ResultKept DEF EnterRemote, AskHost, HostAsked, UseBridge, NoBridge
<1>7. CASE EnterManager(t) \/ EnterToBuild(t) \/ TryBuilder(t) \/ BuildFailed(t)
  BY <1>0, <1>2, <1>7, ResultKept DEF EnterManager, EnterToBuild, TryBuilder, BuildFailed
<1>8. CASE \/ BuildDefault(t) \/ ImplementComponent(t) \/ BuildOnComponent(t) \/ BuildHost(t)
           \/ Link(t) \/ Assemble(t)
  BY <1>0, <1>3, <1>8, ResultKept DEF BuildDefault, ImplementComponent, BuildOnComponent,
     BuildHost, Link, Assemble
<1>9. CASE \/ InterfaceParent(t) \/ BuildWithoutPort(t) \/ ImplementParent(t)
           \/ BuildWithChild(t) \/ InterfaceHost(t) \/ AskHostForDevice(t)
  BY <1>0, <1>2, <1>3, <1>9, ResultKept DEF InterfaceParent, BuildWithoutPort,
     ImplementParent, BuildWithChild, InterfaceHost, AskHostForDevice
<1> QED
  BY <1>4, <1>5, <1>6, <1>7, <1>8, <1>9 DEF Step

LEMMA StepLocks ==
  ASSUME TypesInv, NEW t \in Threads, Step(t)
  PROVE  locks' \subseteq Devices
<1> DEFINE f == Top(t)
<1>0. locks \subseteq Devices
  BY DEF TypesInv, Shared
<1>1. CASE EnterRemote(t)
  <2>1. f.device \in Devices
    BY <1>1, TopFacts DEF EnterRemote, Begins, Runs, TypesInv, Invocations, Fields
  <2> QED
    BY <1>0, <1>1, <2>1 DEF EnterRemote
<1>2. CASE UseBridge(t) \/ NoBridge(t)
  BY <1>0, <1>2 DEF UseBridge, NoBridge
<1>3. CASE \/ Lookup(t) \/ CreateDeviceManager(t) \/ Interfaced(t) \/ PassOn(t) \/ AskHost(t)
           \/ HostAsked(t) \/ EnterManager(t) \/ TryBuilder(t) \/ BuildFailed(t)
           \/ BuildDefault(t) \/ ImplementComponent(t) \/ BuildOnComponent(t) \/ BuildHost(t)
           \/ Link(t) \/ InterfaceParent(t) \/ BuildWithoutPort(t) \/ ImplementParent(t)
           \/ Assemble(t) \/ BuildWithChild(t) \/ EnterToBuild(t) \/ InterfaceHost(t)
           \/ AskHostForDevice(t)
  BY <1>0, <1>3 DEF Lookup, CreateDeviceManager, Interfaced, PassOn, AskHost, HostAsked,
     EnterManager, TryBuilder, BuildFailed, BuildDefault, ImplementComponent, BuildOnComponent,
     BuildHost, Link, InterfaceParent, BuildWithoutPort, ImplementParent, Assemble,
     BuildWithChild, EnterToBuild, InterfaceHost, AskHostForDevice
<1> QED
  BY <1>1, <1>2, <1>3 DEF Step

LEMMA StepExcluded ==
  ASSUME TypesInv, NEW t \in Threads, Step(t)
  PROVE  excluded' \subseteq ToSet(Builders) \X Devices \X Types \X Ports
<1> DEFINE f == Top(t)
<1>0. excluded \subseteq ToSet(Builders) \X Devices \X Types \X Ports
  BY DEF TypesInv, Shared
<1>1. CASE TryBuilder(t)
  <2>1. stack[t] # <<>> /\ f.op = "manage"
    BY <1>1 DEF TryBuilder, Begins, Runs
  <2>2. f.device \in Devices /\ f.type \in Types /\ f.port \in Ports
    BY <2>1, TopManages DEF Invocations, Fields
  <2>3. CASE Untried(f) # {}
    <3> DEFINE i == CHOOSE i \in Untried(f) : \A j \in Untried(f) : i <= j
    <3>1. Untried(f) \subseteq 1 .. 8
      BY BuildersEight DEF Untried
    <3>2. \E k \in Untried(f) : \A j \in Untried(f) : k <= j
      BY <2>3, <3>1, Smallest
    <3>3. i \in Untried(f)
      BY <3>2
    <3>4. excluded' = excluded \cup {ArgumentSet(f, i)}
      BY <1>1, <2>3 DEF TryBuilder
    <3> HIDE DEF i
    <3>5. i \in DOMAIN Builders
      BY <3>3 DEF Untried
    <3>6. Builders[i] \in ToSet(Builders)
      BY <3>5 DEF ToSet
    <3> QED
      BY <1>0, <2>2, <3>4, <3>6 DEF ArgumentSet
  <2>4. CASE Untried(f) = {}
    BY <1>0, <1>1, <2>4 DEF TryBuilder
  <2> QED
    BY <2>3, <2>4
<1>2. ASSUME Built(t) PROVE excluded' \subseteq ToSet(Builders) \X Devices \X Types \X Ports
  BY <1>0, <1>2 DEF Built
<1>3. CASE \/ BuildDefault(t) \/ BuildOnComponent(t) \/ Link(t) \/ Assemble(t)
           \/ AskHostForDevice(t)
  <2>1. Built(t) \/ excluded' = excluded
    BY <1>3 DEF BuildDefault, BuildOnComponent, Link, Assemble, AskHostForDevice
  <2> QED
    BY <1>0, <1>2, <2>1
<1>4. CASE \/ Lookup(t) \/ CreateDeviceManager(t) \/ Interfaced(t) \/ PassOn(t)
           \/ EnterRemote(t) \/ AskHost(t) \/ HostAsked(t) \/ UseBridge(t) \/ NoBridge(t)
           \/ EnterManager(t) \/ EnterToBuild(t) \/ BuildFailed(t) \/ ImplementComponent(t)
           \/ BuildHost(t) \/ InterfaceParent(t) \/ BuildWithoutPort(t)
           \/ ImplementParent(t) \/ BuildWithChild(t) \/ InterfaceHost(t)
  BY <1>0, <1>4 DEF Lookup, CreateDeviceManager, Interfaced, PassOn, EnterRemote, AskHost,
     HostAsked, UseBridge, NoBridge, EnterManager, EnterToBuild, BuildFailed, ImplementComponent,
     BuildHost, InterfaceParent, BuildWithoutPort, ImplementParent, BuildWithChild,
     InterfaceHost
<1> QED
  BY <1>1, <1>3, <1>4 DEF Step

LEMMA StepCounters ==
  ASSUME TypesInv, NEW t \in Threads, Step(t)
  PROVE  calls' = calls /\ links' \in [Devices -> Nat]
<1>0. links \in [Devices -> Nat]
  BY DEF TypesInv, Shared
<1>1. CASE Link(t)
  BY <1>0, <1>1 DEF Link
<1>2. CASE \/ Lookup(t) \/ CreateDeviceManager(t) \/ Interfaced(t) \/ PassOn(t)
           \/ EnterRemote(t) \/ AskHost(t) \/ HostAsked(t) \/ UseBridge(t) \/ NoBridge(t)
           \/ EnterManager(t) \/ EnterToBuild(t) \/ TryBuilder(t) \/ BuildFailed(t)
  BY <1>0, <1>2 DEF Lookup, CreateDeviceManager, Interfaced, PassOn, EnterRemote, AskHost,
     HostAsked, UseBridge, NoBridge, EnterManager, EnterToBuild, TryBuilder,
     BuildFailed
<1>3. CASE \/ BuildDefault(t) \/ ImplementComponent(t) \/ BuildOnComponent(t) \/ BuildHost(t)
           \/ InterfaceParent(t) \/ BuildWithoutPort(t) \/ ImplementParent(t)
           \/ Assemble(t) \/ BuildWithChild(t) \/ InterfaceHost(t) \/ AskHostForDevice(t)
  BY <1>0, <1>3 DEF BuildDefault, ImplementComponent, BuildOnComponent, BuildHost,
     InterfaceParent, BuildWithoutPort, ImplementParent, Assemble, BuildWithChild,
     InterfaceHost, AskHostForDevice
<1> QED
  BY <1>1, <1>2, <1>3 DEF Step

LEMMA StepShared ==
  ASSUME TypesInv, NEW t \in Threads, Step(t)
  PROVE  Shared' /\ ManagersKept
<1>1. calls' \in [Threads -> 0 .. MaxCalls]
  BY StepCounters DEF TypesInv, Shared
<1> QED
  BY <1>1, StepManagers, StepResult, StepLocks, StepExcluded, StepCounters
     DEF Shared, ManagersKept

-----------------------------------------------------------------------------
(* What the effects leave of the stacks *)

LEMMA MovesStacks ==
  ASSUME TypesInv, NEW t \in Threads, NEW frame \in Invocations,
         NEW pushed \in Seq(Invocations), Moves(t, frame, pushed)
  PROVE  /\ Stacks'
         /\ \A u \in Threads \ {t} : stack'[u] = stack[u]
         /\ Len(stack'[t]) = Len(stack[t]) + Len(pushed)
         /\ \A n \in 1 .. Len(stack[t]) - 1 : stack'[t][n] = stack[t][n]
         /\ stack'[t][Len(stack[t])] = frame
         /\ \A n \in 1 .. Len(pushed) : stack'[t][Len(stack[t]) + n] = pushed[n]
<1>1. stack \in [Threads -> Seq(Invocations)] /\ stack[t] \in Seq(Invocations) /\ stack[t] # <<>>
  BY DEF TypesInv, Stacks, Moves
<1> DEFINE s == Replaced(stack[t], frame, pushed)
<1>2. stack' = [stack EXCEPT ![t] = s]
  BY DEF Moves, Replaced
<1>3. /\ s \in Seq(Invocations)
      /\ Len(s) = Len(stack[t]) + Len(pushed)
      /\ \A n \in 1 .. Len(stack[t]) - 1 : s[n] = stack[t][n]
      /\ s[Len(stack[t])] = frame
      /\ \A n \in 1 .. Len(pushed) : s[Len(stack[t]) + n] = pushed[n]
  <2>1. IsReplaced(Invocations, Replaced(stack[t], frame, pushed), stack[t], frame, pushed)
    BY <1>1, Replacing
  <2> QED
    BY <2>1 DEF IsReplaced
<1> HIDE DEF s
<1> QED
  BY <1>1, <1>2, <1>3 DEF Stacks

LEMMA LeavesStacks ==
  ASSUME TypesInv, NEW t \in Threads, Leaves(t)
  PROVE  /\ Stacks'
         /\ \A u \in Threads \ {t} : stack'[u] = stack[u]
         /\ Len(stack'[t]) = Len(stack[t]) - 1
         /\ \A n \in 1 .. Len(stack[t]) - 1 : stack'[t][n] = stack[t][n]
<1>1. stack \in [Threads -> Seq(Invocations)] /\ stack[t] \in Seq(Invocations) /\ stack[t] # <<>>
  BY DEF TypesInv, Stacks, Leaves
<1>2. /\ Front(stack[t]) \in Seq(Invocations) /\ Len(Front(stack[t])) = Len(stack[t]) - 1
      /\ \A n \in 1 .. Len(stack[t]) - 1 : Front(stack[t])[n] = stack[t][n]
  BY <1>1, LastAndFront
<1>3. stack' = [stack EXCEPT ![t] = Front(stack[t])]
  BY DEF Leaves
<1> QED
  BY <1>1, <1>2, <1>3 DEF Stacks

LEMMA Lengths ==
  ASSUME Stacks, NEW t \in Threads
  PROVE  Len(stack[t]) \in Nat
  BY LenProperties DEF Stacks

LEMMA StillManaged ==
  ASSUME Shared, ManagersKept, NEW f, ManagedBy(f, managers)
  PROVE  ManagedBy(f, managers')
<1>1. /\ DOMAIN managers = 1 .. Len(managers) /\ DOMAIN managers' = 1 .. Len(managers')
      /\ Len(managers) \in Nat /\ Len(managers') \in Nat
  BY LenProperties DEF Shared, ManagersKept
<1> QED
  BY <1>1 DEF ManagersKept, ManagedBy

LEMMA MovesManaged ==
  ASSUME TypesInv, NEW t \in Threads, NEW frame \in Invocations,
         NEW pushed \in Seq(Invocations), Moves(t, frame, pushed), ManagersKept
  PROVE  Managed'
<1> SUFFICES ASSUME NEW u \in Threads, NEW n \in 1 .. Len(stack'[u])
             PROVE  ManagedBy(stack'[u][n], managers')
  BY DEF Managed
<1>1. ASSUME NEW m \in 1 .. Len(stack[u]) PROVE ManagedBy(stack[u][m], managers')
  BY StillManaged DEF TypesInv, Managed
<1>2. CASE u # t
  BY <1>1, <1>2, MovesStacks
<1>3. CASE u = t
  <2>0. /\ stack[t] # <<>> /\ Len(stack[t]) \in Nat \ {0} /\ Top(t) = stack[t][Len(stack[t])]
        /\ Len(pushed) \in Nat
    BY TopFacts, LenProperties DEF Moves, TypesInv
  <2>1. CASE n < Len(stack[t])
    <3>1. n \in 1 .. Len(stack[t]) - 1 /\ n \in 1 .. Len(stack[t])
      BY <2>0, <2>1
    <3>2. stack'[t][n] = stack[t][n]
      BY <3>1, MovesStacks
    <3> QED
      BY <1>1, <1>3, <3>1, <3>2
  <2>2. CASE n = Len(stack[t])
    <3>0. Len(stack[t]) \in 1 .. Len(stack[t])
      BY <2>0
    <3>1. ManagedBy(Top(t), managers')
      BY <1>1, <1>3, <2>0, <3>0
    <3>2. ManagedBy(frame, managers')
      BY <3>1 DEF Moves, ManagedBy, Continues
    <3> QED
      BY <1>3, <2>2, <3>2, MovesStacks
  <2>3. CASE n > Len(stack[t])
    <3>1. n - Len(stack[t]) \in 1 .. Len(pushed) /\ Len(stack[t]) + (n - Len(stack[t])) = n
      BY <1>3, <2>0, <2>3, MovesStacks
    <3>2. stack'[t][Len(stack[t]) + (n - Len(stack[t]))] = pushed[n - Len(stack[t])]
      BY <3>1, MovesStacks
    <3>3. ManagedBy(pushed[n - Len(stack[t])], managers')
      BY <3>1 DEF Moves
    <3> QED
      BY <1>3, <3>1, <3>2, <3>3
  <2> QED
    BY <2>0, <2>1, <2>2, <2>3
<1> QED
  BY <1>2, <1>3

LEMMA LeavesManaged ==
  ASSUME TypesInv, NEW t \in Threads, Leaves(t), ManagersKept
  PROVE  Managed'
<1> SUFFICES ASSUME NEW u \in Threads, NEW n \in 1 .. Len(stack'[u])
             PROVE  ManagedBy(stack'[u][n], managers')
  BY DEF Managed
<1>0. Len(stack[u]) \in Nat
  BY Lengths DEF TypesInv
<1>1. n \in 1 .. Len(stack[u]) /\ stack'[u][n] = stack[u][n]
  <2>1. CASE u # t
    <3>1. stack'[u] = stack[u]
      BY <2>1, LeavesStacks
    <3> QED
      BY <3>1
  <2>2. CASE u = t
    <3>1. /\ Len(stack'[t]) = Len(stack[t]) - 1
          /\ \A m \in 1 .. Len(stack[t]) - 1 : stack'[t][m] = stack[t][m]
      BY LeavesStacks
    <3>2. n \in 1 .. Len(stack[t]) - 1 /\ Len(stack[t]) \in Nat
      BY <1>0, <2>2, <3>1
    <3>3. n \in 1 .. Len(stack[t])
      BY <3>2
    <3> QED
      BY <2>2, <3>1, <3>2, <3>3
  <2> QED
    BY <2>1, <2>2
<1> QED
  BY <1>1, StillManaged DEF TypesInv, Managed

LEMMA StepTypes ==
  ASSUME TypesInv, NEW t \in Threads, Step(t)
  PROVE  TypesInv'
<1>1. Shared' /\ ManagersKept /\ Effect(t)
  BY StepShared, StepEffect
<1>2. ASSUME NEW frame \in Invocations, NEW pushed \in Seq(Invocations), Moves(t, frame, pushed)
      PROVE  Stacks' /\ Managed'
  BY <1>1, <1>2, MovesStacks, MovesManaged
<1>3. ASSUME Leaves(t) PROVE Stacks' /\ Managed'
  BY <1>1, <1>3, LeavesStacks, LeavesManaged
<1>4. <<>> \in Seq(Invocations)
  OBVIOUS
<1>5. Stacks' /\ Managed'
  BY <1>1, <1>2, <1>3, <1>4 DEF Effect, Works, Claims
<1> QED
  BY <1>1, <1>5 DEF TypesInv

LEMMA CallStacks ==
  ASSUME TypesInv, NEW t \in Threads, Call(t)
  PROVE  /\ Stacks' /\ Shared'
         /\ stack[t] = <<>> /\ \A u \in Threads \ {t} : stack'[u] = stack[u]
         /\ Len(stack'[t]) = 1 /\ stack'[t][1].op = "interface"
         /\ Claim(stack'[t][1]) = {} /\ Begun(stack'[t][1])
         /\ UNCHANGED <<managers, locks, excluded, links>>
<1>1. PICK d \in Requested : stack' = [stack EXCEPT ![t] = <<Interface(d, "full")>>]
  BY DEF Call
<1>2. d \in Devices /\ "full" \in Types
  BY DevicesAssumption DEF Types
<1>3. /\ Interface(d, "full") \in Invocations
      /\ Claim(Interface(d, "full")) = {} /\ Begun(Interface(d, "full"))
      /\ Interface(d, "full").op = "interface"
  BY <1>2, NewInvocations DEF Begun
<1> DEFINE g == Interface(d, "full")
<1> HIDE DEF g
<1>4. /\ stack \in [Threads -> Seq(Invocations)]
      /\ <<g>> \in Seq(Invocations) /\ Len(<<g>>) = 1 /\ <<g>>[1] = g
  BY <1>3 DEF TypesInv, Stacks, g
<1>5. Stacks' /\ stack'[t] = <<g>> /\ \A u \in Threads \ {t} : stack'[u] = stack[u]
  BY <1>1, <1>4 DEF Stacks, g
<1>6. calls[t] \in 0 .. MaxCalls /\ calls[t] < MaxCalls /\ calls' = [calls EXCEPT ![t] = @ + 1]
  BY DEF Call, TypesInv, Shared
<1>7. calls' \in [Threads -> 0 .. MaxCalls]
  BY <1>6, DevicesAssumption DEF TypesInv, Shared
<1>8. Shared' /\ stack[t] = <<>> /\ UNCHANGED <<managers, locks, excluded, links>>
  BY <1>7 DEF Call, TypesInv, Shared
<1> QED
  BY <1>3, <1>4, <1>5, <1>8 DEF g

LEMMA CallTypes ==
  ASSUME TypesInv, NEW t \in Threads, Call(t)
  PROVE  TypesInv'
<1>1. Managed'
  <2> SUFFICES ASSUME NEW u \in Threads, NEW n \in 1 .. Len(stack'[u])
               PROVE  ManagedBy(stack'[u][n], managers')
    BY DEF Managed
  <2>1. CASE u = t
    <3>1. Len(stack'[t]) = 1 /\ stack'[t][1].op = "interface"
      BY CallStacks
    <3>2. n = 1
      BY <2>1, <3>1
    <3> QED
      BY <2>1, <3>1, <3>2 DEF ManagedBy
  <2>2. CASE u # t
    BY <2>2, CallStacks DEF TypesInv, Managed
  <2> QED
    BY <2>1, <2>2
<1> QED
  BY <1>1, CallStacks DEF TypesInv

LEMMA RegisterTypes ==
  ASSUME TypesInv, NEW h \in Hosts, RegisterImplementation(h)
  PROVE  TypesInv' /\ ManagersKept
<1> DEFINE m == [device |-> h, types |-> {}]
           ms == Append(managers, m)
           i == IF ManagersOf(h) # {} THEN FirstManager(h) ELSE Len(managers) + 1
<1>0. Shared /\ h \in Devices /\ "full" \in Types
  BY DEF TypesInv, Devices, Types
<1>1. managers \in Seq(Managers) /\ Len(managers) \in Nat /\ DOMAIN managers = 1 .. Len(managers)
  BY <1>0, LenProperties DEF Shared, Managers
<1>2. m \in Managers
  BY <1>0 DEF Managers
<1> HIDE DEF m
<1>3. /\ ms \in Seq(Managers) /\ Len(ms) = Len(managers) + 1
      /\ \A j \in 1 .. Len(managers) : ms[j] = managers[j]
  BY <1>1, <1>2, AppendProperties
<1>4. i \in 1 .. Len(ms)
  BY <1>0, <1>1, <1>3, FirstIsManager
<1>5. managers' = [ms EXCEPT ![i].types = @ \cup {"full"}]
  BY DEF RegisterImplementation, m
<1> HIDE DEF ms, i
<1>6. /\ managers' \in Seq(Managers) /\ Len(managers') = Len(ms)
      /\ \A j \in 1 .. Len(ms) : j # i => managers'[j] = ms[j]
      /\ managers'[i].device = ms[i].device
  BY <1>0, <1>3, <1>4, <1>5, TypeAdded
<1>7. \A j \in 1 .. Len(managers) : managers'[j].device = managers[j].device
  BY <1>1, <1>3, <1>6
<1>8. ManagersKept
  BY <1>1, <1>3, <1>6, <1>7 DEF ManagersKept, Managers
<1>9. UNCHANGED <<stack, result, locks, excluded, calls, links>>
  BY DEF RegisterImplementation
<1>10. Shared' /\ Stacks'
  BY <1>6, <1>9 DEF TypesInv, Shared, Stacks, Managers
<1>11. Managed'
  BY <1>0, <1>8, <1>9, StillManaged DEF TypesInv, Managed
<1> QED
  BY <1>8, <1>10, <1>11 DEF TypesInv

LEMMA TypesInit == Init => TypesInv
<1> SUFFICES ASSUME Init PROVE TypesInv
  OBVIOUS
<1>1. Stacks /\ \A t \in Threads : Len(stack[t]) = 0
  BY DEF Init, Stacks
<1>2. Shared
  BY DevicesAssumption DEF Init, Shared
<1>3. Managed
  BY <1>1 DEF Managed
<1> QED
  BY <1>1, <1>2, <1>3 DEF TypesInv

LEMMA TypesStep == TypesInv /\ [Next]_vars => TypesInv'
<1> SUFFICES ASSUME TypesInv, [Next]_vars PROVE TypesInv'
  OBVIOUS
<1>1. CASE UNCHANGED vars
  BY <1>1 DEF vars, TypesInv, Stacks, Shared, Managed
<1>2. ASSUME NEW t \in Threads, Call(t) \/ Step(t) PROVE TypesInv'
  BY <1>2, CallTypes, StepTypes
<1>3. ASSUME NEW h \in Hosts, RegisterImplementation(h) PROVE TypesInv'
  BY <1>3, RegisterTypes
<1> QED
  BY <1>1, <1>2, <1>3 DEF Next

\* Every variable keeps its type, and an invocation in a device manager is about the
\* device of that manager, however the calls of any number of threads are nested and
\* interleaved and whatever managers registerImplementation adds.
THEOREM TypeCorrect == Spec => []TypeOK
<1>1. TypesInv => TypeOK
  <2> SUFFICES ASSUME TypesInv PROVE TypeOK
    OBVIOUS
  <2>1. ASSUME NEW t \in Threads, NEW f \in Frames(t)
        PROVE  f \in Invocations /\ ManagedBy(f, managers)
    <3>1. stack[t] \in Seq(Invocations)
      BY DEF TypesInv, Stacks
    <3>2. PICK n \in DOMAIN stack[t] : f = stack[t][n]
      BY DEF Frames
    <3>3. n \in 1 .. Len(stack[t])
      BY <3>1, LenProperties
    <3> QED
      BY <3>1, <3>2, <3>3, ElementOfSeq DEF TypesInv, Managed
  <2>2. ASSUME NEW t \in Threads, NEW f \in Frames(t)
        PROVE  /\ f.op \in {"interface", "implement", "remote", "manage"}
               /\ f.device \in Devices /\ f.type \in Types /\ f.port \in Ports
               /\ f.builder \in 0 .. Len(Builders)
               /\ f.hosts \subseteq Hosts /\ f.bridged \in BOOLEAN
               /\ f.op = "manage" => /\ f.manager \in DOMAIN managers
                                     /\ managers[f.manager].device = f.device
    BY <2>1, BuildersEight DEF Invocations, Fields, ManagedBy
  <2> QED
    BY <2>2 DEF TypeOK, TypesInv, Shared
<1> QED
  BY <1>1, TypesInit, TypesStep, PTL DEF Spec

-----------------------------------------------------------------------------
(* Nesting and claims *)

LEMMA MovesNested ==
  ASSUME TypesInv, Nested, NEW t \in Threads, NEW frame \in Invocations,
         NEW pushed \in Seq(Invocations), Moves(t, frame, pushed)
  PROVE  Nested'
<1> SUFFICES ASSUME NEW u \in Threads, NEW n \in 1 .. Len(stack'[u]) - 1
             PROVE  Awaits(stack'[u][n], stack'[u][n + 1])
  BY DEF Nested
<1>1. CASE u # t
  BY <1>1, MovesStacks DEF Nested
<1>2. CASE u = t
  <2> DEFINE l == Len(stack[t])
  <2>0. /\ l \in Nat \ {0} /\ Top(t) = stack[t][l] /\ Len(pushed) \in Nat
        /\ Len(stack'[t]) = l + Len(pushed) /\ n \in 1 .. Len(stack'[t]) - 1
    <3>1. stack[t] # <<>> /\ Stacks
      BY DEF Moves, TypesInv
    <3>2. l \in Nat \ {0} /\ Top(t) = stack[t][l]
      BY <3>1, TopFacts
    <3>3. Len(pushed) \in Nat
      BY LenProperties
    <3>4. Len(stack'[t]) = l + Len(pushed)
      BY MovesStacks
    <3> QED
      BY <1>2, <3>2, <3>3, <3>4
  <2>a. /\ \A k \in 1 .. l - 1 : stack'[t][k] = stack[t][k]
        /\ stack'[t][l] = frame
        /\ \A k \in 1 .. Len(pushed) : stack'[t][l + k] = pushed[k]
    BY MovesStacks
  <2>b. /\ pushed # <<>> => Awaits(frame, pushed[1])
        /\ \A k \in 1 .. Len(pushed) - 1 : Awaits(pushed[k], pushed[k + 1])
        /\ Continues(frame, Top(t))
    BY DEF Moves
  <2>c. \A k \in 1 .. l - 1 : Awaits(stack[t][k], stack[t][k + 1])
    BY DEF Nested
  <2> HIDE DEF l
  <2>1. CASE n < l - 1
    <3>1. n \in 1 .. l - 1 /\ n + 1 \in 1 .. l - 1
      BY <2>0, <2>1
    <3> QED
      BY <1>2, <2>a, <2>c, <3>1
  <2>2. CASE n = l - 1
    <3>1. n \in 1 .. l - 1 /\ n + 1 = l
      BY <2>0, <2>2
    <3>2. Awaits(stack[t][n], Top(t))
      BY <2>0, <2>c, <3>1
    <3>3. Awaits(stack[t][n], frame)
      BY <2>b, <3>2 DEF Awaits, Continues
    <3> QED
      BY <1>2, <2>a, <3>1, <3>3
  <2>3. CASE n = l
    <3>1. Len(pushed) # 0 /\ 1 \in 1 .. Len(pushed)
      BY <2>0, <2>3
    <3>2. pushed # <<>>
      BY <3>1
    <3>3. stack'[t][l + 1] = pushed[1]
      BY <2>a, <3>1
    <3> QED
      BY <1>2, <2>3, <2>a, <2>b, <3>2, <3>3
  <2>4. CASE n > l
    <3>1. /\ n - l \in 1 .. Len(pushed) - 1 /\ n - l \in 1 .. Len(pushed)
          /\ n - l + 1 \in 1 .. Len(pushed) /\ l + (n - l) = n /\ l + (n - l + 1) = n + 1
      BY <2>0, <2>4
    <3>2. stack'[t][n] = pushed[n - l] /\ stack'[t][n + 1] = pushed[n - l + 1]
      <4>1. stack'[t][l + (n - l)] = pushed[n - l]
        BY <2>a, <3>1
      <4>2. stack'[t][l + (n - l + 1)] = pushed[n - l + 1]
        BY <2>a, <3>1
      <4> QED
        BY <3>1, <4>1, <4>2
    <3>3. Awaits(pushed[n - l], pushed[n - l + 1])
      BY <2>b, <3>1
    <3> QED
      BY <1>2, <3>2, <3>3
  <2> QED
    BY <2>0, <2>1, <2>2, <2>3, <2>4
<1> QED
  BY <1>1, <1>2

LEMMA LeavesNested ==
  ASSUME TypesInv, Nested, NEW t \in Threads, Leaves(t)
  PROVE  Nested'
<1> SUFFICES ASSUME NEW u \in Threads, NEW n \in 1 .. Len(stack'[u]) - 1
             PROVE  Awaits(stack'[u][n], stack'[u][n + 1])
  BY DEF Nested
<1>1. CASE u # t
  BY <1>1, LeavesStacks DEF Nested
<1>2. CASE u = t
  <2>1. Len(stack[t]) \in Nat /\ Len(stack'[t]) = Len(stack[t]) - 1
    BY Lengths, LeavesStacks DEF TypesInv
  <2>2. /\ n \in 1 .. Len(stack[t]) - 1 /\ n + 1 \in 1 .. Len(stack[t]) - 1
    BY <1>2, <2>1
  <2>3. stack'[t][n] = stack[t][n] /\ stack'[t][n + 1] = stack[t][n + 1]
    BY <2>2, LeavesStacks
  <2> QED
    BY <1>2, <2>2, <2>3 DEF Nested
<1> QED
  BY <1>1, <1>2

LEMMA CallNested ==
  ASSUME TypesInv, Nested, NEW t \in Threads, Call(t)
  PROVE  Nested'
<1> SUFFICES ASSUME NEW u \in Threads, NEW n \in 1 .. Len(stack'[u]) - 1
             PROVE  Awaits(stack'[u][n], stack'[u][n + 1])
  BY DEF Nested
<1>1. CASE u # t
  BY <1>1, CallStacks DEF Nested
<1>2. CASE u = t
  <2>1. Len(stack'[t]) = 1
    BY CallStacks
  <2> QED
    BY <1>2, <2>1
<1> QED
  BY <1>1, <1>2

\* Where the invocations of the next state come from.
LEMMA MovesSources ==
  ASSUME TypesInv, NEW t \in Threads, NEW frame \in Invocations,
         NEW pushed \in Seq(Invocations), Moves(t, frame, pushed),
         NEW u \in Threads, NEW n \in 1 .. Len(stack'[u])
  PROVE  \/ /\ n \in 1 .. Len(stack[u]) /\ stack'[u][n] = stack[u][n]
            /\ ~(u = t /\ n = Len(stack[t]))
         \/ u = t /\ n = Len(stack[t]) /\ stack'[u][n] = frame
         \/ Begun(stack'[u][n])
<1>1. CASE u # t
  BY <1>1, MovesStacks
<1>2. CASE u = t
  <2> DEFINE l == Len(stack[t])
  <2>0. /\ l \in Nat \ {0} /\ Len(pushed) \in Nat
        /\ Len(stack'[t]) = l + Len(pushed) /\ n \in 1 .. Len(stack'[t])
    <3>1. stack[t] # <<>> /\ Stacks
      BY DEF Moves, TypesInv
    <3>2. l \in Nat \ {0}
      BY <3>1, TopFacts
    <3>3. Len(pushed) \in Nat
      BY LenProperties
    <3>4. Len(stack'[t]) = l + Len(pushed)
      BY MovesStacks
    <3> QED
      BY <1>2, <3>2, <3>3, <3>4
  <2>a. /\ \A k \in 1 .. l - 1 : stack'[t][k] = stack[t][k]
        /\ stack'[t][l] = frame
        /\ \A k \in 1 .. Len(pushed) : stack'[t][l + k] = pushed[k]
    BY MovesStacks
  <2> HIDE DEF l
  <2>1. CASE n < l
    <3>1. n \in 1 .. l - 1 /\ n \in 1 .. l /\ n # l
      BY <2>0, <2>1
    <3> QED
      BY <1>2, <2>a, <3>1 DEF l
  <2>2. CASE n = l
    BY <1>2, <2>2, <2>a DEF l
  <2>3. CASE n > l
    <3>1. n - l \in 1 .. Len(pushed) /\ l + (n - l) = n
      BY <2>0, <2>3
    <3>2. stack'[t][l + (n - l)] = pushed[n - l]
      BY <2>a, <3>1
    <3>3. Begun(pushed[n - l])
      BY <3>1 DEF Moves
    <3> QED
      BY <1>2, <3>1, <3>2, <3>3
  <2> QED
    BY <2>0, <2>1, <2>2, <2>3
<1> QED
  BY <1>1, <1>2

LEMMA LeavesSources ==
  ASSUME TypesInv, NEW t \in Threads, Leaves(t), NEW u \in Threads, NEW n \in 1 .. Len(stack'[u])
  PROVE  /\ n \in 1 .. Len(stack[u]) /\ stack'[u][n] = stack[u][n]
         /\ ~(u = t /\ n = Len(stack[t]))
<1>1. Len(stack[t]) \in Nat \ {0}
  BY TopFacts DEF Leaves, TypesInv
<1>2. CASE u # t
  BY <1>2, LeavesStacks
<1>3. CASE u = t
  <2>1. Len(stack'[t]) = Len(stack[t]) - 1
    BY LeavesStacks
  <2>2. n \in 1 .. Len(stack[t]) - 1 /\ n \in 1 .. Len(stack[t]) /\ n # Len(stack[t])
    BY <1>1, <1>3, <2>1
  <2> QED
    BY <1>3, <2>2, LeavesStacks
<1> QED
  BY <1>2, <1>3

\* What is on a stack next claims nothing, was there before, or is the one that moves.
WorkedFor(t, frame, u, n) ==
  \/ Claim(stack'[u][n]) = {}
  \/ n \in 1 .. Len(stack[u]) /\ stack'[u][n] = stack[u][n]
  \/ u = t /\ n = Len(stack[t]) /\ n \in 1 .. Len(stack[t]) /\ stack'[u][n] = frame

\* Where the claims of the next state come from: invocations that worked already ...
LEMMA WorksPositions ==
  ASSUME TypesInv, NEW t \in Threads, NEW frame \in Invocations,
         NEW pushed \in Seq(Invocations), Moves(t, frame, pushed),
         NEW u \in Threads, NEW n \in 1 .. Len(stack'[u])
  PROVE  WorkedFor(t, frame, u, n)
<1>1. Len(stack[t]) \in 1 .. Len(stack[t])
  <2>1. stack[t] # <<>> /\ Stacks
    BY DEF Moves, TypesInv
  <2> QED
    BY <2>1, TopFacts
<1>2. \/ n \in 1 .. Len(stack[u]) /\ stack'[u][n] = stack[u][n]
      \/ u = t /\ n = Len(stack[t]) /\ stack'[u][n] = frame
      \/ Begun(stack'[u][n])
  BY MovesSources
<1> QED
  BY <1>1, <1>2 DEF Begun, WorkedFor

\* The same, for all positions at once.
LEMMA WorksSources ==
  ASSUME TypesInv, NEW t \in Threads, NEW frame \in Invocations,
         NEW pushed \in Seq(Invocations), Moves(t, frame, pushed)
  PROVE  \A u \in Threads : \A n \in 1 .. Len(stack'[u]) : WorkedFor(t, frame, u, n)
<1> TAKE u \in Threads
<1> TAKE n \in 1 .. Len(stack'[u])
<1> QED
  BY WorksPositions

LEMMA WorksClaims ==
  ASSUME TypesInv, Nesting, NEW t \in Threads, NEW frame \in Invocations,
         NEW pushed \in Seq(Invocations), Works(t, frame, pushed)
  PROVE  ClaimsHeld' /\ ClaimsApart'
<1>1. Moves(t, frame, pushed)
  BY DEF Works
<1>2. stack[t] # <<>> /\ Top(t) = stack[t][Len(stack[t])]
  BY <1>1, TopFacts DEF Moves, TypesInv
<1>0. \A u \in Threads : \A n \in 1 .. Len(stack'[u]) :
        \/ Claim(stack'[u][n]) = {}
        \/ n \in 1 .. Len(stack[u]) /\ stack'[u][n] = stack[u][n]
        \/ u = t /\ n = Len(stack[t]) /\ n \in 1 .. Len(stack[t]) /\ stack'[u][n] = frame
  <2>1. \A u \in Threads : \A n \in 1 .. Len(stack'[u]) : WorkedFor(t, frame, u, n)
    BY <1>1, WorksSources
  <2> QED
    BY <2>1 DEF WorkedFor
<1>3. ASSUME NEW u \in Threads, NEW n \in 1 .. Len(stack'[u])
      PROVE  \/ Claim(stack'[u][n]) = {}
             \/ n \in 1 .. Len(stack[u]) /\ Claim(stack'[u][n]) \subseteq Claim(stack[u][n])
  <2>1. CASE u = t /\ n = Len(stack[t]) /\ n \in 1 .. Len(stack[t]) /\ stack'[u][n] = frame
    <3>1. Claim(frame) \subseteq Claim(Top(t))
      BY DEF Works
    <3> QED
      BY <1>2, <2>1, <3>1
  <2>2. \/ Claim(stack'[u][n]) = {}
        \/ n \in 1 .. Len(stack[u]) /\ stack'[u][n] = stack[u][n]
        \/ u = t /\ n = Len(stack[t]) /\ n \in 1 .. Len(stack[t]) /\ stack'[u][n] = frame
    BY <1>0
  <2> QED
    BY <2>1, <2>2
<1>4. Claimed' = Claimed
  BY DEF Works, Claimed
<1>5. ClaimsHeld'
  BY <1>3, <1>4 DEF ClaimsHeld, Nesting
<1>6. ClaimsApart'
  <2> SUFFICES ASSUME NEW u \in Threads, NEW v \in Threads,
                      NEW m \in 1 .. Len(stack'[u]), NEW n \in 1 .. Len(stack'[v]),
                      NEW c \in Claim(stack'[u][m]), c \in Claim(stack'[v][n])
               PROVE  u = v /\ m = n
    BY DEF ClaimsApart
  <2>1. m \in 1 .. Len(stack[u]) /\ c \in Claim(stack[u][m])
    BY <1>3
  <2>2. n \in 1 .. Len(stack[v]) /\ c \in Claim(stack[v][n])
    BY <1>3
  <2> QED
    BY <2>1, <2>2 DEF Nesting, ClaimsApart
<1> QED
  BY <1>5, <1>6

\* ... one that claims what nobody had claimed ...
LEMMA ClaimsClaims ==
  ASSUME TypesInv, Nesting, NEW t \in Threads, NEW frame \in Invocations, Claims(t, frame)
  PROVE  ClaimsHeld' /\ ClaimsApart'
<1>1. Moves(t, frame, <<>>) /\ <<>> \in Seq(Invocations)
  BY DEF Claims
<1>2. ASSUME NEW u \in Threads, NEW n \in 1 .. Len(stack'[u])
      PROVE  \/ Claim(stack'[u][n]) = {}
             \/ n \in 1 .. Len(stack[u]) /\ Claim(stack'[u][n]) = Claim(stack[u][n])
             \/ u = t /\ n = Len(stack[t]) /\ Claim(stack'[u][n]) = Claim(frame)
  <2> DEFINE pushed == <<>>
  <2>1. Moves(t, frame, pushed) /\ pushed \in Seq(Invocations)
    BY <1>1
  <2> HIDE DEF pushed
  <2>2. \A v \in Threads : \A m \in 1 .. Len(stack'[v]) : WorkedFor(t, frame, v, m)
    BY <2>1, WorksSources
  <2>3. WorkedFor(t, frame, u, n)
    BY <2>2
  <2> QED
    BY <2>3 DEF WorkedFor
<1>3. /\ Claimed' = Claimed \cup Claim(frame)
      /\ \A c \in Claim(frame) : c \notin Claimed
  BY DEF Claims
<1>4. ClaimsHeld'
  BY <1>2, <1>3 DEF ClaimsHeld, Nesting
<1>5. ClaimsApart'
  <2> SUFFICES ASSUME NEW u \in Threads, NEW v \in Threads,
                      NEW m \in 1 .. Len(stack'[u]), NEW n \in 1 .. Len(stack'[v]),
                      NEW c \in Claim(stack'[u][m]), c \in Claim(stack'[v][n])
               PROVE  u = v /\ m = n
    BY DEF ClaimsApart
  <2>1. \/ m \in 1 .. Len(stack[u]) /\ c \in Claim(stack[u][m]) /\ c \in Claimed
        \/ u = t /\ m = Len(stack[t]) /\ c \in Claim(frame)
    BY <1>2 DEF ClaimsHeld, Nesting
  <2>2. \/ n \in 1 .. Len(stack[v]) /\ c \in Claim(stack[v][n]) /\ c \in Claimed
        \/ v = t /\ n = Len(stack[t]) /\ c \in Claim(frame)
    BY <1>2 DEF ClaimsHeld, Nesting
  <2> QED
    BY <1>3, <2>1, <2>2 DEF Nesting, ClaimsApart
<1> QED
  BY <1>4, <1>5

\* ... and one less, whose claim may be given back, since nobody shares it.
LEMMA LeavesClaims ==
  ASSUME TypesInv, Nesting, NEW t \in Threads, Leaves(t)
  PROVE  ClaimsHeld' /\ ClaimsApart'
<1>1. /\ stack[t] # <<>> /\ Top(t) = stack[t][Len(stack[t])]
      /\ Len(stack[t]) \in Nat \ {0}
  BY TopFacts DEF Leaves, TypesInv
<1>2. ASSUME NEW u \in Threads, NEW n \in 1 .. Len(stack'[u])
      PROVE  /\ n \in 1 .. Len(stack[u]) /\ stack'[u][n] = stack[u][n]
             /\ ~(u = t /\ n = Len(stack[t]))
  BY <1>2, LeavesSources
<1>3. Claimed \ Claim(Top(t)) \subseteq Claimed'
  BY DEF Leaves
<1>4. ClaimsHeld'
  <2> SUFFICES ASSUME NEW u \in Threads, NEW n \in 1 .. Len(stack'[u]),
                      NEW c \in Claim(stack'[u][n])
               PROVE  c \in Claimed'
    BY DEF ClaimsHeld
  <2>1. /\ n \in 1 .. Len(stack[u]) /\ c \in Claim(stack[u][n])
        /\ ~(u = t /\ n = Len(stack[t]))
    BY <1>2
  <2>2. c \in Claimed
    BY <2>1 DEF Nesting, ClaimsHeld
  <2>3. c \notin Claim(Top(t))
    <3>1. Len(stack[t]) \in 1 .. Len(stack[t])
      BY <1>1
    <3> QED
      BY <1>1, <2>1, <3>1 DEF Nesting, ClaimsApart
  <2> QED
    BY <1>3, <2>2, <2>3
<1>5. ClaimsApart'
  <2> SUFFICES ASSUME NEW u \in Threads, NEW v \in Threads,
                      NEW m \in 1 .. Len(stack'[u]), NEW n \in 1 .. Len(stack'[v]),
                      NEW c \in Claim(stack'[u][m]), c \in Claim(stack'[v][n])
               PROVE  u = v /\ m = n
    BY DEF ClaimsApart
  <2>1. m \in 1 .. Len(stack[u]) /\ c \in Claim(stack[u][m])
    BY <1>2
  <2>2. n \in 1 .. Len(stack[v]) /\ c \in Claim(stack[v][n])
    BY <1>2
  <2> QED
    BY <2>1, <2>2 DEF Nesting, ClaimsApart
<1> QED
  BY <1>4, <1>5

LEMMA StepNesting ==
  ASSUME TypesInv, Nesting, NEW t \in Threads, Step(t)
  PROVE  Nesting'
<1>1. Effect(t)
  BY StepEffect
<1>2. ASSUME NEW frame \in Invocations, NEW pushed \in Seq(Invocations), Works(t, frame, pushed)
      PROVE  Nesting'
  BY <1>2, MovesNested, WorksClaims DEF Nesting, Works
<1>3. ASSUME NEW frame \in Invocations, Claims(t, frame)
      PROVE  Nesting'
  <2>1. Moves(t, frame, <<>>) /\ <<>> \in Seq(Invocations)
    BY <1>3 DEF Claims
  <2> QED
    BY <1>3, <2>1, MovesNested, ClaimsClaims DEF Nesting
<1>4. ASSUME Leaves(t) PROVE Nesting'
  BY <1>4, LeavesNested, LeavesClaims DEF Nesting
<1> QED
  BY <1>1, <1>2, <1>3, <1>4 DEF Effect

LEMMA CallNesting ==
  ASSUME TypesInv, Nesting, NEW t \in Threads, Call(t)
  PROVE  Nesting'
<1>1. ASSUME NEW u \in Threads, NEW n \in 1 .. Len(stack'[u])
      PROVE  \/ Claim(stack'[u][n]) = {}
             \/ n \in 1 .. Len(stack[u]) /\ stack'[u][n] = stack[u][n]
  <2>1. CASE u # t
    BY <2>1, CallStacks
  <2>2. CASE u = t
    <3>1. Len(stack'[t]) = 1 /\ Claim(stack'[t][1]) = {}
      BY CallStacks
    <3>2. n = 1
      BY <2>2, <3>1
    <3> QED
      BY <2>2, <3>1, <3>2
  <2> QED
    BY <2>1, <2>2
<1>2. Claimed' = Claimed
  BY CallStacks DEF Claimed
<1>3. ClaimsHeld'
  BY <1>1, <1>2 DEF Nesting, ClaimsHeld
<1>4. ClaimsApart'
  <2> SUFFICES ASSUME NEW u \in Threads, NEW v \in Threads,
                      NEW m \in 1 .. Len(stack'[u]), NEW n \in 1 .. Len(stack'[v]),
                      NEW c \in Claim(stack'[u][m]), c \in Claim(stack'[v][n])
               PROVE  u = v /\ m = n
    BY DEF ClaimsApart
  <2>1. m \in 1 .. Len(stack[u]) /\ c \in Claim(stack[u][m])
    BY <1>1
  <2>2. n \in 1 .. Len(stack[v]) /\ c \in Claim(stack[v][n])
    BY <1>1
  <2> QED
    BY <2>1, <2>2 DEF Nesting, ClaimsApart
<1> QED
  BY <1>3, <1>4, CallNested DEF Nesting

LEMMA NestingInit == Init => Nesting
<1> SUFFICES ASSUME Init PROVE Nesting
  OBVIOUS
<1>1. \A t \in Threads : Len(stack[t]) = 0
  BY DEF Init
<1> QED
  BY <1>1 DEF Nesting, Nested, ClaimsHeld, ClaimsApart

LEMMA NestingStep == TypesInv /\ Nesting /\ [Next]_vars => Nesting'
<1> SUFFICES ASSUME TypesInv, Nesting, [Next]_vars PROVE Nesting'
  OBVIOUS
<1>1. CASE UNCHANGED <<stack, locks, excluded>>
  BY <1>1 DEF Nesting, Nested, ClaimsHeld, ClaimsApart, Claimed
<1>2. ASSUME NEW t \in Threads, Call(t) \/ Step(t) PROVE Nesting'
  BY <1>2, CallNesting, StepNesting
<1> QED
  BY <1>1, <1>2 DEF Next, RegisterImplementation, vars

\* The search for a bridge and the builders, which call interfaceDevice again, never
\* get back to what one of the invocations below them is searching for or building:
\* the locks and the exclusions are taken before, are given back by none but their
\* owner, and nobody begins what is locked or excluded.  This holds for any devices
\* and any number of threads, hosts that answer and managers that come from outside.
THEOREM RecursionEnds == Spec => []NoEndlessRecursion
<1>1. TypesInv /\ Nesting => NoEndlessRecursion
  <2> SUFFICES ASSUME TypesInv, Nesting,
                      NEW t \in Threads, NEW m \in DOMAIN stack[t], NEW n \in DOMAIN stack[t],
                      m < n
               PROVE  LET f == stack[t][m]
                          g == stack[t][n]
                      IN  /\ f.op = "remote" /\ g.op = "remote" /\ g.at # "enter" =>
                               f.device # g.device
                          /\ f.op = "manage" /\ g.op = "manage"
                               /\ g.at \notin {"enter", "build", "building"} =>
                                 ArgumentSet(f, f.builder) # ArgumentSet(g, g.builder)
    BY DEF NoEndlessRecursion
  <2> DEFINE f == stack[t][m]
             g == stack[t][n]
  <2>1. /\ m \in 1 .. Len(stack[t]) /\ n \in 1 .. Len(stack[t]) /\ Len(stack[t]) \in Nat
        /\ m \in 1 .. Len(stack[t]) - 1 /\ m # n
    <3>1. DOMAIN stack[t] = 1 .. Len(stack[t]) /\ Len(stack[t]) \in Nat
      BY LenProperties DEF TypesInv, Stacks
    <3> QED
      BY <3>1
  <2>2. Awaits(f, stack[t][m + 1])
    BY <2>1 DEF Nesting, Nested
  <2>3. ASSUME NEW c \in Claim(f), c \in Claim(g) PROVE FALSE
    <3>1. m = n
      BY <2>1, <2>3 DEF Nesting, ClaimsApart
    <3> QED
      BY <2>1, <3>1
  <2> HIDE DEF f, g
  <2>4. ASSUME f.op = "remote", g.op = "remote", g.at # "enter"
        PROVE  f.device # g.device
    <3>1. Searches(f) /\ Searches(g)
      BY <2>2, <2>4 DEF Awaits, Searches
    <3> QED
      BY <2>3, <3>1 DEF Claim
  <2>5. ASSUME f.op = "manage", g.op = "manage", g.at \notin {"enter", "build", "building"}
        PROVE  ArgumentSet(f, f.builder) # ArgumentSet(g, g.builder)
    <3>1. /\ Builds(f) /\ ~Searches(f) /\ Builds(g) /\ ~Searches(g)
      BY <2>2, <2>5 DEF Awaits, Builds, Searches
    <3> QED
      BY <2>3, <3>1 DEF Claim
  <2> QED
    BY <2>4, <2>5 DEF f, g
<1>2. Init => TypesInv /\ Nesting
  BY TypesInit, NestingInit
<1>3. TypesInv /\ Nesting /\ [Next]_vars => (TypesInv /\ Nesting)'
  BY TypesStep, NestingStep
<1> QED
  BY <1>1, <1>2, <1>3, PTL DEF Spec

-----------------------------------------------------------------------------
(* Locks and their holders *)

LEMMA SearchIsLock ==
  \A d : <<"search", d>> \in Claimed <=> d \in locks
  BY DEF Claimed

LEMMA SearchOfFrame ==
  ASSUME NEW f, NEW d, <<"search", d>> \in Claim(f)
  PROVE  Searches(f)
  BY DEF Claim

\* The invocations that were there stay, but for the innermost of thread t.
LEMMA MovesPositions ==
  ASSUME TypesInv, NEW t \in Threads, NEW frame \in Invocations,
         NEW pushed \in Seq(Invocations), Moves(t, frame, pushed)
  PROVE  /\ Len(stack[t]) \in 1 .. Len(stack'[t]) /\ stack'[t][Len(stack[t])] = frame
         /\ \A u \in Threads : \A n \in 1 .. Len(stack[u]) :
              \/ n \in 1 .. Len(stack'[u]) /\ stack'[u][n] = stack[u][n]
              \/ u = t /\ n = Len(stack[t]) /\ stack[u][n] = Top(t)
<1>1. stack[t] # <<>> /\ Stacks
  BY DEF Moves, TypesInv
<1>2. Len(stack[t]) \in Nat \ {0} /\ Top(t) = stack[t][Len(stack[t])]
  BY <1>1, TopFacts
<1>3. Len(pushed) \in Nat /\ Len(stack'[t]) = Len(stack[t]) + Len(pushed)
  BY MovesStacks, LenProperties
<1>4. Len(stack[t]) \in 1 .. Len(stack'[t])
  BY <1>2, <1>3
<1>5. ASSUME NEW u \in Threads, NEW n \in 1 .. Len(stack[u])
      PROVE  \/ n \in 1 .. Len(stack'[u]) /\ stack'[u][n] = stack[u][n]
             \/ u = t /\ n = Len(stack[t]) /\ stack[u][n] = Top(t)
  <2>1. CASE u # t
    BY <2>1, MovesStacks
  <2>2. CASE u = t /\ n = Len(stack[t])
    BY <1>2, <2>2
  <2>3. CASE u = t /\ n # Len(stack[t])
    <3>1. n \in 1 .. Len(stack[t]) - 1 /\ n \in 1 .. Len(stack'[t])
      BY <1>2, <1>3, <2>3
    <3>2. stack'[t][n] = stack[t][n]
      BY <3>1, MovesStacks
    <3> QED
      BY <2>3, <3>1, <3>2
  <2> QED
    BY <2>1, <2>2, <2>3
<1> QED
  BY <1>4, <1>5, MovesStacks

LEMMA StepLocksHeld ==
  ASSUME TypesInv, LocksHeld, ~Answering, NEW t \in Threads, Step(t)
  PROVE  LocksHeld'
<1> SUFFICES ASSUME NEW d \in locks'
             PROVE  \E u \in Threads : \E n \in 1 .. Len(stack'[u]) :
                      <<"search", d>> \in Claim(stack'[u][n])
  BY DEF LocksHeld
<1>0. <<"search", d>> \in Claimed'
  BY DEF Claimed
<1>1. ASSUME NEW frame \in Invocations, NEW pushed \in Seq(Invocations), Moves(t, frame, pushed),
             <<"search", d>> \in Claim(Top(t)) => <<"search", d>> \in Claim(frame),
             d \in locks
      PROVE  \E u \in Threads : \E n \in 1 .. Len(stack'[u]) :
               <<"search", d>> \in Claim(stack'[u][n])
  <2>1a. PICK u \in Threads : \E n \in 1 .. Len(stack[u]) : <<"search", d>> \in Claim(stack[u][n])
    BY <1>1 DEF LocksHeld
  <2>1. PICK n \in 1 .. Len(stack[u]) : <<"search", d>> \in Claim(stack[u][n])
    BY <2>1a
  <2>2. \/ n \in 1 .. Len(stack'[u]) /\ stack'[u][n] = stack[u][n]
        \/ u = t /\ n = Len(stack[t]) /\ stack[u][n] = Top(t)
    BY <1>1, MovesPositions
  <2>3. Len(stack[t]) \in 1 .. Len(stack'[t]) /\ stack'[t][Len(stack[t])] = frame
    BY <1>1, MovesPositions
  <2> QED
    BY <1>1, <2>1, <2>2, <2>3
<1>2. ASSUME NEW frame \in Invocations, NEW pushed \in Seq(Invocations), Works(t, frame, pushed)
      PROVE  \E u \in Threads : \E n \in 1 .. Len(stack'[u]) :
               <<"search", d>> \in Claim(stack'[u][n])
  <2>1. d \in locks /\ Moves(t, frame, pushed)
    BY <1>2 DEF Works
  <2>2. <<"search", d>> \in Claim(Top(t)) => <<"search", d>> \in Claim(frame)
    BY <1>2, SearchOfFrame DEF Works
  <2> QED
    BY <1>1, <2>1, <2>2
<1>3. ASSUME NEW frame \in Invocations, Claims(t, frame)
      PROVE  \E u \in Threads : \E n \in 1 .. Len(stack'[u]) :
               <<"search", d>> \in Claim(stack'[u][n])
  <2>1. /\ Moves(t, frame, <<>>) /\ <<>> \in Seq(Invocations) /\ Claim(Top(t)) = {}
        /\ Claimed' = Claimed \cup Claim(frame)
    BY <1>3 DEF Claims
  <2>2. CASE <<"search", d>> \in Claimed
    BY <1>1, <2>1, <2>2, SearchIsLock
  <2>3. CASE <<"search", d>> \in Claim(frame)
    <3>1. Len(stack[t]) \in 1 .. Len(stack'[t]) /\ stack'[t][Len(stack[t])] = frame
      BY <2>1, MovesPositions
    <3> QED
      BY <2>3, <3>1
  <2> QED
    BY <1>0, <2>1, <2>2, <2>3
<1>4. ASSUME Leaves(t)
      PROVE  \E u \in Threads : \E n \in 1 .. Len(stack'[u]) :
               <<"search", d>> \in Claim(stack'[u][n])
  <2>1. <<"search", d>> \in Claimed /\ d \in locks
    BY <1>0, <1>4, SearchIsLock DEF Leaves
  <2>2a. PICK u \in Threads : \E n \in 1 .. Len(stack[u]) : <<"search", d>> \in Claim(stack[u][n])
    BY <2>1 DEF LocksHeld
  <2>2. PICK n \in 1 .. Len(stack[u]) : <<"search", d>> \in Claim(stack[u][n])
    BY <2>2a
  <2>3. /\ stack[t] # <<>> /\ Top(t) = stack[t][Len(stack[t])] /\ Len(stack[t]) \in Nat
    BY <1>4, TopFacts DEF Leaves, TypesInv
  <2>4. <<"search", d>> \notin Claim(Top(t))
    BY <1>0, <1>4, SearchOfFrame DEF Leaves
  <2>5. CASE u # t
    BY <1>4, <2>2, <2>5, LeavesStacks
  <2>6. CASE u = t
    <3>1. n # Len(stack[t])
      BY <2>2, <2>3, <2>4, <2>6
    <3>2. n \in 1 .. Len(stack[t]) - 1 /\ Len(stack'[t]) = Len(stack[t]) - 1
      BY <1>4, <2>3, <2>6, <3>1, LeavesStacks
    <3>3. stack'[t][n] = stack[t][n]
      BY <1>4, <3>2, LeavesStacks
    <3> QED
      BY <2>2, <2>6, <3>2, <3>3
  <2> QED
    BY <2>5, <2>6
<1>5. Effect(t)
  BY StepEffect
<1> QED
  BY <1>2, <1>3, <1>4, <1>5 DEF Effect

LEMMA LocksHeldStep ==
  ~Answering /\ TypesInv /\ LocksHeld /\ [Next]_vars => LocksHeld'
<1> SUFFICES ASSUME ~Answering, TypesInv, LocksHeld, [Next]_vars PROVE LocksHeld'
  OBVIOUS
<1>1. CASE UNCHANGED <<stack, locks>>
  BY <1>1 DEF LocksHeld
<1>2. ASSUME NEW t \in Threads, Step(t) PROVE LocksHeld'
  BY <1>2, StepLocksHeld
<1>3. ASSUME NEW t \in Threads, Call(t) PROVE LocksHeld'
  <2> SUFFICES ASSUME NEW d \in locks
               PROVE  \E u \in Threads : \E n \in 1 .. Len(stack'[u]) :
                        <<"search", d>> \in Claim(stack'[u][n])
    BY <1>3, CallStacks DEF LocksHeld
  <2>1a. PICK u \in Threads : \E n \in 1 .. Len(stack[u]) : <<"search", d>> \in Claim(stack[u][n])
    BY DEF LocksHeld
  <2>1. PICK n \in 1 .. Len(stack[u]) : <<"search", d>> \in Claim(stack[u][n])
    BY <2>1a
  <2>2. u # t
    <3>1. Len(stack[t]) = 0
      BY <1>3, CallStacks
    <3> QED
      BY <2>1, <3>1
  <2> QED
    BY <1>3, <2>1, <2>2, CallStacks
<1> QED
  BY <1>1, <1>2, <1>3 DEF Next, RegisterImplementation, vars

\* "Locks blocking remote implementation attempts.": as long as no other host answers,
\* a device is locked only while the search for a bridge to it is in progress, however
\* the searches of any number of threads end.  (With answers a bridge that throws
\* leaves its lock behind.)
THEOREM LocksGivenBack == ~Answering => (Spec => []LocksReleased)
<1> SUFFICES ASSUME ~Answering PROVE Spec => []LocksReleased
  OBVIOUS
<1>1. TypesInv /\ LocksHeld => LocksReleased
  <2> SUFFICES ASSUME TypesInv, LocksHeld, NEW d \in locks
               PROVE  \E t \in Threads : \E f \in Frames(t) :
                        f.op = "remote" /\ f.at # "enter" /\ f.device = d
    BY DEF LocksReleased
  <2>1a. PICK t \in Threads : \E n \in 1 .. Len(stack[t]) : <<"search", d>> \in Claim(stack[t][n])
    BY DEF LocksHeld
  <2>1. PICK n \in 1 .. Len(stack[t]) : <<"search", d>> \in Claim(stack[t][n])
    BY <2>1a
  <2>2. stack[t][n] \in Frames(t)
    <3>1. DOMAIN stack[t] = 1 .. Len(stack[t])
      BY LenProperties DEF TypesInv, Stacks
    <3> QED
      BY <3>1 DEF Frames
  <2>3. Searches(stack[t][n]) /\ stack[t][n].device = d
    BY <2>1, SearchOfFrame DEF Claim
  <2> QED
    BY <2>2, <2>3 DEF Searches
<1>2. Init => TypesInv /\ LocksHeld
  BY TypesInit DEF Init, LocksHeld
<1>3. TypesInv /\ LocksHeld /\ [Next]_vars => (TypesInv /\ LocksHeld)'
  BY TypesStep, LocksHeldStep
<1> QED
  BY <1>1, <1>2, <1>3, PTL DEF Spec

=============================================================================
