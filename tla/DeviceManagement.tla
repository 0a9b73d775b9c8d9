-------------------------- MODULE DeviceManagement --------------------------
(***************************************************************************)
(* Blackbird.interfaceDevice and everything it calls, in one blackbird     *)
(* instance: the look-up of the device manager, the search for a host that *)
(* already has the device, and the construction of an implementation by    *)
(* the registered builders, which call interfaceDevice again for parents,  *)
(* hosts and components.  Each thread has a stack of the invocations in    *)
(* progress; an exception travels down it as a result.                     *)
(*                                                                         *)
(* All devices were announced with addDevices before, so that the addDevice *)
(* in getDeviceManager changes nothing.                                    *)
(***************************************************************************)
EXTENDS Naturals, Sequences, FiniteSets, SequencesExt

CONSTANTS
  Threads,      \* the threads that call interfaceDevice
  Requested,    \* the devices they ask for
  Hosts,        \* the other hosts, reached through a connector
  Here,         \* the local device: this host
  Board,        \* an AVR on a serial port of this host
  Wrapped,      \* TRUE: its port is a LocalHostDevicePort that names this host
  Chips,        \* I2C chips with a ParentDevicePort to the board
  Hosted,       \* devices with a LocalHostDevicePort to one of the Hosts
  Answering,    \* TRUE: RMI calls on other hosts may be answered
  MaxCalls,     \* bound: calls of interfaceDevice per thread
  MaxManagers   \* bound: device managers that registerImplementation fills up to

Devices == Hosts \cup {Here, Board} \cup Chips \cup Hosted

ASSUME DevicesAssumption ==
  /\ Requested \subseteq Devices
  /\ Hosted # {} => Hosts # {}
  /\ Here \notin Hosts
  /\ Wrapped \in BOOLEAN /\ Answering \in BOOLEAN
  /\ MaxCalls \in Nat /\ MaxManagers \in Nat

VARIABLES
  stack,      \* the invocations each thread is in, the innermost last
  result,     \* what the invocation that ended last returned or threw
  managers,   \* deviceManagers, with the types in each ImplementationGraph
  locks,      \* remoteImplementLocks
  excluded,   \* excludedArgumentSets of all builders
  calls,      \* how many calls each thread has begun
  links       \* history: connections opened to each device

vars == <<stack, result, managers, locks, excluded, calls, links>>

\* An implementation of this instance, one obtained from a bridge, null, an
\* ImplementationFailedException, any other exception.
Results == {"local", "remote", "null", "failed", "error"}

\* DInterface; SerialDevice.Implementation; I2CSlave.Interface; the interface of
\* the device itself.
Types == {"basic", "serial", "slave", "full"}

\* No port; a NetworkPort; a SerialDevice.Port; a ParentDevicePort to the board; a
\* LocalHostDevicePort for this host, with a SerialDevice.Port as its child, and one
\* for another host.
Ports == {"none", "network", "serial", "parent", "here", "elsewhere"}

Port(device) ==
  CASE device \in Hosts \cup {Here} -> "network"
    [] device = Board -> IF Wrapped THEN "here" ELSE "serial"
    [] device \in Chips -> "parent"
    [] OTHER -> "elsewhere"

\* The builders, in the order of the registry, and what GenericDIBuilder and their
\* checks let through: the type they produce (a LocalHostDevicePort any type), the
\* devices and the ports that they take.
Builders == <<"default", "hosted", "chip", "board", "slave", "serial", "local", "host">>

Produces(builder, type) ==
  CASE builder = "default" -> "basic"
    [] builder = "hosted" -> type
    [] builder = "slave" -> "slave"
    [] builder = "serial" -> "serial"
    [] OTHER -> "full"

Accepted(builder) ==
  CASE builder = "default" -> Devices \X {"none", "network", "serial"}
    [] builder = "hosted" -> Devices \X {"here", "elsewhere"}
    [] builder = "chip" -> Chips \X (Ports \ {"none"})
    [] builder = "slave" -> Chips \X {"parent"}
    [] builder \in {"board", "serial"} -> {Board} \X {"serial"}
    [] builder \in {"local", "host"} -> (Hosts \cup {Here}) \X (Ports \ {"none"})

Satisfies(type, requested) == requested \in {"basic", type}

\* What a builder asks Blackbird.implementDevice for before it builds.
Components == [chip |-> "slave", board |-> "serial", serial |-> "basic", local |-> "basic"]

-----------------------------------------------------------------------------
(* Invocations *)

Frame(op, at, device, type) ==
  [op |-> op, at |-> at, device |-> device, type |-> type, port |-> Port(device),
   manager |-> 0, builder |-> 0, hosts |-> {}, bridged |-> FALSE]

Interface(device, type) == Frame("interface", "lookup", device, type)
Remote(device, type) == Frame("remote", "enter", device, type)
Manage(i, device, type) == [Frame("manage", "enter", device, type) EXCEPT !.manager = i]

\* buildDeviceImplementation, which looks for nothing that is built already.
Build(i, device, type, port) ==
  [Frame("manage", "build", device, type) EXCEPT !.manager = i, !.port = port]

\* implementDevice begins with interfaceDevice(device, DInterface.class).
Implement(device, type) ==
  <<Frame("implement", "interfaced", device, type), Interface(device, "basic")>>

Top(t) == Last(stack[t])
Runs(t, op, at) ==
  /\ stack[t] # <<>>
  /\ Top(t).op = op /\ Top(t).at = at

Begins(t, op, at) == Runs(t, op, at) /\ result[t] = "none"
Gets(t, op, at, results) == Runs(t, op, at) /\ result[t] \in results

Become(t, frame) ==
  /\ stack' = [stack EXCEPT ![t] = Append(Front(@), frame)]
  /\ result' = [result EXCEPT ![t] = "none"]

Invoke(t, frame, invoked) ==
  /\ stack' = [stack EXCEPT ![t] = Append(Front(@), frame) \o invoked]
  /\ result' = [result EXCEPT ![t] = "none"]

Return(t, r) ==
  /\ stack' = [stack EXCEPT ![t] = Front(@)]
  /\ result' = [result EXCEPT ![t] = IF Len(stack[t]) = 1 THEN "none" ELSE r]

\* Invocations synchronized on the Blackbird, or on manager i.
Locking(frame, i) ==
  /\ frame.at \notin {"enter", "build"}
  /\ IF i = 0 THEN frame.op = "remote" ELSE frame.op = "manage" /\ frame.manager = i

\* The mutants of this module stand before the definition they replace.
AvailableOnce(t, i) ==
  \A u \in Threads : \A n \in DOMAIN stack[u] : ~Locking(stack[u][n], i)

\* Java's monitors are reentrant.
Available(t, i) ==
  \A u \in Threads \ {t} : \A n \in DOMAIN stack[u] : ~Locking(stack[u][n], i)

ManagersOf(device) == {i \in DOMAIN managers : managers[i].device = device}
FirstManager(device) == CHOOSE i \in ManagersOf(device) :
                          \A j \in ManagersOf(device) : i <= j

Init ==
  /\ stack = [t \in Threads |-> <<>>]
  /\ result = [t \in Threads |-> "none"]
  /\ managers = <<>>
  /\ locks = {}
  /\ excluded = {}
  /\ calls = [t \in Threads |-> 0]
  /\ links = [d \in Devices |-> 0]

-----------------------------------------------------------------------------
(* Blackbird.interfaceDevice and implementDevice *)

Call(t) ==
  /\ stack[t] = <<>>
  /\ calls[t] < MaxCalls
  /\ calls' = [calls EXCEPT ![t] = @ + 1]
  /\ \E d \in Requested :
       stack' = [stack EXCEPT ![t] = <<Interface(d, "full")>>]
  /\ UNCHANGED <<result, managers, locks, excluded, links>>

LookupAnyManager(t) ==
  LET f == Top(t) IN
  /\ Begins(t, "interface", "lookup")
  /\ IF managers # <<>>
     THEN Invoke(t, [f EXCEPT !.at = "managed"], <<Manage(1, f.device, f.type)>>)
     ELSE Invoke(t, [f EXCEPT !.at = "remote"], <<Remote(f.device, f.type)>>)
  /\ UNCHANGED <<managers, locks, excluded, calls, links>>

Lookup(t) ==
  LET f == Top(t) IN
  /\ Begins(t, "interface", "lookup")
  /\ IF ManagersOf(f.device) # {}
     THEN Invoke(t, [f EXCEPT !.at = "managed"],
                 <<Manage(FirstManager(f.device), f.device, f.type)>>)
     ELSE Invoke(t, [f EXCEPT !.at = "remote"], <<Remote(f.device, f.type)>>)
  /\ UNCHANGED <<managers, locks, excluded, calls, links>>

\* No host provides the device.  Whether a manager was created in the meantime,
\* by another thread or deeper in the recursion, is not looked at again.
CreateDeviceManager(t) ==
  LET f == Top(t) IN
  /\ Gets(t, "interface", "remote", {"null"})
  /\ managers' = Append(managers, [device |-> f.device, types |-> {}])
  /\ Invoke(t, [f EXCEPT !.at = "managed"],
            <<Manage(Len(managers) + 1, f.device, f.type)>>)
  /\ UNCHANGED <<locks, excluded, calls, links>>

\* implementDevice after its interfaceDevice: a device that another host provides
\* has no manager here, an ImplementationNotAvailableException.
Interfaced(t) ==
  LET f == Top(t) IN
  /\ Gets(t, "implement", "interfaced", {"local", "remote"})
  /\ IF ManagersOf(f.device) # {}
     THEN Invoke(t, [f EXCEPT !.at = "managed"],
                 <<Manage(FirstManager(f.device), f.device, f.type)>>)
     ELSE Return(t, "error")
  /\ UNCHANGED <<managers, locks, excluded, calls, links>>

\* Results handed on, exceptions not caught.
PassOn(t) ==
  /\ \/ Gets(t, "interface", "remote", Results \ {"null"})
     \/ Gets(t, "implement", "interfaced", {"failed", "error"})
     \/ Gets(t, "interface", "managed", Results)
     \/ Gets(t, "implement", "managed", Results)
     \/ stack[t] # <<>> /\ Top(t).op = "manage" /\ result[t] = "error"
  /\ Return(t, result[t])
  /\ UNCHANGED <<managers, locks, excluded, calls, links>>

-----------------------------------------------------------------------------
(* Blackbird.getRemoteDeviceImplementation *)

EnterRemoteUnlocked(t) ==
  LET f == Top(t) IN
  /\ Begins(t, "remote", "enter")
  /\ Available(t, 0)
  /\ Become(t, [f EXCEPT !.at = "loop", !.hosts = Hosts \ {f.device}])
  /\ locks' = locks \cup {f.device}
  /\ UNCHANGED <<managers, excluded, calls, links>>

EnterRemote(t) ==
  LET f == Top(t) IN
  /\ Begins(t, "remote", "enter")
  /\ Available(t, 0)
  /\ IF f.device \in locks
     THEN Return(t, "null") /\ UNCHANGED locks
     ELSE /\ Become(t, [f EXCEPT !.at = "loop", !.hosts = Hosts \ {f.device}])
          /\ locks' = locks \cup {f.device}
  /\ UNCHANGED <<managers, excluded, calls, links>>

AskHost(t) ==
  LET f == Top(t) IN
  /\ Begins(t, "remote", "loop")
  /\ \E h \in f.hosts :
       Invoke(t, [f EXCEPT !.at = "asked", !.hosts = @ \ {h}], <<Interface(h, "full")>>)
  /\ UNCHANGED <<managers, locks, excluded, calls, links>>

HostAskedUncaught(t) ==
  LET f == Top(t) IN
  /\ Gets(t, "remote", "asked", Results)
  /\ IF result[t] \in {"failed", "error"}
     THEN Return(t, result[t])
     ELSE Become(t, [f EXCEPT !.at = "loop"])
  /\ UNCHANGED <<managers, locks, excluded, calls, links>>

\* getImplementationDistanceTo, when it is answered, is always 0: the Optional of
\* getDeviceManager is never null.  Any exception is ignored.
HostAsked(t) ==
  LET f == Top(t) IN
  /\ Gets(t, "remote", "asked", Results)
  /\ \E bridge \in {FALSE, Answering /\ result[t] \in {"local", "remote"}} :
       Become(t, [f EXCEPT !.at = "loop", !.bridged = @ \/ bridge])
  /\ UNCHANGED <<managers, locks, excluded, calls, links>>

\* interfaceDevice on a bridge: its exceptions leave the method with the lock set.
UseBridge(t) ==
  LET f == Top(t) IN
  /\ Begins(t, "remote", "loop")
  /\ f.hosts = {} /\ f.bridged
  /\ \/ Return(t, "remote") /\ locks' = locks \ {f.device}
     \/ Return(t, "error") /\ UNCHANGED locks
  /\ UNCHANGED <<managers, excluded, calls, links>>

NoBridge(t) ==
  LET f == Top(t) IN
  /\ Begins(t, "remote", "loop")
  /\ f.hosts = {} /\ ~f.bridged
  /\ Return(t, "null")
  /\ locks' = locks \ {f.device}
  /\ UNCHANGED <<managers, excluded, calls, links>>

-----------------------------------------------------------------------------
(* DeviceManager.interfaceDevice, getImplementationObjectFor and              *)
(* buildDeviceImplementation                                                 *)

EnterManagerToBuild(t) ==
  LET f == Top(t) IN
  /\ Begins(t, "manage", "enter")
  /\ Available(t, f.manager)
  /\ Become(t, [f EXCEPT !.at = "building"])
  /\ UNCHANGED <<managers, locks, excluded, calls, links>>

EnterManager(t) ==
  LET f == Top(t) IN
  /\ Begins(t, "manage", "enter")
  /\ Available(t, f.manager)
  /\ IF \E type \in managers[f.manager].types : Satisfies(type, f.type)
     THEN Return(t, "local")
     ELSE Become(t, [f EXCEPT !.at = "building"])
  /\ UNCHANGED <<managers, locks, excluded, calls, links>>

\* buildDeviceImplementation of this manager, entered again for another port.
EnterToBuild(t) ==
  /\ Begins(t, "manage", "build")
  /\ Available(t, Top(t).manager)
  /\ Become(t, [Top(t) EXCEPT !.at = "building"])
  /\ UNCHANGED <<managers, locks, excluded, calls, links>>

ArgumentSet(f, i) == <<Builders[i], f.device, f.type, f.port>>

UntriedOrBuilding(f) ==
  {i \in DOMAIN Builders :
     /\ i > f.builder
     /\ <<f.device, f.port>> \in Accepted(Builders[i])
     /\ Satisfies(Produces(Builders[i], f.type), f.type)}

Untried(f) ==
  {i \in DOMAIN Builders :
     /\ i > f.builder
     /\ <<f.device, f.port>> \in Accepted(Builders[i])
     /\ Satisfies(Produces(Builders[i], f.type), f.type)
     /\ ArgumentSet(f, i) \notin excluded}

\* buildImplementationRecursionSave: the next builder that neither refuses the
\* arguments nor is building the same already.
TryBuilder(t) ==
  LET f == Top(t)
      i == CHOOSE i \in Untried(f) : \A j \in Untried(f) : i <= j
  IN
  /\ Begins(t, "manage", "building")
  /\ IF Untried(f) = {}
     THEN Return(t, "failed") /\ UNCHANGED excluded
     ELSE /\ excluded' = excluded \cup {ArgumentSet(f, i)}
          /\ Become(t, [f EXCEPT !.at = "started", !.builder = i])
  /\ UNCHANGED <<managers, locks, calls, links>>

\* The builder has returned: the set is included again, graph.add.
Built(t) ==
  LET f == Top(t) IN
  /\ excluded' = excluded \ {ArgumentSet(f, f.builder)}
  /\ managers' = [managers EXCEPT ![f.manager].types =
                    @ \cup {Produces(Builders[f.builder], f.type)}]
  /\ Return(t, "local")

\* An ImplementationFailedException: the set stays excluded, the next builder.
BuildFailed(t) ==
  /\ stack[t] # <<>> /\ Top(t).op = "manage" /\ result[t] = "failed"
  /\ Become(t, [Top(t) EXCEPT !.at = "building"])
  /\ UNCHANGED <<managers, locks, excluded, calls, links>>

Builder(t) == Builders[Top(t).builder]

\* DImplementation.Builder.
BuildDefault(t) ==
  /\ Begins(t, "manage", "started") /\ Builder(t) = "default"
  /\ Built(t)
  /\ UNCHANGED <<locks, calls, links>>

\* ComponentDIBuilder, and AVRDevice.Implementation.Builder likewise.
ImplementComponent(t) ==
  LET f == Top(t) IN
  /\ Begins(t, "manage", "started") /\ Builder(t) \in DOMAIN Components
  /\ Invoke(t, [f EXCEPT !.at = "component"], Implement(f.device, Components[Builder(t)]))
  /\ UNCHANGED <<managers, locks, excluded, calls, links>>

\* LocalHostDeviceImplementation.Builder finds only then that it is for another host.
BuildOnComponent(t) ==
  LET f == Top(t) IN
  /\ Gets(t, "manage", "component", {"local", "remote"})
  /\ \/ /\ Builder(t) \in {"chip", "local"}
        /\ Builder(t) = "local" => f.device = Here
        /\ Built(t)
     \/ /\ Builder(t) = "local" /\ f.device # Here
        /\ Become(t, [f EXCEPT !.at = "building"])
        /\ UNCHANGED <<managers, excluded>>
     \/ /\ Builder(t) \in {"board", "serial"}
        /\ Become(t, [f EXCEPT !.at = "linking"])
        /\ UNCHANGED <<managers, excluded>>
  /\ UNCHANGED <<locks, calls, links>>

\* HostDeviceImplementationBuilder.build.
BuildHost(t) ==
  /\ Begins(t, "manage", "started") /\ Builder(t) = "host"
  /\ Become(t, [Top(t) EXCEPT !.at = "linking"])
  /\ UNCHANGED <<managers, locks, excluded, calls, links>>

\* A host is connected, a serial port opened, an AVR identified; or not.
Link(t) ==
  LET f == Top(t) IN
  /\ Begins(t, "manage", "linking")
  /\ \/ /\ Built(t)
        /\ links' = [links EXCEPT ![f.device] = @ + IF Builder(t) = "serial" THEN 0 ELSE 1]
     \/ /\ Become(t, [f EXCEPT !.at = "building"])
        /\ UNCHANGED <<managers, excluded, links>>
  /\ UNCHANGED <<locks, calls>>

\* ParentDevicePort.Builder.
InterfaceParent(t) ==
  /\ Begins(t, "manage", "started") /\ Builder(t) = "slave"
  /\ Invoke(t, [Top(t) EXCEPT !.at = "parent"], <<Interface(Board, "basic")>>)
  /\ UNCHANGED <<managers, locks, excluded, calls, links>>

\* The parent is local: the component is built without the port, by
\* DImplementation.Builder.
BuildWithoutPort(t) ==
  LET f == Top(t) IN
  /\ Gets(t, "manage", "parent", {"local"})
  /\ Invoke(t, [f EXCEPT !.at = "unported"],
            <<Build(FirstManager(f.device), f.device, "basic", "none")>>)
  /\ UNCHANGED <<managers, locks, excluded, calls, links>>

ImplementParent(t) ==
  /\ Gets(t, "manage", "unported", {"local", "remote"})
  /\ Invoke(t, [Top(t) EXCEPT !.at = "assembling"], Implement(Board, "full"))
  /\ UNCHANGED <<managers, locks, excluded, calls, links>>

\* A LocalHostDevicePort that names this host: its child takes its place.
BuildWithChild(t) ==
  LET f == Top(t) IN
  /\ Begins(t, "manage", "started") /\ Builder(t) = "hosted" /\ f.port = "here"
  /\ Invoke(t, [f EXCEPT !.at = "assembling"],
            <<Build(FirstManager(f.device), f.device, f.type, "serial")>>)
  /\ UNCHANGED <<managers, locks, excluded, calls, links>>

Assemble(t) ==
  /\ Gets(t, "manage", "assembling", {"local", "remote"})
  /\ Built(t)
  /\ UNCHANGED <<locks, calls, links>>

\* The parent is remote, or the port is a LocalHostDevicePort: the host of it has
\* to provide the device.
InterfaceHost(t) ==
  /\ \/ Gets(t, "manage", "parent", {"remote"})
     \/ /\ Begins(t, "manage", "started") /\ Builder(t) = "hosted"
        /\ Top(t).port = "elsewhere"
  /\ \E h \in Hosts :
       Invoke(t, [Top(t) EXCEPT !.at = "hosted"], <<Interface(h, "full")>>)
  /\ UNCHANGED <<managers, locks, excluded, calls, links>>

AskHostForDevice(t) ==
  /\ Gets(t, "manage", "hosted", {"local", "remote"})
  /\ \/ Answering /\ Built(t)
     \/ Return(t, "error") /\ UNCHANGED <<managers, excluded>>
  /\ UNCHANGED <<locks, calls, links>>

-----------------------------------------------------------------------------
\* A host has connected (HostDeviceImplementationBuilder.setupConnection).  The
\* argument of orElse is evaluated in any case: a manager is always created.
RegisterImplementation(h) ==
  LET known == ManagersOf(h)
      i == IF known # {} THEN FirstManager(h) ELSE Len(managers) + 1
  IN
  /\ Answering
  /\ Len(managers) < MaxManagers
  /\ managers' = [Append(managers, [device |-> h, types |-> {}])
                    EXCEPT ![i].types = @ \cup {"full"}]
  /\ UNCHANGED <<stack, result, locks, excluded, calls, links>>

Step(t) ==
  \/ Lookup(t) \/ CreateDeviceManager(t) \/ Interfaced(t) \/ PassOn(t)
  \/ EnterRemote(t) \/ AskHost(t) \/ HostAsked(t) \/ UseBridge(t) \/ NoBridge(t)
  \/ EnterManager(t) \/ EnterToBuild(t) \/ TryBuilder(t) \/ BuildFailed(t) \/ BuildDefault(t)
  \/ ImplementComponent(t) \/ BuildOnComponent(t) \/ BuildHost(t) \/ Link(t)
  \/ InterfaceParent(t) \/ BuildWithoutPort(t) \/ ImplementParent(t) \/ Assemble(t)
  \/ BuildWithChild(t)
  \/ InterfaceHost(t) \/ AskHostForDevice(t)

Next ==
  \/ \E t \in Threads : Call(t) \/ Step(t)
  \/ \E h \in Hosts : RegisterImplementation(h)

Spec == Init /\ [][Next]_vars

\* Threads run on; a connection attempt and an RMI call end by their timeouts.
FairSpec == Spec /\ \A t \in Threads : WF_vars(Step(t))

-----------------------------------------------------------------------------
(* Properties *)

Frames(t) == {stack[t][n] : n \in DOMAIN stack[t]}

\* Every variable keeps its type, and an invocation in a device manager is about
\* the device of that manager.
TypeOK ==
  /\ \A t \in Threads : \A f \in Frames(t) :
       /\ f.op \in {"interface", "implement", "remote", "manage"}
       /\ f.device \in Devices /\ f.type \in Types /\ f.port \in Ports
       /\ f.builder \in 0 .. Len(Builders)
       /\ f.hosts \subseteq Hosts /\ f.bridged \in BOOLEAN
       /\ f.op = "manage" => /\ f.manager \in DOMAIN managers
                             /\ managers[f.manager].device = f.device
  /\ result \in [Threads -> Results \cup {"none"}]
  /\ managers \in Seq([device : Devices, types : SUBSET Types])
  /\ locks \subseteq Devices
  /\ excluded \subseteq ToSet(Builders) \X Devices \X Types \X Ports
  /\ calls \in [Threads -> 0 .. MaxCalls]
  /\ links \in [Devices -> Nat]

\* While a device is implemented no second connection is opened to it: one
\* interface serves all who ask.
NoSecondLink == \A d \in Devices : links[d] <= 1

\* "Locks blocking remote implementation attempts." (Blackbird.java:61): a device
\* is locked only while such an attempt is in progress.
LocksReleased ==
  \A d \in locks : \E t \in Threads : \E f \in Frames(t) :
    f.op = "remote" /\ f.at # "enter" /\ f.device = d

\* The search for a bridge, which interfaces hosts and so searches bridges for
\* them, never gets to a device it is searching for already; nor does a builder
\* get to build what it is building.
NoEndlessRecursion ==
  \A t \in Threads : \A m, n \in DOMAIN stack[t] :
    LET f == stack[t][m]
        g == stack[t][n]
    IN m < n =>
         /\ f.op = "remote" /\ g.op = "remote" /\ g.at # "enter" => f.device # g.device
         /\ f.op = "manage" /\ g.op = "manage" /\ g.at \notin {"enter", "build", "building"} =>
              ArgumentSet(f, f.builder) # ArgumentSet(g, g.builder)

\* Every call of interfaceDevice comes back, whatever monitors other threads hold.
CallsReturn == \A t \in Threads : stack[t] # <<>> ~> stack[t] = <<>>
=============================================================================
