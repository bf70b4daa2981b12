-------------------------- MODULE AccessBridgeEvents --------------------------
(***************************************************************************)
(* Events of the Java Access Bridge (include/win32/bridge/, headers        *)
(* AccessBridgeCalls.h, AccessBridgeCallbacks.h, AccessBridgePackages.h).  *)
(*                                                                         *)
(* An assistive technology (AT) sets a callback for each type of event it  *)
(* wants.  Its bridge asks the JVMs it has met for events of that type,    *)
(* with a package that names the AT's window, and each JVM keeps a mask of *)
(* types for each window.  An event of the JVM is posted to the windows    *)
(* that asked for it.  It carries references to Java objects, which the    *)
(* JVM keeps alive until they are given back with ReleaseJavaObject.  The  *)
(* last event of a JVM is JavaShutdown; Destroyed follows it.              *)
(*                                                                         *)
(* JVMs and ATs meet by the rendezvous of AccessBridgeRendezvous, which is *)
(* Meet here; a member of JVMs is one life of a JVM.                       *)
(***************************************************************************)
EXTENDS Naturals, Sequences, Functions

CONSTANTS JVMs,        \* the Java VMs, each named by its vmID
          ATs,         \* the assistive technologies, each named by its window
          Types,       \* the types of events that occur
          MaxEvents,   \* bound: events posted by one JVM
          MaxRequests  \* bound: packages in a JVM's queue when an AT goes on asking

-----------------------------------------------------------------------------
(***************************************************************************)
(* Types of events.  There are two families of them, each with a           *)
(* registration package of its own; the same bits are used in both.        *)
(***************************************************************************)
JavaEventTypes ==
    [FocusGained |-> 2, FocusLost |-> 4, CaretUpdate |-> 8,
     MouseClicked |-> 16, MouseEntered |-> 32, MouseExited |-> 64,
     MousePressed |-> 128, MouseReleased |-> 256,
     MenuCanceled |-> 512, MenuDeselected |-> 1024, MenuSelected |-> 2048,
     PopupMenuCanceled |-> 4096, PopupMenuWillBecomeInvisible |-> 8192,
     PopupMenuWillBecomeVisible |-> 16384, JavaShutdown |-> 32768]

AccessibilityEventTypes ==
    [PropertyNameChange |-> 1, PropertyDescriptionChange |-> 2,
     PropertyStateChange |-> 4, PropertyValueChange |-> 8,
     PropertySelectionChange |-> 16, PropertyTextChange |-> 32,
     PropertyCaretChange |-> 64, PropertyVisibleDataChange |-> 128,
     PropertyChildChange |-> 256, PropertyActiveDescendentChange |-> 512,
     PropertyTableModelChange |-> 1024]

EventTypes == DOMAIN JavaEventTypes \cup DOMAIN AccessibilityEventTypes
Families   == {"Java", "Accessibility"}
Bits       == {JavaEventTypes[t] : t \in DOMAIN JavaEventTypes}
                 \cup {AccessibilityEventTypes[t] : t \in DOMAIN AccessibilityEventTypes}

Family(t) == IF t \in DOMAIN JavaEventTypes THEN "Java" ELSE "Accessibility"
Bit(t)    == IF t \in DOMAIN JavaEventTypes THEN JavaEventTypes[t]
                                            ELSE AccessibilityEventTypes[t]

\* The types of family f among T as one mask: a mask is the set of its bits.
Mask(f, T) == {Bit(t) : t \in {u \in T : Family(u) = f}}

\* The fields of an event package that refer to Java objects.
References(t) ==
    CASE t = "JavaShutdown" -> <<>>
      [] t \in {"PropertyChildChange", "PropertyActiveDescendentChange"} ->
           <<"Event", "Source", "Old", "New">>
      [] OTHER -> <<"Event", "Source">>

ASSUME TypesAreKnown == Types \subseteq EventTypes
ASSUME BoundsAreNumbers == MaxEvents \in Nat /\ MaxRequests \in Nat

-----------------------------------------------------------------------------
VARIABLES alive,     \* the JVMs that run
          relation,  \* relation[a][j]: what AT a knows of JVM j
          callback,  \* callback[a]: the types for which a has a callback set
          requests,  \* requests[j]: packages from ATs, oldest first
          wanted,    \* wanted[j][a][f]: the mask of family f that a has asked j for
          events,    \* events[a]: packages from JVMs, oldest first
          posted,    \* posted[j]: the number of events j has posted
          held,      \* held[j]: the objects j keeps alive for ATs
          inHand     \* inHand[a]: the references a was given and has not released

vars == <<alive, relation, callback, requests, wanted, events, posted, held, inHand>>

\* Variant with a bug: one reference for all the windows that get the event.
SharedObject(j, a, n, field) ==
    [vm |-> j, at |-> CHOOSE b \in ATs : TRUE, event |-> n, field |-> field]

\* A reference that an event of a JVM has for one AT.
Object(j, a, n, field) == [vm |-> j, at |-> a, event |-> n, field |-> field]
Objects == [vm : JVMs, at : ATs, event : Nat, field : {"Event", "Source", "Old", "New"}]

\* Variant with a bug: the fields of the package are written in the wrong order.
SwappedFields(a, f, m) == [type |-> "Add", window |-> f, family |-> a, mask |-> m]

AddNotification(a, f, m)    == [type |-> "Add", window |-> a, family |-> f, mask |-> m]
RemoveNotification(a, f, m) == [type |-> "Remove", window |-> a, family |-> f, mask |-> m]
ReleaseObject(r)            == [type |-> "Release", object |-> r]
CallOn(r)                   == [type |-> "Call", object |-> r]

Registrations == [type : {"Add", "Remove"}, window : ATs, family : Families,
                  mask : SUBSET Bits]
ObjectRequests == [type : {"Release", "Call"}, object : Objects]
PackagesToJVM  == Registrations \cup ObjectRequests

\* The n-th event of j, of type t, as posted to a.
Event(j, a, t, n) ==
    [type |-> t, vm |-> j,
     objects |-> [i \in DOMAIN References(t) |-> Object(j, a, n, References(t)[i])]]
Destroyed(j) == [type |-> "Destroyed", vm |-> j, objects |-> <<>>]

EventPackages == [type : EventTypes \cup {"Destroyed"}, vm : JVMs, objects : Seq(Objects)]

\* What is under way, what is registered and what is held fits together.
TypeOK ==
    /\ alive \subseteq JVMs
    /\ relation \in [ATs -> [JVMs -> {"stranger", "met", "gone"}]]
    /\ callback \in [ATs -> SUBSET Types]
    /\ requests \in [JVMs -> Seq(PackagesToJVM)]
    /\ wanted \in [JVMs -> [ATs -> [Families -> SUBSET Bits]]]
    /\ events \in [ATs -> Seq(EventPackages)]
    /\ posted \in [JVMs -> Nat]
    /\ held \in [JVMs -> SUBSET Objects]
    /\ inHand \in [ATs -> SUBSET Objects]

Init ==
    /\ alive = JVMs
    /\ relation = [a \in ATs |-> [j \in JVMs |-> "stranger"]]
    /\ callback = [a \in ATs |-> {}]
    /\ requests = [j \in JVMs |-> <<>>]
    /\ wanted = [j \in JVMs |-> [a \in ATs |-> [f \in Families |-> {}]]]
    /\ events = [a \in ATs |-> <<>>]
    /\ posted = [j \in JVMs |-> 0]
    /\ held = [j \in JVMs |-> {}]
    /\ inHand = [a \in ATs |-> {}]

Met(a) == {j \in JVMs : relation[a][j] = "met"}

\* requests after the packages ms are sent to each JVM of J: those that no
\* longer run take nothing.
Send(J, ms) == [j \in JVMs |-> IF j \in J \cap alive THEN requests[j] \o ms
                                                     ELSE requests[j]]

EventFrom(a) == events[a] # <<>>
Took(a) == events' = [events EXCEPT ![a] = Tail(@)]

Request(j) == Head(requests[j])
Served(j) == /\ j \in alive
             /\ requests[j] # <<>>
             /\ requests' = [requests EXCEPT ![j] = Tail(@)]

-----------------------------------------------------------------------------
(***************************************************************************)
(* Variants with a bug each, used to see the properties fail.              *)
(***************************************************************************)
\* The callbacks that are set already are forgotten when a JVM is met.
MeetOnly(a, j) ==
    /\ j \in alive
    /\ relation[a][j] = "stranger"
    /\ relation' = [relation EXCEPT ![a][j] = "met"]
    /\ UNCHANGED <<alive, callback, requests, wanted, events, posted, held, inHand>>

\* One mask for both families.
OneMask(j) ==
    /\ Served(j)
    /\ LET p == Request(j) IN
         /\ p.type \in {"Add", "Remove"}
         /\ wanted' = [wanted EXCEPT ![j][p.window] = [f \in Families |->
                         IF p.type = "Add" THEN @[f] \cup p.mask ELSE @[f] \ p.mask]]
    /\ UNCHANGED <<alive, relation, callback, events, posted, held, inHand>>

\* Without a callback only the two references that every event has are given back.
ReleaseTwo(a) ==
    /\ EventFrom(a)
    /\ LET e == Head(events[a]) IN
         /\ e.type \in EventTypes \ callback[a]
         /\ requests' = Send({e.vm}, [i \in DOMAIN e.objects \cap {1, 2} |->
                                        ReleaseObject(e.objects[i])])
    /\ Took(a)
    /\ UNCHANGED <<alive, relation, callback, wanted, posted, held, inHand>>

\* Without a callback nothing is given back.
DropEvent(a) ==
    /\ EventFrom(a)
    /\ Head(events[a]).type \in EventTypes \ callback[a]
    /\ Took(a)
    /\ UNCHANGED <<alive, relation, callback, requests, wanted, posted, held, inHand>>

-----------------------------------------------------------------------------
(***************************************************************************)
(* The AT: its callbacks, and the JVMs it meets.                           *)
(***************************************************************************)
MayAsk(a) == \A j \in Met(a) : Len(requests[j]) < MaxRequests

SetCallback(a, t) ==
    /\ MayAsk(a)
    /\ callback' = [callback EXCEPT ![a] = @ \cup {t}]
    /\ requests' = Send(Met(a), <<AddNotification(a, Family(t), {Bit(t)})>>)
    /\ UNCHANGED <<alive, relation, wanted, events, posted, held, inHand>>

\* The callback is set to null.
ClearCallback(a, t) ==
    /\ MayAsk(a)
    /\ t \in callback[a]
    /\ callback' = [callback EXCEPT ![a] = @ \ {t}]
    /\ requests' = Send(Met(a), <<RemoveNotification(a, Family(t), {Bit(t)})>>)
    /\ UNCHANGED <<alive, relation, wanted, events, posted, held, inHand>>

\* A JVM that is met later is asked for what is wanted by then.
Meet(a, j) ==
    /\ j \in alive
    /\ relation[a][j] = "stranger"
    /\ relation' = [relation EXCEPT ![a][j] = "met"]
    /\ requests' = Send({j}, [i \in 1..2 |->
                       LET f == <<"Java", "Accessibility">>[i]
                       IN  AddNotification(a, f, Mask(f, callback[a]))])
    /\ UNCHANGED <<alive, callback, wanted, events, posted, held, inHand>>

(***************************************************************************)
(* The AT: events.  The callback owns the references it is given; without  *)
(* a callback the bridge gives them back.                                  *)
(***************************************************************************)
CallBack(a) ==
    /\ EventFrom(a)
    /\ LET e == Head(events[a]) IN
         /\ e.type \in callback[a]
         /\ inHand' = [inHand EXCEPT ![a] =
                         IF e.type = "JavaShutdown" THEN {r \in @ : r.vm # e.vm}
                                                    ELSE @ \cup Range(e.objects)]
    /\ Took(a)
    /\ UNCHANGED <<alive, relation, callback, requests, wanted, posted, held>>

NoCallback(a) ==
    /\ EventFrom(a)
    /\ LET e == Head(events[a]) IN
         /\ e.type \in EventTypes \ callback[a]
         /\ requests' = Send({e.vm}, [i \in DOMAIN e.objects |-> ReleaseObject(e.objects[i])])
    /\ Took(a)
    /\ UNCHANGED <<alive, relation, callback, wanted, posted, held, inHand>>

ReceiveDestroyed(a) ==
    /\ EventFrom(a)
    /\ LET e == Head(events[a]) IN
         /\ e.type = "Destroyed"
         /\ relation' = [relation EXCEPT ![a][e.vm] = "gone"]
    /\ Took(a)
    /\ UNCHANGED <<alive, callback, requests, wanted, posted, held, inHand>>

(***************************************************************************)
(* The AT: calls.  A call to a JVM that the bridge does not know fails.    *)
(***************************************************************************)
ReleaseJavaObject(a, r) ==
    /\ r \in inHand[a]
    /\ inHand' = [inHand EXCEPT ![a] = @ \ {r}]
    /\ requests' = Send({r.vm} \cap Met(a), <<ReleaseObject(r)>>)
    /\ UNCHANGED <<alive, relation, callback, wanted, events, posted, held>>

\* Any call that takes an object, such as GetAccessibleContextInfo.
Call(a, r) ==
    /\ MayAsk(a)
    /\ r \in inHand[a]
    /\ requests' = Send({r.vm} \cap Met(a), <<CallOn(r)>>)
    /\ UNCHANGED <<alive, relation, callback, wanted, events, posted, held, inHand>>

-----------------------------------------------------------------------------
(***************************************************************************)
(* The JVM.                                                                *)
(***************************************************************************)
ServeRegistration(j) ==
    /\ Served(j)
    /\ LET p == Request(j) IN
         /\ p.type \in {"Add", "Remove"}
         /\ wanted' = [wanted EXCEPT ![j][p.window][p.family] =
                         IF p.type = "Add" THEN @ \cup p.mask ELSE @ \ p.mask]
    /\ UNCHANGED <<alive, relation, callback, events, posted, held, inHand>>

ServeObject(j) ==
    /\ Served(j)
    /\ LET p == Request(j) IN
         /\ p.type \in {"Release", "Call"}
         /\ held' = IF p.type = "Release" THEN [held EXCEPT ![j] = @ \ {p.object}] ELSE held
    /\ UNCHANGED <<alive, relation, callback, wanted, events, posted, inHand>>

Listeners(j, t) == {a \in ATs : Bit(t) \in wanted[j][a][Family(t)]}

\* An event of type t occurs: every window that asked for it gets references
\* of its own.
Post(j, t) ==
    LET n == posted[j] + 1 IN
    /\ j \in alive
    /\ posted[j] < MaxEvents
    /\ t # "JavaShutdown"
    /\ Listeners(j, t) # {}
    /\ posted' = [posted EXCEPT ![j] = n]
    /\ events' = [a \in ATs |-> IF a \in Listeners(j, t)
                                THEN Append(events[a], Event(j, a, t, n)) ELSE events[a]]
    /\ held' = [held EXCEPT ![j] =
                  @ \cup UNION {Range(Event(j, a, t, n).objects) : a \in Listeners(j, t)}]
    /\ UNCHANGED <<alive, relation, callback, requests, wanted, inHand>>

\* The JVM's process ends, and its objects and its queue with it.
End(j) ==
    /\ j \in alive
    /\ alive' = alive \ {j}
    /\ requests' = [requests EXCEPT ![j] = <<>>]
    /\ wanted' = [wanted EXCEPT ![j] = [a \in ATs |-> [f \in Families |-> {}]]]
    /\ held' = [held EXCEPT ![j] = {}]
    /\ UNCHANGED <<relation, callback, posted, inHand>>

\* Variant with a bug: Destroyed is sent, not posted, and overtakes the events.
DestroyedFirst(j) ==
    /\ End(j)
    /\ events' = [a \in ATs |-> <<Destroyed(j)>> \o events[a]]

\* JavaShutdown goes to those who asked for it, Destroyed to everyone; that it
\* comes behind JavaShutdown is assumed.
ShutDown(j) ==
    /\ End(j)
    /\ events' = [a \in ATs |->
                    events[a] \o IF a \in Listeners(j, "JavaShutdown")
                                 THEN <<Event(j, a, "JavaShutdown", 0), Destroyed(j)>>
                                 ELSE <<Destroyed(j)>>]

Crash(j) == End(j) /\ UNCHANGED events

-----------------------------------------------------------------------------
HandleEvent(a)   == CallBack(a) \/ NoCallback(a) \/ ReceiveDestroyed(a)
HandleRequest(j) == ServeRegistration(j) \/ ServeObject(j)
ReleaseOne(a)    == \E r \in inHand[a] : ReleaseJavaObject(a, r)

Next ==
    \/ \E a \in ATs :
         \/ \E t \in Types : SetCallback(a, t) \/ ClearCallback(a, t)
         \/ \E j \in JVMs : Meet(a, j)
         \/ HandleEvent(a)
         \/ ReleaseOne(a)
         \/ \E r \in inHand[a] : Call(a, r)
    \/ \E j \in JVMs :
         \/ HandleRequest(j)
         \/ \E t \in Types : Post(j, t)
         \/ ShutDown(j) \/ Crash(j)

\* Bridges read their queues, and an AT releases what it was given in the end.
Fairness == /\ \A a \in ATs : WF_vars(HandleEvent(a)) /\ WF_vars(ReleaseOne(a))
            /\ \A j \in JVMs : WF_vars(HandleRequest(j))

Spec == Init /\ [][Next]_vars
FairSpec == Spec /\ Fairness

-----------------------------------------------------------------------------
(***************************************************************************)
(* Properties.                                                             *)
(***************************************************************************)
\* The registrations of a for events of type t that j has yet to serve.
Pending(j, a, t) == {i \in DOMAIN requests[j] :
                       LET p == requests[j][i] IN
                       /\ p.type \in {"Add", "Remove"}
                       /\ p.window = a
                       /\ p.family = Family(t)
                       /\ Bit(t) \in p.mask}

\* j will post events of type t to a once it has served its queue.
WillListen(j, a, t) ==
    \/ Pending(j, a, t) = {} /\ a \in Listeners(j, t)
    \/ \E i \in Pending(j, a, t) : /\ requests[j][i].type = "Add"
                                   /\ \A k \in Pending(j, a, t) : k <= i

\* Whenever a callback is set or cleared, and whenever a JVM is met, before or
\* after: what a running JVM is registered for, once it has served its queue,
\* is exactly what the AT has callbacks for, in the family each type belongs to.
RegistrationsAddUp ==
    \A j \in alive, a \in ATs, t \in Types :
        WillListen(j, a, t) <=> (j \in Met(a) /\ t \in callback[a])

Queued(a)   == UNION {Range(e.objects) : e \in Range(events[a])}
Returned(j) == {p.object : p \in {q \in Range(requests[j]) : q.type = "Release"}}

\* A running JVM holds no object that nobody will release: its reference is in
\* an event under way, with an AT, or on its way back.
NothingLost ==
    \A j \in alive : \A r \in held[j] :
        r \in Queued(r.at) \cup inHand[r.at] \cup Returned(j)

\* What makes NothingLost inductive.  A reference is with the AT it was made
\* for, and that AT has met its JVM ...
OwnReferences ==
    /\ \A a \in ATs : \A r \in Queued(a) \cup inHand[a] :
          r.at = a /\ (r.vm \in alive => r.vm \in Met(a))
    /\ \A j \in alive : \A r \in held[j] : r.vm = j

\* ... an event has references to objects of its own JVM, and only a JVM that
\* has ended says goodbye ...
OwnEvents ==
    \A a \in ATs : \A e \in Range(events[a]) :
        /\ \A r \in Range(e.objects) : r.vm = e.vm
        /\ e.type \in {"JavaShutdown", "Destroyed"} => e.vm \notin alive

\* ... and an AT has registrations only with the JVMs it has met.
OwnRegistrations ==
    \A j \in alive, a \in ATs : j \notin Met(a) =>
        /\ \A f \in Families : wanted[j][a][f] = {}
        /\ \A p \in Range(requests[j]) : p.type \in {"Add", "Remove"} => p.window # a

OwnObjects == OwnReferences /\ OwnEvents /\ OwnRegistrations

IInv == TypeOK /\ OwnObjects /\ NothingLost

\* Nobody has a reference to an object of a running JVM that was released, and
\* when a call or a release reaches the JVM, its object is still there.
NoUseAfterRelease ==
    /\ \A a \in ATs : \A r \in Queued(a) \cup inHand[a] : r.vm \in alive => r \in held[r.vm]
    /\ \A j \in alive : requests[j] # <<>> /\ Request(j).type \in {"Release", "Call"} =>
          Request(j).object \in held[j]

\* An AT that has learned that a JVM is gone gets no more of its events, and
\* JavaShutdown and Destroyed come after all others, in this order.
ShutdownIsLast ==
    \A a \in ATs :
        /\ \A e \in Range(events[a]) : relation[a][e.vm] # "gone"
        /\ \A i, k \in DOMAIN events[a] :
              i < k /\ events[a][i].vm = events[a][k].vm =>
                  /\ events[a][i].type # "Destroyed"
                  /\ events[a][i].type = "JavaShutdown" => events[a][k].type = "Destroyed"

\* A callback that stays set takes effect in every JVM the AT has met.
EventuallyListens ==
    \A j \in JVMs, a \in ATs, t \in Types :
        (j \in Met(a) /\ t \in callback[a])
            ~> (a \in Listeners(j, t) \/ t \notin callback[a] \/ j \notin alive)

\* No object is kept alive for ever on behalf of an event.
EventuallyReleased ==
    \A j \in JVMs : \A n \in 1..MaxEvents :
        (\E r \in held[j] : r.event = n) ~> (\A r \in held[j] : r.event # n)
=============================================================================
