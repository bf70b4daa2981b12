----------------------- MODULE AccessBridgeEvents_proofs -----------------------
(***************************************************************************)
(* Theorems about events and their references, for every number of JVMs,   *)
(* ATs and events.                                                         *)
(***************************************************************************)
EXTENDS AccessBridgeEvents, DataLemmas, TLAPS

-----------------------------------------------------------------------------
(***************************************************************************)
(* Types of events, and the packages made of them.                         *)
(***************************************************************************)
\* Every type of event has a bit in one of the families.
LEMMA KnownTypes ==
    ASSUME NEW t \in EventTypes
    PROVE  Family(t) \in Families /\ Bit(t) \in Bits
<1>1. CASE t \in DOMAIN JavaEventTypes
  BY <1>1 DEF Family, Bit, Families, Bits
<1>2. CASE t \notin DOMAIN JavaEventTypes
  BY <1>2 DEF Family, Bit, Families, Bits, EventTypes
<1> QED BY <1>1, <1>2

\* The reference fields of an event package.
LEMMA ReferenceFields ==
    ASSUME NEW t
    PROVE  References(t) \in Seq({"Event", "Source", "Old", "New"})
<1>1. CASE t = "JavaShutdown"
  BY <1>1, EmptySeq DEF References
<1>2. CASE t \in {"PropertyChildChange", "PropertyActiveDescendentChange"}
  BY <1>2 DEF References
<1>3. CASE t \notin {"JavaShutdown", "PropertyChildChange", "PropertyActiveDescendentChange"}
  <2>1. References(t) = <<"Event", "Source">>
    BY <1>3, Zenon DEF References
  <2> QED BY <2>1
<1> QED BY <1>1, <1>2, <1>3

\* An event that j posts to a refers to objects of j that are held for a.
LEMMA EventIsPackage ==
    ASSUME NEW j \in JVMs, NEW a \in ATs, NEW t \in EventTypes, NEW n \in Nat
    PROVE  /\ Event(j, a, t, n) \in EventPackages
           /\ \A r \in Range(Event(j, a, t, n).objects) : r.vm = j /\ r.at = a
<1> DEFINE fields == References(t)
           objects == [i \in DOMAIN fields |-> Object(j, a, n, fields[i])]
<1>1. fields \in Seq({"Event", "Source", "Old", "New"})
  BY ReferenceFields
<1>2. DOMAIN fields = 1 .. Len(fields) /\ Len(fields) \in Nat
      /\ \A i \in DOMAIN fields : fields[i] \in {"Event", "Source", "Old", "New"}
  BY <1>1, ElementOfSeq, LenProperties
<1> HIDE DEF fields
<1>3. \A i \in DOMAIN fields : objects[i] \in Objects /\ objects[i].vm = j /\ objects[i].at = a
  BY <1>2 DEF Object, Objects
<1>4. objects \in Seq(Objects)
  BY <1>2, <1>3
<1>5. \A r \in Range(objects) : r.vm = j /\ r.at = a
  BY <1>3 DEF Range
<1>6. Event(j, a, t, n) = [type |-> t, vm |-> j, objects |-> objects]
  BY DEF Event, fields
<1> HIDE DEF objects
<1> QED BY <1>4, <1>5, <1>6 DEF EventPackages

\* Destroyed refers to nothing.
LEMMA DestroyedIsPackage ==
    ASSUME NEW j \in JVMs
    PROVE  Destroyed(j) \in EventPackages /\ Range(Destroyed(j).objects) = {}
<1>1. Destroyed(j).objects = <<>> /\ <<>> \in Seq(Objects)
  BY EmptySeq DEF Destroyed
<1> QED BY <1>1, RangeOfEmpty DEF Destroyed, EventPackages

\* The packages that ATs send.
LEMMA RequestsArePackages ==
    /\ \A a \in ATs, f \in Families, m \in SUBSET Bits :
          /\ AddNotification(a, f, m) \in PackagesToJVM
          /\ RemoveNotification(a, f, m) \in PackagesToJVM
    /\ \A r \in Objects : ReleaseObject(r) \in PackagesToJVM /\ CallOn(r) \in PackagesToJVM
  BY DEF AddNotification, RemoveNotification, ReleaseObject, CallOn,
         PackagesToJVM, Registrations, ObjectRequests

\* The references of an event are objects.
LEMMA EventObjects ==
    ASSUME NEW e \in EventPackages
    PROVE  Range(e.objects) \subseteq Objects
<1>1. e.objects \in Seq(Objects)
  BY DEF EventPackages
<1>2. Range(e.objects) = {e.objects[i] : i \in 1 .. Len(e.objects)}
  BY <1>1, RangeEquality
<1> QED BY <1>1, <1>2, ElementOfSeq

\* What an AT asks of a JVM that it meets.
LEMMA Greeting ==
    ASSUME TypeOK, NEW a \in ATs
    PROVE  LET ms == [i \in 1 .. 2 |-> LET f == <<"Java", "Accessibility">>[i]
                                      IN  AddNotification(a, f, Mask(f, callback[a]))]
           IN  /\ ms \in Seq(PackagesToJVM)
               /\ \A p \in Range(ms) : p.type = "Add" /\ p.window = a
<1> DEFINE Add(f) == AddNotification(a, f, Mask(f, callback[a]))
           ms == [i \in 1 .. 2 |-> Add(<<"Java", "Accessibility">>[i])]
<1>1. \A f \in Families : Mask(f, callback[a]) \subseteq Bits
  BY KnownTypes, TypesAreKnown DEF Mask, TypeOK
<1>2. \A f \in Families : Add(f) \in PackagesToJVM /\ Add(f).type = "Add" /\ Add(f).window = a
  BY <1>1, RequestsArePackages DEF AddNotification
<1>3. \A i \in 1 .. 2 : <<"Java", "Accessibility">>[i] \in Families
  BY DEF Families
<1> HIDE DEF Add
<1>4. \A i \in 1 .. 2 : ms[i] \in PackagesToJVM /\ ms[i].type = "Add" /\ ms[i].window = a
  BY <1>2, <1>3
<1>5. ms \in Seq(PackagesToJVM)
  BY <1>4
<1>6. \A p \in Range(ms) : p.type = "Add" /\ p.window = a
  BY <1>4 DEF Range
<1> QED BY <1>5, <1>6 DEF Add

\* The references of an event, as they are given back.
LEMMA Releases ==
    ASSUME NEW e \in EventPackages
    PROVE  LET ms == [i \in DOMAIN e.objects |-> ReleaseObject(e.objects[i])]
           IN  /\ ms \in Seq(PackagesToJVM)
               /\ Range(ms) = {ReleaseObject(r) : r \in Range(e.objects)}
<1> DEFINE ms == [i \in DOMAIN e.objects |-> ReleaseObject(e.objects[i])]
<1>1. e.objects \in Seq(Objects)
  BY DEF EventPackages
<1>2. /\ DOMAIN e.objects = 1 .. Len(e.objects) /\ Len(e.objects) \in Nat
      /\ \A i \in DOMAIN e.objects : e.objects[i] \in Objects
  BY <1>1, ElementOfSeq, LenProperties
<1>3. \A i \in DOMAIN e.objects : ms[i] \in PackagesToJVM
  BY <1>2, RequestsArePackages
<1>4. ms \in Seq(PackagesToJVM)
  <2>1. PICK n \in Nat : n = Len(e.objects) /\ DOMAIN e.objects = 1 .. n
    BY <1>2
  <2>2. ms = [i \in 1 .. n |-> ReleaseObject(e.objects[i])]
    BY <2>1, Zenon
  <2>3. \A i \in 1 .. n : ReleaseObject(e.objects[i]) \in PackagesToJVM
    BY <1>3, <2>1
  <2>4. [i \in 1 .. n |-> ReleaseObject(e.objects[i])] \in Seq(PackagesToJVM)
    BY <2>3
  <2> QED BY <2>2, <2>4, Zenon
<1>5. Range(ms) = {ReleaseObject(r) : r \in Range(e.objects)}
  <2>1. Range(ms) = {ms[i] : i \in DOMAIN e.objects}
    BY DEF Range
  <2>2. Range(e.objects) = {e.objects[i] : i \in DOMAIN e.objects}
    BY DEF Range
  <2> QED BY <2>1, <2>2
<1> QED BY <1>4, <1>5

\* What a JVM that shuts down posts to a.
LEMMA Farewell ==
    ASSUME NEW j \in JVMs, NEW a \in ATs, NEW q \in Seq(EventPackages)
    PROVE  LET ms == IF a \in Listeners(j, "JavaShutdown")
                     THEN <<Event(j, a, "JavaShutdown", 0), Destroyed(j)>>
                     ELSE <<Destroyed(j)>>
           IN  /\ q \o ms \in Seq(EventPackages)
               /\ Range(q \o ms) \subseteq
                    Range(q) \cup {Event(j, a, "JavaShutdown", 0), Destroyed(j)}
               /\ Range(q) \subseteq Range(q \o ms)
<1> DEFINE S == Event(j, a, "JavaShutdown", 0)
           D == Destroyed(j)
           ms == IF a \in Listeners(j, "JavaShutdown") THEN <<S, D>> ELSE <<D>>
<1>1. "JavaShutdown" \in EventTypes
  BY DEF EventTypes, JavaEventTypes
<1>2. S \in EventPackages /\ D \in EventPackages
  BY <1>1, EventIsPackage, DestroyedIsPackage
<1> HIDE DEF S, D
<1>3. <<D>> \in Seq(EventPackages) /\ Range(<<D>>) = {D}
  BY <1>2, RangeOfOne
<1>4. <<S, D>> \in Seq(EventPackages) /\ Range(<<S, D>>) = {S, D}
  BY <1>2, RangeOfTwo
<1>5. ms \in Seq(EventPackages) /\ Range(ms) \subseteq {S, D}
  BY <1>3, <1>4
<1> HIDE DEF ms
<1>6. q \o ms \in Seq(EventPackages) /\ Range(q \o ms) = Range(q) \cup Range(ms)
  BY <1>5, RangeOfPosted
<1>7. /\ q \o ms \in Seq(EventPackages)
      /\ Range(q \o ms) \subseteq Range(q) \cup {S, D}
      /\ Range(q) \subseteq Range(q \o ms)
  BY <1>5, <1>6
<1> QED BY <1>7 DEF ms, S, D

-----------------------------------------------------------------------------
(***************************************************************************)
(* The queues after each kind of step.                                     *)
(***************************************************************************)
\* The packages ms are sent to the JVMs of J.
LEMMA Sent ==
    ASSUME TypeOK, NEW J, NEW ms \in Seq(PackagesToJVM), requests' = Send(J, ms)
    PROVE  /\ requests' \in [JVMs -> Seq(PackagesToJVM)]
           /\ \A j \in JVMs : Range(requests'[j]) =
                 Range(requests[j]) \cup (IF j \in J \cap alive THEN Range(ms) ELSE {})
<1>1. ASSUME NEW j \in JVMs
      PROVE  /\ requests[j] \in Seq(PackagesToJVM)
             /\ requests[j] \o ms \in Seq(PackagesToJVM)
             /\ Range(requests[j] \o ms) = Range(requests[j]) \cup Range(ms)
  <2>1. requests[j] \in Seq(PackagesToJVM)
    BY <1>1 DEF TypeOK
  <2> QED BY <2>1, RangeOfPosted
<1> QED BY <1>1 DEF Send

\* a takes its oldest event.
LEMMA EventTaken ==
    ASSUME TypeOK, NEW a \in ATs, EventFrom(a), Took(a)
    PROVE  /\ events' \in [ATs -> Seq(EventPackages)]
           /\ Head(events[a]) \in EventPackages
           /\ Range(events[a]) = {Head(events[a])} \cup Range(events'[a])
           /\ \A b \in ATs : b # a => events'[b] = events[b]
<1>1. events[a] \in Seq(EventPackages) /\ events[a] # <<>>
  BY DEF TypeOK, EventFrom
<1>2. /\ Tail(events[a]) \in Seq(EventPackages)
      /\ Head(events[a]) \in EventPackages
      /\ Range(events[a]) = {Head(events[a])} \cup Range(Tail(events[a]))
  BY <1>1, RangeOfTail, HeadTailProperties
<1> QED BY <1>2 DEF TypeOK, Took

\* j takes its oldest request.
LEMMA RequestTaken ==
    ASSUME TypeOK, NEW j \in JVMs, Served(j)
    PROVE  /\ requests' \in [JVMs -> Seq(PackagesToJVM)]
           /\ Request(j) \in PackagesToJVM
           /\ Range(requests[j]) = {Request(j)} \cup Range(requests'[j])
           /\ \A k \in JVMs : k # j => requests'[k] = requests[k]
<1>1. requests[j] \in Seq(PackagesToJVM) /\ requests[j] # <<>>
  BY DEF TypeOK, Served
<1>2. /\ Tail(requests[j]) \in Seq(PackagesToJVM)
      /\ Request(j) \in PackagesToJVM
      /\ Range(requests[j]) = {Request(j)} \cup Range(Tail(requests[j]))
  BY <1>1, RangeOfTail, HeadTailProperties DEF Request
<1> QED BY <1>2 DEF TypeOK, Served

-----------------------------------------------------------------------------
(***************************************************************************)
(* Type correctness.                                                       *)
(***************************************************************************)
\* The initial state is well typed ...
LEMMA TypingInit == Init => TypeOK
<1>1. /\ <<>> \in Seq(PackagesToJVM)
      /\ <<>> \in Seq(EventPackages)
  BY EmptySeq
<1> QED BY <1>1 DEF Init, TypeOK

\* ... and every step keeps the types.
LEMMA TypingStep == TypeOK /\ [Next]_vars => TypeOK'
<1> SUFFICES ASSUME TypeOK, [Next]_vars PROVE TypeOK'
  OBVIOUS
<1>1. ASSUME NEW a \in ATs, NEW t \in Types, SetCallback(a, t) PROVE TypeOK'
  <2>1. Family(t) \in Families /\ Bit(t) \in Bits
    BY KnownTypes, TypesAreKnown
  <2>2. AddNotification(a, Family(t), {Bit(t)}) \in PackagesToJVM
    BY <2>1, RequestsArePackages
  <2>3. <<AddNotification(a, Family(t), {Bit(t)})>> \in Seq(PackagesToJVM)
    BY <2>2, RangeOfOne
  <2>4. requests' \in [JVMs -> Seq(PackagesToJVM)]
    BY <1>1, <2>3, Sent DEF SetCallback
  <2>5. callback' \in [ATs -> SUBSET Types]
    BY <1>1 DEF SetCallback, TypeOK
  <2> QED BY <1>1, <2>4, <2>5 DEF SetCallback, TypeOK
<1>2. ASSUME NEW a \in ATs, NEW t \in Types, ClearCallback(a, t) PROVE TypeOK'
  <2>1. Family(t) \in Families /\ Bit(t) \in Bits
    BY KnownTypes, TypesAreKnown
  <2>2. RemoveNotification(a, Family(t), {Bit(t)}) \in PackagesToJVM
    BY <2>1, RequestsArePackages
  <2>3. <<RemoveNotification(a, Family(t), {Bit(t)})>> \in Seq(PackagesToJVM)
    BY <2>2, RangeOfOne
  <2>4. requests' \in [JVMs -> Seq(PackagesToJVM)]
    BY <1>2, <2>3, Sent DEF ClearCallback
  <2>5. callback' \in [ATs -> SUBSET Types]
    BY <1>2 DEF ClearCallback, TypeOK
  <2> QED BY <1>2, <2>4, <2>5 DEF ClearCallback, TypeOK
<1>3. ASSUME NEW a \in ATs, NEW j \in JVMs, Meet(a, j) PROVE TypeOK'
  <2>1. PICK ms \in Seq(PackagesToJVM) : requests' = Send({j}, ms)
    BY <1>3, Greeting DEF Meet
  <2>2. requests' \in [JVMs -> Seq(PackagesToJVM)]
    BY <2>1, Sent
  <2>3. relation' \in [ATs -> [JVMs -> {"stranger", "met", "gone"}]]
    BY <1>3 DEF Meet, TypeOK
  <2> QED BY <1>3, <2>2, <2>3 DEF Meet, TypeOK
<1>4. ASSUME NEW a \in ATs, CallBack(a) PROVE TypeOK'
  <2>1. /\ events' \in [ATs -> Seq(EventPackages)]
        /\ Head(events[a]) \in EventPackages
    BY <1>4, EventTaken DEF CallBack
  <2>2. Range(Head(events[a]).objects) \subseteq Objects
    BY <2>1, EventObjects
  <2>3. inHand' \in [ATs -> SUBSET Objects]
    BY <1>4, <2>2 DEF CallBack, TypeOK
  <2> QED BY <1>4, <2>1, <2>3 DEF CallBack, TypeOK
<1>5. ASSUME NEW a \in ATs, NoCallback(a) PROVE TypeOK'
  <2>1. /\ events' \in [ATs -> Seq(EventPackages)]
        /\ Head(events[a]) \in EventPackages
    BY <1>5, EventTaken DEF NoCallback
  <2> DEFINE e == Head(events[a])
             ms == [i \in DOMAIN e.objects |-> ReleaseObject(e.objects[i])]
  <2>2. ms \in Seq(PackagesToJVM) /\ requests' = Send({e.vm}, ms)
    BY <1>5, <2>1, Releases DEF NoCallback
  <2> HIDE DEF ms
  <2>3. requests' \in [JVMs -> Seq(PackagesToJVM)]
    BY <2>2, Sent
  <2> QED BY <1>5, <2>1, <2>3 DEF NoCallback, TypeOK
<1>6. ASSUME NEW a \in ATs, ReceiveDestroyed(a) PROVE TypeOK'
  <2>1. /\ events' \in [ATs -> Seq(EventPackages)]
        /\ Head(events[a]) \in EventPackages
    BY <1>6, EventTaken DEF ReceiveDestroyed
  <2>2. Head(events[a]).vm \in JVMs
    BY <2>1 DEF EventPackages
  <2>3. relation' \in [ATs -> [JVMs -> {"stranger", "met", "gone"}]]
    BY <1>6, <2>2 DEF ReceiveDestroyed, TypeOK
  <2> QED BY <1>6, <2>1, <2>3 DEF ReceiveDestroyed, TypeOK
<1>7. ASSUME NEW a \in ATs, NEW r \in inHand[a], ReleaseJavaObject(a, r) \/ Call(a, r)
      PROVE  TypeOK'
  <2>1. r \in Objects
    BY DEF TypeOK
  <2>2. /\ <<ReleaseObject(r)>> \in Seq(PackagesToJVM)
        /\ <<CallOn(r)>> \in Seq(PackagesToJVM)
    BY <2>1, RequestsArePackages, RangeOfOne
  <2>3. requests' \in [JVMs -> Seq(PackagesToJVM)]
    BY <1>7, <2>2, Sent DEF ReleaseJavaObject, Call
  <2>4. inHand' \in [ATs -> SUBSET Objects]
    BY <1>7 DEF ReleaseJavaObject, Call, TypeOK
  <2> QED BY <1>7, <2>3, <2>4 DEF ReleaseJavaObject, Call, TypeOK
<1>8. ASSUME NEW j \in JVMs, ServeRegistration(j) PROVE TypeOK'
  <2>1. requests' \in [JVMs -> Seq(PackagesToJVM)] /\ Request(j) \in PackagesToJVM
    BY <1>8, RequestTaken DEF ServeRegistration
  <2>2. /\ Request(j).window \in ATs
        /\ Request(j).family \in Families
        /\ Request(j).mask \subseteq Bits
    BY <1>8, <2>1 DEF ServeRegistration, PackagesToJVM, Registrations, ObjectRequests
  <2>3. wanted' \in [JVMs -> [ATs -> [Families -> SUBSET Bits]]]
    BY <1>8, <2>2 DEF ServeRegistration, TypeOK
  <2> QED BY <1>8, <2>1, <2>3 DEF ServeRegistration, TypeOK
<1>9. ASSUME NEW j \in JVMs, ServeObject(j) PROVE TypeOK'
  <2>1. requests' \in [JVMs -> Seq(PackagesToJVM)]
    BY <1>9, RequestTaken DEF ServeObject
  <2>2. held' \in [JVMs -> SUBSET Objects]
    BY <1>9 DEF ServeObject, TypeOK
  <2> QED BY <1>9, <2>1, <2>2 DEF ServeObject, TypeOK
<1>10. ASSUME NEW j \in JVMs, NEW t \in Types, Post(j, t) PROVE TypeOK'
  <2>1. posted[j] + 1 \in Nat /\ posted' \in [JVMs -> Nat]
    BY <1>10 DEF Post, TypeOK
  <2>2. \A a \in ATs : Event(j, a, t, posted[j] + 1) \in EventPackages
    BY <2>1, EventIsPackage, TypesAreKnown
  <2>3. \A a \in ATs : Range(Event(j, a, t, posted[j] + 1).objects) \subseteq Objects
    BY <2>2, EventObjects
  <2>4. events' \in [ATs -> Seq(EventPackages)]
    <3>1. \A a \in ATs : Append(events[a], Event(j, a, t, posted[j] + 1)) \in Seq(EventPackages)
      BY <2>2, RangeOfAppend DEF TypeOK
    <3> QED BY <1>10, <3>1 DEF Post, TypeOK
  <2>5. held' \in [JVMs -> SUBSET Objects]
    <3>1. UNION {Range(Event(j, a, t, posted[j] + 1).objects) : a \in Listeners(j, t)}
             \subseteq Objects
      BY <2>3 DEF Listeners
    <3> QED BY <1>10, <3>1 DEF Post, TypeOK
  <2> QED BY <1>10, <2>1, <2>4, <2>5 DEF Post, TypeOK
<1>11. ASSUME NEW j \in JVMs, ShutDown(j) \/ Crash(j) PROVE TypeOK'
  <2>1. End(j)
    BY <1>11 DEF ShutDown, Crash
  <2>2. events' \in [ATs -> Seq(EventPackages)]
    <3>1. CASE ShutDown(j)
      BY <3>1, Farewell DEF ShutDown, TypeOK
    <3>2. CASE Crash(j)
      BY <3>2 DEF Crash, TypeOK
    <3> QED BY <1>11, <3>1, <3>2
  <2>3. requests' \in [JVMs -> Seq(PackagesToJVM)]
    BY <2>1, EmptySeq DEF End, TypeOK
  <2>4. wanted' \in [JVMs -> [ATs -> [Families -> SUBSET Bits]]]
    BY <2>1 DEF End, TypeOK
  <2>5. alive' \subseteq JVMs /\ held' \in [JVMs -> SUBSET Objects]
    BY <2>1 DEF End, TypeOK
  <2> QED BY <2>1, <2>2, <2>3, <2>4, <2>5 DEF End, TypeOK
<1>12. CASE UNCHANGED vars
  BY <1>12 DEF vars, TypeOK
<1> QED BY <1>1, <1>2, <1>3, <1>4, <1>5, <1>6, <1>7, <1>8, <1>9, <1>10, <1>11, <1>12
        DEF Next, HandleEvent, HandleRequest, ReleaseOne

\* Queues, registrations and references are what the header says they are,
\* whatever the bridges do.
THEOREM TypeCorrect == Spec => []TypeOK
<1>1. Init => TypeOK
  BY TypingInit
<1>2. TypeOK /\ [Next]_vars => TypeOK'
  BY TypingStep
<1> QED BY <1>1, <1>2, PTL DEF Spec

-----------------------------------------------------------------------------
(***************************************************************************)
(* Nothing is lost.                                                        *)
(***************************************************************************)
\* What an event refers to is queued, and what a release names is returned.
LEMMA WhereReferencesAre ==
    /\ \A a \in ATs : \A r : r \in Queued(a) <=> \E e \in Range(events[a]) : r \in Range(e.objects)
    /\ \A j \in JVMs : \A r : r \in Returned(j) <=>
          \E p \in Range(requests[j]) : p.type = "Release" /\ p.object = r
  BY DEF Queued, Returned

\* Sending requests loses nothing, if registrations go to JVMs that were met.
LEMMA SendingLosesNothing ==
    ASSUME IInv, NEW J, NEW ms \in Seq(PackagesToJVM), requests' = Send(J, ms),
           UNCHANGED <<alive, wanted, events, held, inHand>>,
           \A a \in ATs : Met(a) \subseteq Met(a)',
           \A p \in Range(ms), j \in J, a \in ATs :
              p.type \in {"Add", "Remove"} /\ p.window = a => j \in Met(a)'
    PROVE  OwnObjects' /\ NothingLost'
<1>1. \A j \in JVMs : Range(requests'[j]) =
         Range(requests[j]) \cup (IF j \in J \cap alive THEN Range(ms) ELSE {})
  BY Sent DEF IInv
<1>2. alive \subseteq JVMs /\ \A j \in alive : held[j] \subseteq Objects
  BY DEF IInv, TypeOK
<1>3. \A a \in ATs : Queued(a)' = Queued(a)
  BY DEF Queued
<1>4. \A j \in JVMs : Returned(j) \subseteq Returned(j)'
  BY <1>1 DEF Returned
<1>5. OwnReferences'
  BY <1>3 DEF IInv, OwnObjects, OwnReferences
<1>6. OwnEvents'
  BY DEF IInv, OwnObjects, OwnEvents
<1>7. OwnRegistrations'
  BY <1>1, <1>2 DEF IInv, OwnObjects, OwnRegistrations
<1>8. NothingLost'
  BY <1>2, <1>3, <1>4 DEF IInv, NothingLost, Objects
<1> QED BY <1>5, <1>6, <1>7, <1>8 DEF OwnObjects

\* The registrations that SetCallback, ClearCallback and Meet send.
LEMMA AskingLosesNothing ==
    ASSUME IInv, NEW a \in ATs,
           \/ \E t \in Types : SetCallback(a, t) \/ ClearCallback(a, t)
           \/ \E j \in JVMs : Meet(a, j)
    PROVE  OwnObjects' /\ NothingLost'
<1>1. ASSUME NEW t \in Types, SetCallback(a, t) \/ ClearCallback(a, t)
      PROVE  OwnObjects' /\ NothingLost'
  <2>1. Family(t) \in Families /\ Bit(t) \in Bits
    BY KnownTypes, TypesAreKnown
  <2>2. PICK p \in PackagesToJVM : p.window = a /\ requests' = Send(Met(a), <<p>>)
    BY <1>1, <2>1, RequestsArePackages
       DEF SetCallback, ClearCallback, AddNotification, RemoveNotification
  <2> DEFINE ms == <<p>>
  <2>3. ms \in Seq(PackagesToJVM) /\ Range(ms) = {p} /\ requests' = Send(Met(a), ms)
    BY <2>2, RangeOfOne
  <2> HIDE DEF ms
  <2>4. UNCHANGED <<alive, relation, wanted, events, held, inHand>>
    BY <1>1 DEF SetCallback, ClearCallback
  <2>5. \A b \in ATs : Met(b)' = Met(b)
    BY <2>4 DEF Met
  <2>6. \A q \in Range(ms), j \in Met(a), b \in ATs :
           q.type \in {"Add", "Remove"} /\ q.window = b => j \in Met(b)'
    BY <2>2, <2>3, <2>5
  <2> QED BY <2>3, <2>4, <2>5, <2>6, SendingLosesNothing
<1>2. ASSUME NEW j \in JVMs, Meet(a, j)
      PROVE  OwnObjects' /\ NothingLost'
  <2> DEFINE ms == [i \in 1 .. 2 |-> LET f == <<"Java", "Accessibility">>[i]
                                     IN  AddNotification(a, f, Mask(f, callback[a]))]
  <2>1. ms \in Seq(PackagesToJVM) /\ \A p \in Range(ms) : p.window = a
    BY Greeting DEF IInv
  <2>2. requests' = Send({j}, ms)
    BY <1>2 DEF Meet
  <2> HIDE DEF ms
  <2>3. UNCHANGED <<alive, wanted, events, held, inHand>>
    BY <1>2 DEF Meet
  <2>4. \A b \in ATs : Met(b) \subseteq Met(b)'
    BY <1>2 DEF Meet, Met, IInv, TypeOK
  <2>5. j \in Met(a)'
    BY <1>2 DEF Meet, Met, IInv, TypeOK
  <2>6. \A p \in Range(ms), k \in {j}, b \in ATs :
           p.type \in {"Add", "Remove"} /\ p.window = b => k \in Met(b)'
    BY <2>1, <2>5
  <2> QED BY <2>1, <2>2, <2>3, <2>4, <2>6, SendingLosesNothing
<1> QED BY <1>1, <1>2

\* The callback takes over the references of the event.
LEMMA CallBackLosesNothing ==
    ASSUME IInv, NEW a \in ATs, CallBack(a)
    PROVE  OwnObjects' /\ NothingLost'
<1> DEFINE e == Head(events[a])
<1>1. /\ e \in EventPackages
      /\ Range(events[a]) = {e} \cup Range(events'[a])
      /\ \A b \in ATs : b # a => events'[b] = events[b]
  BY EventTaken DEF CallBack, IInv
<1>2. UNCHANGED <<alive, relation, requests, wanted, held>>
  BY DEF CallBack
<1>3. \A b \in ATs : b # a => inHand'[b] = inHand[b]
  BY DEF CallBack, IInv, TypeOK
<1>4. inHand'[a] = IF e.type = "JavaShutdown" THEN {r \in inHand[a] : r.vm # e.vm}
                                             ELSE inHand[a] \cup Range(e.objects)
  BY DEF CallBack, IInv, TypeOK
<1>5. /\ \A r \in Range(e.objects) : r.vm = e.vm
      /\ e.type = "JavaShutdown" => e.vm \notin alive
  BY <1>1 DEF IInv, OwnObjects, OwnEvents
<1> HIDE DEF e
<1>6. \A b \in ATs : Met(b)' = Met(b)
  BY <1>2 DEF Met
<1>7. \A b \in ATs : (Queued(b) \cup inHand[b])' \subseteq Queued(b) \cup inHand[b]
  <2>1. (Queued(a) \cup inHand[a])' \subseteq Queued(a) \cup inHand[a]
    BY <1>1, <1>4 DEF Queued
  <2>2. \A b \in ATs : b # a => (Queued(b) \cup inHand[b])' = Queued(b) \cup inHand[b]
    BY <1>1, <1>3 DEF Queued
  <2> QED BY <2>1, <2>2
<1>8. \A b \in ATs : \A r \in Queued(b) \cup inHand[b] :
         r.vm \in alive => r \in (Queued(b) \cup inHand[b])'
  <2>1. \A r \in Queued(a) : r \in Range(e.objects) \cup Queued(a)'
    BY <1>1 DEF Queued
  <2>2. \A r \in Queued(a) \cup inHand[a] :
           r.vm \in alive => r \in (Queued(a) \cup inHand[a])'
    BY <2>1, <1>4, <1>5
  <2>3. \A b \in ATs : b # a => (Queued(b) \cup inHand[b])' = Queued(b) \cup inHand[b]
    BY <1>1, <1>3 DEF Queued
  <2> QED BY <2>2, <2>3
<1>9. OwnReferences'
  BY <1>2, <1>6, <1>7 DEF IInv, OwnObjects, OwnReferences
<1>10. OwnEvents'
  <2>1. \A b \in ATs : Range(events'[b]) \subseteq Range(events[b])
    BY <1>1
  <2> QED BY <1>2, <2>1 DEF IInv, OwnObjects, OwnEvents
<1>11. OwnRegistrations'
  BY <1>2, <1>6 DEF IInv, OwnObjects, OwnRegistrations
<1>12. NothingLost'
  <2>1. \A j \in JVMs : Returned(j)' = Returned(j)
    BY <1>2 DEF Returned
  <2>2. alive \subseteq JVMs /\ \A j \in alive : \A r \in held[j] : r.at \in ATs
    BY DEF IInv, TypeOK, Objects
  <2>3. ASSUME NEW j \in alive', NEW r \in held'[j]
        PROVE  r \in (Queued(r.at) \cup inHand[r.at] \cup Returned(j))'
    <3>1. j \in alive /\ j \in JVMs /\ r \in held[j] /\ r.at \in ATs
      BY <2>2, <2>3, <1>2
    <3>2. r \in Queued(r.at) \cup inHand[r.at] \cup Returned(j)
      BY <3>1 DEF IInv, NothingLost
    <3>3. r.vm = j
      BY <3>1 DEF IInv, OwnObjects, OwnReferences
    <3> QED BY <3>1, <3>2, <3>3, <2>1, <1>8
  <2> QED BY <2>3 DEF NothingLost
<1> QED BY <1>9, <1>10, <1>11, <1>12 DEF OwnObjects

\* Without a callback, each reference of the event is on its way back.
LEMMA NoCallbackLosesNothing ==
    ASSUME IInv, NEW a \in ATs, NoCallback(a)
    PROVE  OwnObjects' /\ NothingLost'
<1> DEFINE e == Head(events[a])
           ms == [i \in DOMAIN e.objects |-> ReleaseObject(e.objects[i])]
<1>1. /\ e \in EventPackages
      /\ Range(events[a]) = {e} \cup Range(events'[a])
      /\ \A b \in ATs : b # a => events'[b] = events[b]
  BY EventTaken DEF NoCallback, IInv
<1>2. UNCHANGED <<alive, relation, wanted, held, inHand>>
  BY DEF NoCallback
<1>3. ms \in Seq(PackagesToJVM) /\ Range(ms) = {ReleaseObject(r) : r \in Range(e.objects)}
  BY <1>1, Releases
<1>4. requests' = Send({e.vm}, ms)
  BY DEF NoCallback
<1>5. \A r \in Range(e.objects) : r.vm = e.vm
  BY <1>1 DEF IInv, OwnObjects, OwnEvents
<1> HIDE DEF e, ms
<1>6. \A j \in JVMs : Range(requests'[j]) =
         Range(requests[j]) \cup (IF j \in {e.vm} \cap alive THEN Range(ms) ELSE {})
  BY <1>3, <1>4, Sent DEF IInv
<1>7. \A b \in ATs : Met(b)' = Met(b)
  BY <1>2 DEF Met
<1>8. \A b \in ATs : Range(events'[b]) \subseteq Range(events[b])
  BY <1>1
<1>9. OwnReferences'
  <2>1. \A b \in ATs : Queued(b)' \subseteq Queued(b)
    BY <1>8 DEF Queued
  <2> QED BY <1>2, <1>7, <2>1 DEF IInv, OwnObjects, OwnReferences
<1>10. OwnEvents'
  BY <1>2, <1>8 DEF IInv, OwnObjects, OwnEvents
<1>11. OwnRegistrations'
  <2>1. \A p \in Range(ms) : p.type \notin {"Add", "Remove"}
    BY <1>3 DEF ReleaseObject
  <2>2. alive \subseteq JVMs
    BY DEF IInv, TypeOK
  <2> QED BY <1>2, <1>6, <1>7, <2>1, <2>2 DEF IInv, OwnObjects, OwnRegistrations
<1>12. NothingLost'
  <2>1. \A j \in JVMs : Returned(j) \subseteq Returned(j)'
    BY <1>6 DEF Returned
  <2>2. alive \subseteq JVMs /\ \A j \in alive : \A r \in held[j] : r.at \in ATs
    BY DEF IInv, TypeOK, Objects
  <2>3. \A b \in ATs : \A r \in Queued(b) : r \in Range(e.objects) \cup Queued(b)'
    BY <1>1 DEF Queued
  <2>4. ASSUME NEW j \in alive, NEW r \in Range(e.objects), r.vm = j
        PROVE  r \in Returned(j)'
    <3>1. ReleaseObject(r) \in Range(requests'[j])
      BY <1>3, <1>5, <1>6, <2>2, <2>4
    <3> QED BY <3>1 DEF Returned, ReleaseObject
  <2>5. ASSUME NEW j \in alive', NEW r \in held'[j]
        PROVE  r \in (Queued(r.at) \cup inHand[r.at] \cup Returned(j))'
    <3>1. j \in alive /\ j \in JVMs /\ r \in held[j] /\ r.at \in ATs
      BY <2>2, <2>5, <1>2
    <3>2. r \in Queued(r.at) \cup inHand[r.at] \cup Returned(j)
      BY <3>1 DEF IInv, NothingLost
    <3>3. r.vm = j
      BY <3>1 DEF IInv, OwnObjects, OwnReferences
    <3> QED BY <3>1, <3>2, <3>3, <2>1, <2>3, <2>4, <1>2
  <2> QED BY <2>5 DEF NothingLost
<1> QED BY <1>9, <1>10, <1>11, <1>12 DEF OwnObjects

\* A JVM that says Destroyed has ended: there is nothing of it to lose.
LEMMA DestroyedLosesNothing ==
    ASSUME IInv, NEW a \in ATs, ReceiveDestroyed(a)
    PROVE  OwnObjects' /\ NothingLost'
<1> DEFINE e == Head(events[a])
<1>1. /\ e \in EventPackages
      /\ Range(events[a]) = {e} \cup Range(events'[a])
      /\ \A b \in ATs : b # a => events'[b] = events[b]
  BY EventTaken DEF ReceiveDestroyed, IInv
<1>2. UNCHANGED <<alive, requests, wanted, held, inHand>>
  BY DEF ReceiveDestroyed
<1>3. e.vm \notin alive /\ \A r \in Range(e.objects) : r.vm = e.vm
  BY <1>1 DEF ReceiveDestroyed, IInv, OwnObjects, OwnEvents
<1>4. \A b \in ATs, j \in JVMs : j # e.vm => (j \in Met(b)' <=> j \in Met(b))
  BY DEF ReceiveDestroyed, Met, IInv, TypeOK
<1> HIDE DEF e
<1>5. alive \subseteq JVMs /\ \A j \in alive : \A r \in held[j] : r.at \in ATs
  BY DEF IInv, TypeOK, Objects
<1>6. \A b \in ATs : Range(events'[b]) \subseteq Range(events[b])
  BY <1>1
<1>7. \A b \in ATs : Queued(b)' \subseteq Queued(b)
  BY <1>6 DEF Queued
<1>8. OwnReferences'
  BY <1>2, <1>3, <1>4, <1>5, <1>7 DEF IInv, OwnObjects, OwnReferences
<1>9. OwnEvents'
  BY <1>2, <1>6 DEF IInv, OwnObjects, OwnEvents
<1>10. OwnRegistrations'
  BY <1>2, <1>3, <1>4, <1>5 DEF IInv, OwnObjects, OwnRegistrations
<1>11. NothingLost'
  <2>1. \A b \in ATs : \A r \in Queued(b) : r \in Range(e.objects) \cup Queued(b)'
    BY <1>1 DEF Queued
  <2>2. \A j \in JVMs : Returned(j)' = Returned(j)
    BY <1>2 DEF Returned
  <2>3. ASSUME NEW j \in alive', NEW r \in held'[j]
        PROVE  r \in (Queued(r.at) \cup inHand[r.at] \cup Returned(j))'
    <3>1. j \in alive /\ j \in JVMs /\ r \in held[j] /\ r.at \in ATs
      BY <1>2, <1>5, <2>3
    <3>2. r \in Queued(r.at) \cup inHand[r.at] \cup Returned(j)
      BY <3>1 DEF IInv, NothingLost
    <3>3. r.vm = j
      BY <3>1 DEF IInv, OwnObjects, OwnReferences
    <3> QED BY <3>1, <3>2, <3>3, <1>2, <1>3, <2>1, <2>2
  <2> QED BY <2>3 DEF NothingLost
<1> QED BY <1>8, <1>9, <1>10, <1>11 DEF OwnObjects

\* A call sends no registration and moves no reference.
LEMMA CallLosesNothing ==
    ASSUME IInv, NEW a \in ATs, NEW r \in inHand[a], Call(a, r)
    PROVE  OwnObjects' /\ NothingLost'
<1> DEFINE ms == <<CallOn(r)>>
<1>1. r \in Objects
  BY DEF IInv, TypeOK
<1>2. ms \in Seq(PackagesToJVM) /\ Range(ms) = {CallOn(r)}
  BY <1>1, RequestsArePackages, RangeOfOne
<1>3. requests' = Send({r.vm} \cap Met(a), ms)
  BY DEF Call
<1> HIDE DEF ms
<1>4. UNCHANGED <<alive, relation, wanted, events, held, inHand>>
  BY DEF Call
<1>5. \A b \in ATs : Met(b)' = Met(b)
  BY <1>4 DEF Met
<1>6. \A p \in Range(ms) : p.type \notin {"Add", "Remove"}
  BY <1>2 DEF CallOn
<1> QED BY <1>2, <1>3, <1>4, <1>5, <1>6, SendingLosesNothing

\* A reference that is released is on its way back, because the AT has met
\* the JVM whose object it is.
LEMMA ReleaseLosesNothing ==
    ASSUME IInv, NEW a \in ATs, NEW r \in inHand[a], ReleaseJavaObject(a, r)
    PROVE  OwnObjects' /\ NothingLost'
<1> DEFINE ms == <<ReleaseObject(r)>>
<1>1. r \in Objects
  BY DEF IInv, TypeOK
<1>2. ms \in Seq(PackagesToJVM) /\ Range(ms) = {ReleaseObject(r)}
  BY <1>1, RequestsArePackages, RangeOfOne
<1>3. requests' = Send({r.vm} \cap Met(a), ms)
  BY DEF ReleaseJavaObject
<1> HIDE DEF ms
<1>4. /\ UNCHANGED <<alive, relation, wanted, events, held>>
      /\ inHand' = [inHand EXCEPT ![a] = @ \ {r}]
  BY DEF ReleaseJavaObject
<1>5. \A b \in ATs : inHand'[b] \subseteq inHand[b] /\ inHand[b] \subseteq inHand'[b] \cup {r}
  BY <1>4 DEF IInv, TypeOK
<1>6. \A b \in ATs : Met(b)' = Met(b) /\ Queued(b)' = Queued(b)
  BY <1>4 DEF Met, Queued
<1>7. \A j \in JVMs : Range(requests'[j]) =
         Range(requests[j]) \cup (IF j \in ({r.vm} \cap Met(a)) \cap alive THEN Range(ms) ELSE {})
  BY <1>2, <1>3, Sent DEF IInv
<1>8. alive \subseteq JVMs /\ \A j \in alive : \A s \in held[j] : s.at \in ATs
  BY DEF IInv, TypeOK, Objects
<1>9. OwnReferences'
  BY <1>4, <1>5, <1>6 DEF IInv, OwnObjects, OwnReferences
<1>10. OwnEvents'
  BY <1>4 DEF IInv, OwnObjects, OwnEvents
<1>11. OwnRegistrations'
  <2>1. \A p \in Range(ms) : p.type \notin {"Add", "Remove"}
    BY <1>2 DEF ReleaseObject
  <2> QED BY <1>4, <1>6, <1>7, <1>8, <2>1 DEF IInv, OwnObjects, OwnRegistrations
<1>12. NothingLost'
  <2>1. \A j \in JVMs : Returned(j) \subseteq Returned(j)'
    BY <1>7 DEF Returned
  <2>2. r.vm \in alive => r \in Returned(r.vm)'
    <3>1. r.vm \in alive => r.vm \in Met(a)
      BY DEF IInv, OwnObjects, OwnReferences
    <3>2. r.vm \in alive => ReleaseObject(r) \in Range(requests'[r.vm])
      BY <3>1, <1>2, <1>7, <1>8
    <3> QED BY <3>2 DEF Returned, ReleaseObject
  <2>3. ASSUME NEW j \in alive', NEW s \in held'[j]
        PROVE  s \in (Queued(s.at) \cup inHand[s.at] \cup Returned(j))'
    <3>1. j \in alive /\ j \in JVMs /\ s \in held[j] /\ s.at \in ATs
      BY <1>4, <1>8, <2>3
    <3>2. s \in Queued(s.at) \cup inHand[s.at] \cup Returned(j)
      BY <3>1 DEF IInv, NothingLost
    <3>3. s.vm = j
      BY <3>1 DEF IInv, OwnObjects, OwnReferences
    <3> QED BY <3>1, <3>2, <3>3, <1>5, <1>6, <2>1, <2>2
  <2> QED BY <2>3 DEF NothingLost
<1> QED BY <1>9, <1>10, <1>11, <1>12 DEF OwnObjects

\* A registration is taken from the queue into the mask of its window.
LEMMA RegistrationLosesNothing ==
    ASSUME IInv, NEW j \in JVMs, ServeRegistration(j)
    PROVE  OwnObjects' /\ NothingLost'
<1> DEFINE p == Request(j)
<1>1. /\ p \in PackagesToJVM
      /\ Range(requests[j]) = {p} \cup Range(requests'[j])
      /\ \A k \in JVMs : k # j => requests'[k] = requests[k]
  BY RequestTaken DEF ServeRegistration, IInv
<1>2. UNCHANGED <<alive, relation, events, held, inHand>> /\ j \in alive
  BY DEF ServeRegistration, Served
<1>3. p.type \in {"Add", "Remove"} /\ p.window \in ATs /\ p.family \in Families
  BY <1>1 DEF ServeRegistration, PackagesToJVM, Registrations, ObjectRequests
<1>4. wanted' = [wanted EXCEPT ![j][p.window][p.family] =
                   IF p.type = "Add" THEN @ \cup p.mask ELSE @ \ p.mask]
  BY DEF ServeRegistration
<1> HIDE DEF p
<1>5. \A k \in JVMs, b \in ATs : k # j \/ b # p.window =>
         \A f \in Families : wanted'[k][b][f] = wanted[k][b][f]
  BY <1>3, <1>4 DEF IInv, TypeOK
<1>6. \A b \in ATs : Met(b)' = Met(b) /\ Queued(b)' = Queued(b)
  BY <1>2 DEF Met, Queued
<1>7. alive \subseteq JVMs /\ \A k \in alive : \A r \in held[k] : r.at \in ATs
  BY DEF IInv, TypeOK, Objects
<1>8. j \in Met(p.window)
  BY <1>1, <1>2, <1>3 DEF IInv, OwnObjects, OwnRegistrations
<1>9. OwnReferences' /\ OwnEvents'
  BY <1>2, <1>6 DEF IInv, OwnObjects, OwnReferences, OwnEvents
<1>10. OwnRegistrations'
  <2>1. \A k \in JVMs : Range(requests'[k]) \subseteq Range(requests[k])
    BY <1>1
  <2> QED BY <1>2, <1>5, <1>6, <1>7, <1>8, <2>1 DEF IInv, OwnObjects, OwnRegistrations
<1>11. NothingLost'
  <2>1. \A k \in JVMs : Returned(k)' = Returned(k)
    BY <1>1, <1>3 DEF Returned
  <2> QED BY <1>2, <1>6, <1>7, <2>1 DEF IInv, NothingLost
<1> QED BY <1>9, <1>10, <1>11 DEF OwnObjects

\* A release that reaches the JVM ends the object's being held.
LEMMA ServingLosesNothing ==
    ASSUME IInv, NEW j \in JVMs, ServeObject(j)
    PROVE  OwnObjects' /\ NothingLost'
<1> DEFINE p == Request(j)
<1>1. /\ Range(requests[j]) = {p} \cup Range(requests'[j])
      /\ \A k \in JVMs : k # j => requests'[k] = requests[k]
  BY RequestTaken DEF ServeObject, IInv
<1>2. UNCHANGED <<alive, relation, wanted, events, inHand>>
  BY DEF ServeObject
<1>3. held' = IF p.type = "Release" THEN [held EXCEPT ![j] = @ \ {p.object}] ELSE held
  BY DEF ServeObject
<1> HIDE DEF p
<1>4. /\ \A k \in JVMs : held'[k] \subseteq held[k]
      /\ p.type = "Release" => held'[j] = held[j] \ {p.object}
  BY <1>3 DEF IInv, TypeOK
<1>5. \A b \in ATs : Met(b)' = Met(b) /\ Queued(b)' = Queued(b)
  BY <1>2 DEF Met, Queued
<1>6. alive \subseteq JVMs /\ \A k \in alive : \A r \in held[k] : r.at \in ATs
  BY DEF IInv, TypeOK, Objects
<1>7. OwnReferences' /\ OwnEvents'
  BY <1>2, <1>4, <1>5, <1>6 DEF IInv, OwnObjects, OwnReferences, OwnEvents
<1>8. OwnRegistrations'
  <2>1. \A k \in JVMs : Range(requests'[k]) \subseteq Range(requests[k])
    BY <1>1
  <2> QED BY <1>2, <1>5, <1>6, <2>1 DEF IInv, OwnObjects, OwnRegistrations
<1>9. NothingLost'
  <2>1. \A k \in JVMs : k # j => Returned(k)' = Returned(k)
    BY <1>1 DEF Returned
  <2>2. \A r \in Returned(j) : r \in Returned(j)' \/ (p.type = "Release" /\ r = p.object)
    BY <1>1 DEF Returned
  <2>3. ASSUME NEW k \in alive', NEW r \in held'[k]
        PROVE  r \in (Queued(r.at) \cup inHand[r.at] \cup Returned(k))'
    <3>1. k \in alive /\ k \in JVMs /\ r \in held[k] /\ r.at \in ATs
      BY <1>2, <1>4, <1>6, <2>3
    <3>2. r \in Queued(r.at) \cup inHand[r.at] \cup Returned(k)
      BY <3>1 DEF IInv, NothingLost
    <3> QED BY <3>1, <3>2, <1>2, <1>4, <1>5, <2>1, <2>2, <2>3
  <2> QED BY <2>3 DEF NothingLost
<1> QED BY <1>7, <1>8, <1>9 DEF OwnObjects

\* What is held for a new event is what the posted packages refer to.
LEMMA PostLosesNothing ==
    ASSUME IInv, NEW j \in JVMs, NEW t \in Types, Post(j, t)
    PROVE  OwnObjects' /\ NothingLost'
<1> DEFINE n    == posted[j] + 1
           E(a) == Event(j, a, t, n)
           L    == Listeners(j, t)
<1>1. j \in alive /\ t # "JavaShutdown" /\ L \subseteq ATs
  BY DEF Post, Listeners
<1>2. UNCHANGED <<alive, relation, requests, wanted, inHand>>
  BY DEF Post
<1>3. \A a \in ATs : /\ E(a) \in EventPackages
                     /\ \A r \in Range(E(a).objects) : r.vm = j /\ r.at = a
                     /\ E(a).vm = j
                     /\ E(a).type \notin {"JavaShutdown", "Destroyed"}
  <2>1. n \in Nat /\ t \in EventTypes
    BY TypesAreKnown DEF IInv, TypeOK
  <2>2. t # "Destroyed"
    BY <2>1 DEF EventTypes, JavaEventTypes, AccessibilityEventTypes
  <2>3. \A a \in ATs : E(a).vm = j /\ E(a).type = t
    BY DEF Event
  <2> QED BY <2>1, <2>2, <2>3, <1>1, EventIsPackage
<1>4. \A a \in ATs : events'[a] = IF a \in L THEN Append(events[a], E(a)) ELSE events[a]
  BY DEF Post
<1>5. /\ held'[j] = held[j] \cup UNION {Range(E(a).objects) : a \in L}
      /\ \A k \in JVMs : k # j => held'[k] = held[k]
  BY DEF Post, IInv, TypeOK
<1>6. \A a \in L : j \in Met(a)
  <2>1. Family(t) \in Families
    BY KnownTypes, TypesAreKnown
  <2> QED BY <2>1, <1>1 DEF IInv, OwnObjects, OwnRegistrations, Listeners
<1> HIDE DEF n, E, L
<1>7. \A a \in ATs : Range(events'[a]) = Range(events[a]) \cup (IF a \in L THEN {E(a)} ELSE {})
  <2>1. \A a \in ATs : Range(Append(events[a], E(a))) = Range(events[a]) \cup {E(a)}
    BY <1>3, RangeOfAppend DEF IInv, TypeOK
  <2> QED BY <1>4, <2>1
<1>8. \A a \in ATs : Queued(a)' = Queued(a) \cup (IF a \in L THEN Range(E(a).objects) ELSE {})
  BY <1>7 DEF Queued
<1>9. \A a \in ATs : Met(a)' = Met(a)
  BY <1>2 DEF Met
<1>10. alive \subseteq JVMs /\ \A k \in alive : \A r \in held[k] : r.at \in ATs
  BY DEF IInv, TypeOK, Objects
<1>11. OwnReferences'
  <2>1. ASSUME NEW a \in ATs, NEW r \in (Queued(a) \cup inHand[a])'
        PROVE  r.at = a /\ (r.vm \in alive => r.vm \in Met(a))
    <3>1. CASE r \in Queued(a) \cup inHand[a]
      BY <3>1 DEF IInv, OwnObjects, OwnReferences
    <3>2. CASE r \notin Queued(a) \cup inHand[a]
      <4>1. a \in L /\ r \in Range(E(a).objects)
        BY <2>1, <3>2, <1>2, <1>8
      <4> QED BY <4>1, <1>3, <1>6
    <3> QED BY <3>1, <3>2
  <2>2. ASSUME NEW k \in alive, NEW r \in held'[k]
        PROVE  r.vm = k
    <3>1. CASE r \in held[k]
      BY <3>1 DEF IInv, OwnObjects, OwnReferences
    <3>2. CASE r \notin held[k]
      <4>1. k = j /\ \E a \in L : r \in Range(E(a).objects)
        BY <2>2, <3>2, <1>5, <1>10
      <4> QED BY <4>1, <1>1, <1>3
    <3> QED BY <3>1, <3>2
  <2> QED BY <2>1, <2>2, <1>2, <1>9 DEF OwnReferences
<1>12. OwnEvents'
  <2>1. ASSUME NEW a \in ATs, NEW e \in Range(events'[a])
        PROVE  /\ \A r \in Range(e.objects) : r.vm = e.vm
               /\ e.type \in {"JavaShutdown", "Destroyed"} => e.vm \notin alive
    <3>1. CASE e \in Range(events[a])
      BY <3>1 DEF IInv, OwnObjects, OwnEvents
    <3>2. CASE e = E(a)
      BY <3>2, <1>3
    <3> QED BY <2>1, <3>1, <3>2, <1>7
  <2> QED BY <2>1, <1>2 DEF OwnEvents
<1>13. OwnRegistrations'
  BY <1>2, <1>9 DEF IInv, OwnObjects, OwnRegistrations
<1>14. NothingLost'
  <2>1. \A k \in JVMs : Returned(k)' = Returned(k)
    BY <1>2 DEF Returned
  <2>2. ASSUME NEW k \in alive', NEW r \in held'[k]
        PROVE  r \in (Queued(r.at) \cup inHand[r.at] \cup Returned(k))'
    <3>1. k \in alive /\ k \in JVMs
      BY <2>2, <1>2, <1>10
    <3>2. CASE r \in held[k]
      <4>1. r.at \in ATs /\ r \in Queued(r.at) \cup inHand[r.at] \cup Returned(k)
        BY <3>1, <3>2, <1>10 DEF IInv, NothingLost
      <4> QED BY <4>1, <3>1, <2>1, <1>2, <1>8
    <3>3. CASE r \notin held[k]
      <4>1. PICK a \in L : r \in Range(E(a).objects)
        BY <2>2, <3>1, <3>3, <1>5
      <4>2. r.at = a /\ r \in Queued(a)'
        BY <4>1, <1>1, <1>3, <1>8
      <4> QED BY <4>2
    <3> QED BY <3>2, <3>3
  <2> QED BY <2>2 DEF NothingLost
<1> QED BY <1>11, <1>12, <1>13, <1>14 DEF OwnObjects

\* A JVM that ends takes its objects with it.
LEMMA EndLosesNothing ==
    ASSUME IInv, NEW j \in JVMs, ShutDown(j) \/ Crash(j)
    PROVE  OwnObjects' /\ NothingLost'
<1>1. /\ alive' = alive \ {j}
      /\ UNCHANGED <<relation, inHand>>
      /\ \A k \in JVMs : k # j => /\ requests'[k] = requests[k]
                                 /\ wanted'[k] = wanted[k]
                                 /\ held'[k] = held[k]
  BY DEF ShutDown, Crash, End, IInv, TypeOK
<1> DEFINE S(a) == Event(j, a, "JavaShutdown", 0)
           D    == Destroyed(j)
<1>2. \A a \in ATs : /\ Range(S(a).objects) = {} /\ S(a).vm = j
                     /\ Range(D.objects) = {} /\ D.vm = j
  <2>1. \A a \in ATs : S(a).objects = <<>> /\ S(a).vm = j
    <3>1. References("JavaShutdown") = <<>>
      BY DEF References
    <3> QED BY <3>1 DEF Event
  <2> QED BY <2>1, RangeOfEmpty DEF Destroyed
<1> HIDE DEF S, D
<1>3. \A a \in ATs : /\ Range(events[a]) \subseteq Range(events'[a])
                     /\ Range(events'[a]) \subseteq Range(events[a]) \cup {S(a), D}
  <2>1. CASE ShutDown(j)
    BY <2>1, Farewell DEF ShutDown, IInv, TypeOK, S, D
  <2>2. CASE Crash(j)
    BY <2>2 DEF Crash
  <2> QED BY <2>1, <2>2
<1>4. \A a \in ATs : Queued(a)' = Queued(a) /\ Met(a)' = Met(a)
  <2>1. \A a \in ATs : Queued(a)' = Queued(a)
    BY <1>2, <1>3 DEF Queued
  <2> QED BY <2>1, <1>1 DEF Met
<1>5. alive \subseteq JVMs /\ \A k \in alive : \A r \in held[k] : r.at \in ATs
  BY DEF IInv, TypeOK, Objects
<1>6. OwnReferences'
  BY <1>1, <1>4, <1>5 DEF IInv, OwnObjects, OwnReferences
<1>7. OwnEvents'
  <2>1. ASSUME NEW a \in ATs, NEW e \in Range(events'[a])
        PROVE  /\ \A r \in Range(e.objects) : r.vm = e.vm
               /\ e.type \in {"JavaShutdown", "Destroyed"} => e.vm \notin alive'
    <3>1. CASE e \in Range(events[a])
      BY <3>1, <1>1 DEF IInv, OwnObjects, OwnEvents
    <3>2. CASE e \in {S(a), D}
      BY <3>2, <1>1, <1>2
    <3> QED BY <2>1, <3>1, <3>2, <1>3
  <2> QED BY <2>1 DEF OwnEvents
<1>8. OwnRegistrations'
  BY <1>1, <1>4, <1>5 DEF IInv, OwnObjects, OwnRegistrations
<1>9. NothingLost'
  <2>1. \A k \in JVMs : k # j => Returned(k)' = Returned(k)
    BY <1>1 DEF Returned
  <2> QED BY <1>1, <1>4, <1>5, <2>1 DEF IInv, NothingLost
<1> QED BY <1>6, <1>7, <1>8, <1>9 DEF OwnObjects

\* Initially nothing is under way and nothing is held,
LEMMA LostInit == Init => IInv
<1>1. Init => TypeOK
  BY TypingInit
<1>2. ASSUME Init PROVE OwnObjects /\ NothingLost
  <2>1. /\ \A a \in ATs : Range(events[a]) = {} /\ inHand[a] = {}
        /\ \A j \in JVMs : Range(requests[j]) = {} /\ held[j] = {}
        /\ \A j \in JVMs, a \in ATs, f \in Families : wanted[j][a][f] = {}
        /\ alive = JVMs
    BY <1>2, RangeOfEmpty DEF Init
  <2>2. \A a \in ATs : Queued(a) = {}
    BY <2>1 DEF Queued
  <2> QED BY <2>1, <2>2 DEF OwnObjects, OwnReferences, OwnEvents, OwnRegistrations, NothingLost
<1> QED BY <1>1, <1>2 DEF IInv

\* ... and every step keeps what is.
LEMMA LostStep == IInv /\ [Next]_vars => IInv'
<1> SUFFICES ASSUME IInv, [Next]_vars PROVE OwnObjects' /\ NothingLost'
  BY TypingStep DEF IInv
<1>1. ASSUME NEW a \in ATs, \/ \E t \in Types : SetCallback(a, t) \/ ClearCallback(a, t)
                            \/ \E j \in JVMs : Meet(a, j)
      PROVE  OwnObjects' /\ NothingLost'
  BY <1>1, AskingLosesNothing
<1>2. ASSUME NEW a \in ATs, HandleEvent(a)
      PROVE  OwnObjects' /\ NothingLost'
  BY <1>2, CallBackLosesNothing, NoCallbackLosesNothing, DestroyedLosesNothing
     DEF HandleEvent
<1>3. ASSUME NEW a \in ATs, NEW r \in inHand[a], ReleaseJavaObject(a, r) \/ Call(a, r)
      PROVE  OwnObjects' /\ NothingLost'
  BY <1>3, ReleaseLosesNothing, CallLosesNothing
<1>4. ASSUME NEW j \in JVMs, HandleRequest(j)
      PROVE  OwnObjects' /\ NothingLost'
  BY <1>4, RegistrationLosesNothing, ServingLosesNothing DEF HandleRequest
<1>5. ASSUME NEW j \in JVMs, NEW t \in Types, Post(j, t)
      PROVE  OwnObjects' /\ NothingLost'
  BY <1>5, PostLosesNothing
<1>6. ASSUME NEW j \in JVMs, ShutDown(j) \/ Crash(j)
      PROVE  OwnObjects' /\ NothingLost'
  BY <1>6, EndLosesNothing
<1>7. CASE UNCHANGED vars
  <2>1. \A a \in ATs : Queued(a)' = Queued(a) /\ Met(a)' = Met(a)
    BY <1>7 DEF vars, Queued, Met
  <2>2. \A j \in JVMs : Returned(j)' = Returned(j)
    BY <1>7 DEF vars, Returned
  <2>3. alive \subseteq JVMs /\ \A k \in alive : \A r \in held[k] : r.at \in ATs
    BY DEF IInv, TypeOK, Objects
  <2> QED BY <1>7, <2>1, <2>2, <2>3
          DEF vars, IInv, OwnObjects, OwnReferences, OwnEvents, OwnRegistrations, NothingLost
<1> QED BY <1>1, <1>2, <1>3, <1>4, <1>5, <1>6, <1>7 DEF Next, ReleaseOne

\* As long as a JVM runs, every object it holds for an event can still be
\* released: its reference is queued, with an AT, or on its way back.  This is
\* what ReleaseJavaObject in AccessBridgeCalls.h is for.
THEOREM NothingIsLost == Spec => []NothingLost
<1>1. IInv => NothingLost
  BY DEF IInv
<1> QED BY <1>1, LostInit, LostStep, PTL DEF Spec

-----------------------------------------------------------------------------
(***************************************************************************)
(* The order of a JVM's last events.                                       *)
(***************************************************************************)
\* The packages that come from j, and its last ones.
FromJVM(j)   == {e \in EventPackages : e.vm = j}
Goodbyes(j)  == {e \in FromJVM(j) : e.type = "Destroyed"}
Shutdowns(j) == {e \in FromJVM(j) : e.type = "JavaShutdown"}

\* Nothing of a JVM comes after its Destroyed, and nothing but Destroyed after
\* its JavaShutdown.
InOrder(s, j) == /\ NeverBefore(s, Goodbyes(j), FromJVM(j))
                 /\ NeverBefore(s, Shutdowns(j), FromJVM(j) \ Goodbyes(j))

\* Who has read Destroyed has nothing of the JVM left, and the JVM has ended.
GoodbyeIsLast ==
    \A a \in ATs, j \in JVMs :
        /\ relation[a][j] = "gone" => j \notin alive /\ Range(events[a]) \cap FromJVM(j) = {}
        /\ InOrder(events[a], j)

\* What a JVM that runs appends to a queue keeps the order.
LEMMA OrderOfNews ==
    ASSUME TypeOK, OwnEvents, GoodbyeIsLast, NEW a \in ATs, NEW j \in alive,
           NEW ms \in Seq(EventPackages), Range(ms) \subseteq FromJVM(j), InOrder(ms, j)
    PROVE  \A k \in JVMs :
              /\ InOrder(events[a] \o ms, k)
              /\ relation[a][k] = "gone" => Range(events[a] \o ms) \cap FromJVM(k) = {}
<1> SUFFICES ASSUME NEW k \in JVMs
             PROVE  /\ InOrder(events[a] \o ms, k)
                    /\ relation[a][k] = "gone" => Range(events[a] \o ms) \cap FromJVM(k) = {}
  OBVIOUS
<1>1. /\ events[a] \in Seq(EventPackages) /\ InOrder(events[a], k)
      /\ Range(events[a] \o ms) = Range(events[a]) \cup Range(ms)
      /\ relation[a][k] = "gone" => k \notin alive /\ Range(events[a]) \cap FromJVM(k) = {}
  <2>1. events[a] \in Seq(EventPackages)
    BY DEF TypeOK
  <2> QED BY <2>1, RangeOfPosted DEF GoodbyeIsLast
<1>2. CASE k = j
  <2>1. Range(events[a]) \cap Goodbyes(k) = {} /\ Range(events[a]) \cap Shutdowns(k) = {}
    BY <1>2 DEF OwnEvents, Goodbyes, Shutdowns, FromJVM
  <2>2. InOrder(events[a] \o ms, k)
    BY <1>1, <1>2, <2>1, OrderAfterPost DEF InOrder
  <2> QED BY <1>1, <1>2, <2>2
<1>3. CASE k # j
  <2>1. Range(ms) \cap FromJVM(k) = {}
    BY <1>3 DEF FromJVM
  <2>2. Range(ms) \cap (FromJVM(k) \ Goodbyes(k)) = {}
    BY <2>1
  <2>3. InOrder(ms, k)
    BY <2>1, <2>2, OrderVoid DEF InOrder
  <2>4. InOrder(events[a] \o ms, k)
    BY <1>1, <2>1, <2>2, <2>3, OrderAfterPost DEF InOrder
  <2> QED BY <1>1, <2>1, <2>4
<1> QED BY <1>2, <1>3

\* A JVM's last events are in order.
LEMMA OrderOfFarewell ==
    ASSUME NEW j \in JVMs, NEW a \in ATs
    PROVE  LET S == Event(j, a, "JavaShutdown", 0)
               D == Destroyed(j)
           IN  /\ <<D>> \in Seq(EventPackages) /\ <<S, D>> \in Seq(EventPackages)
               /\ Range(<<D>>) \subseteq FromJVM(j) /\ Range(<<S, D>>) \subseteq FromJVM(j)
               /\ InOrder(<<D>>, j) /\ InOrder(<<S, D>>, j)
<1> DEFINE S == Event(j, a, "JavaShutdown", 0)
           D == Destroyed(j)
<1>1. "JavaShutdown" \in EventTypes
  BY DEF EventTypes, JavaEventTypes
<1>2. S \in EventPackages /\ D \in EventPackages
  BY <1>1, EventIsPackage, DestroyedIsPackage
<1>3. S \in FromJVM(j) \ Goodbyes(j) /\ D \in Goodbyes(j) /\ D \in FromJVM(j) /\ D \notin Shutdowns(j)
  BY <1>2 DEF FromJVM, Goodbyes, Shutdowns, Event, Destroyed
<1> HIDE DEF S, D
<1>4. <<D>> \in Seq(EventPackages) /\ Range(<<D>>) = {D}
      /\ <<S>> \in Seq(EventPackages) /\ Range(<<S>>) = {S}
  BY <1>2, RangeOfOne
<1>5. InOrder(<<D>>, j) /\ InOrder(<<S>>, j)
  BY <1>2, OrderOfFew DEF InOrder
<1>6. <<S, D>> = <<S>> \o <<D>>
  <2>1. <<S, D>> = Append(<<S>>, D)
    OBVIOUS
  <2> QED BY <1>2, <1>4, <2>1, AppendIsConcat
<1>7. <<S, D>> \in Seq(EventPackages) /\ Range(<<S, D>>) = {S, D}
  BY <1>2, RangeOfTwo
<1>8. InOrder(<<S, D>>, j)
  <2> DEFINE s == <<S>>
             d == <<D>>
  <2>1. /\ s \in Seq(EventPackages) /\ d \in Seq(EventPackages)
        /\ Range(s) \cap Goodbyes(j) = {} /\ Range(d) \cap (FromJVM(j) \ Goodbyes(j)) = {}
        /\ InOrder(s, j) /\ InOrder(d, j)
    BY <1>3, <1>4, <1>5
  <2> HIDE DEF s, d
  <2>2. InOrder(s \o d, j)
    BY <2>1, OrderAfterPost DEF InOrder
  <2> QED BY <1>6, <2>2 DEF s, d
<1> QED BY <1>3, <1>4, <1>5, <1>7, <1>8 DEF S, D

\* Every step keeps the order of the last packages.
LEMMA GoodbyeStep == IInv /\ GoodbyeIsLast /\ [Next]_vars => GoodbyeIsLast'
<1> SUFFICES ASSUME IInv, GoodbyeIsLast, [Next]_vars PROVE GoodbyeIsLast'
  OBVIOUS
<1>1. TypeOK /\ OwnEvents /\ OwnRegistrations /\ OwnReferences
  BY DEF IInv, OwnObjects
\* Steps that neither post nor read an event.
<1>2. ASSUME UNCHANGED events, alive' = alive,
             \A a \in ATs, j \in JVMs : relation'[a][j] = "gone" => relation[a][j] = "gone"
      PROVE  GoodbyeIsLast'
  BY <1>2 DEF GoodbyeIsLast
\* Steps that read one.
<1>3. ASSUME NEW a \in ATs, HandleEvent(a) PROVE GoodbyeIsLast'
  <2> DEFINE e == Head(events[a])
  <2>1. /\ EventFrom(a) /\ Took(a) /\ alive' = alive
        /\ \/ relation' = relation
           \/ e.type = "Destroyed" /\ relation' = [relation EXCEPT ![a][e.vm] = "gone"]
    BY <1>3 DEF HandleEvent, CallBack, NoCallback, ReceiveDestroyed
  <2>2. /\ events[a] \in Seq(EventPackages) /\ events[a] # <<>>
        /\ events'[a] = Tail(events[a]) /\ e \in EventPackages
        /\ Range(events[a]) = {e} \cup Range(events'[a])
        /\ \A b \in ATs : b # a => events'[b] = events[b]
    BY <1>1, <2>1, EventTaken DEF TypeOK, EventFrom, Took
  <2>3. e.vm \in JVMs /\ e \in FromJVM(e.vm)
    BY <2>2 DEF EventPackages, FromJVM
  <2>4. ASSUME NEW b \in ATs, NEW j \in JVMs
        PROVE  InOrder(events'[b], j)
    <3>1. InOrder(events[b], j)
      BY DEF GoodbyeIsLast
    <3>2. CASE b = a
      BY <2>2, <3>1, <3>2, OrderAfterRead DEF InOrder
    <3> QED BY <2>2, <3>1, <3>2
  <2>5. ASSUME NEW b \in ATs, NEW j \in JVMs, relation'[b][j] = "gone"
        PROVE  j \notin alive /\ Range(events'[b]) \cap FromJVM(j) = {}
    <3>1. CASE relation[b][j] = "gone"
      BY <2>2, <3>1 DEF GoodbyeIsLast
    <3>2. CASE relation[b][j] # "gone"
      <4>1. b = a /\ j = e.vm /\ e.type = "Destroyed"
        BY <1>1, <2>1, <2>3, <2>5, <3>2 DEF TypeOK
      <4>2. e \in Goodbyes(j)
        BY <2>3, <4>1 DEF Goodbyes
      <4>3. NeverBefore(events[a], Goodbyes(j), FromJVM(j))
        BY DEF GoodbyeIsLast, InOrder
      <4>4. Range(Tail(events[a])) \cap FromJVM(j) = {}
        BY <2>2, <4>2, <4>3, OrderAfterRead
      <4> QED BY <1>1, <2>2, <4>1, <4>4 DEF OwnEvents
    <3> QED BY <3>1, <3>2
  <2> QED BY <2>1, <2>4, <2>5 DEF GoodbyeIsLast
\* Steps that post one.
<1>4. ASSUME NEW j \in alive, j \in JVMs,
             \A a \in ATs : \/ events'[a] = events[a]
                            \/ \E ms \in Seq(EventPackages) :
                                  /\ Range(ms) \subseteq FromJVM(j) /\ InOrder(ms, j)
                                  /\ events'[a] = events[a] \o ms,
             alive' \subseteq alive, relation' = relation
      PROVE  GoodbyeIsLast'
  <2> SUFFICES ASSUME NEW a \in ATs, NEW k \in JVMs
               PROVE  /\ relation[a][k] = "gone" =>
                            k \notin alive /\ Range(events'[a]) \cap FromJVM(k) = {}
                      /\ InOrder(events'[a], k)
    BY <1>4 DEF GoodbyeIsLast
  <2>1. CASE events'[a] = events[a]
    BY <2>1 DEF GoodbyeIsLast
  <2>2. CASE events'[a] # events[a]
    <3>1. PICK ms \in Seq(EventPackages) : /\ Range(ms) \subseteq FromJVM(j) /\ InOrder(ms, j)
                                           /\ events'[a] = events[a] \o ms
      BY <1>4, <2>2
    <3>2. /\ InOrder(events[a] \o ms, k)
          /\ relation[a][k] = "gone" => Range(events[a] \o ms) \cap FromJVM(k) = {}
      BY <1>1, <3>1, OrderOfNews
    <3> QED BY <3>1, <3>2 DEF GoodbyeIsLast
  <2> QED BY <2>1, <2>2
<1>5. ASSUME NEW a \in ATs,
             \/ \E t \in Types : SetCallback(a, t) \/ ClearCallback(a, t)
             \/ \E j \in JVMs : Meet(a, j)
             \/ \E r \in inHand[a] : ReleaseJavaObject(a, r) \/ Call(a, r)
      PROVE  GoodbyeIsLast'
  <2>1. events' = events /\ alive' = alive
    <3>1. CASE \E j \in JVMs : Meet(a, j)
      BY <3>1 DEF Meet
    <3>2. CASE \E t \in Types : SetCallback(a, t) \/ ClearCallback(a, t)
      BY <3>2 DEF SetCallback, ClearCallback
    <3>3. CASE \E r \in inHand[a] : ReleaseJavaObject(a, r) \/ Call(a, r)
      BY <3>3 DEF ReleaseJavaObject, Call
    <3> QED BY <1>5, <3>1, <3>2, <3>3
  <2>2. \/ relation' = relation
        \/ \E j \in JVMs : relation' = [relation EXCEPT ![a][j] = "met"]
    <3>1. CASE \E j \in JVMs : Meet(a, j)
      BY <3>1 DEF Meet
    <3>2. CASE \E t \in Types : SetCallback(a, t) \/ ClearCallback(a, t)
      BY <3>2 DEF SetCallback, ClearCallback
    <3>3. CASE \E r \in inHand[a] : ReleaseJavaObject(a, r) \/ Call(a, r)
      BY <3>3 DEF ReleaseJavaObject, Call
    <3> QED BY <1>5, <3>1, <3>2, <3>3
  <2>3. \A b \in ATs, j \in JVMs : relation'[b][j] = "gone" => relation[b][j] = "gone"
    <3>1. ASSUME NEW j \in JVMs, relation' = [relation EXCEPT ![a][j] = "met"],
                 NEW b \in ATs, NEW k \in JVMs
          PROVE  relation'[b][k] = IF b = a /\ k = j THEN "met" ELSE relation[b][k]
      BY <1>1, <3>1 DEF TypeOK
    <3> QED BY <2>2, <3>1
  <2> QED BY <1>2, <2>1, <2>3
<1>6. ASSUME NEW j \in JVMs, HandleRequest(j) PROVE GoodbyeIsLast'
  BY <1>2, <1>6 DEF HandleRequest, ServeRegistration, ServeObject
<1>7. ASSUME NEW j \in JVMs, NEW t \in Types, Post(j, t) PROVE GoodbyeIsLast'
  <2>1. j \in alive /\ alive' = alive /\ relation' = relation
    BY <1>7 DEF Post
  <2>2. ASSUME NEW a \in ATs, events'[a] # events[a]
        PROVE  \E ms \in Seq(EventPackages) :
                  /\ Range(ms) \subseteq FromJVM(j) /\ InOrder(ms, j)
                  /\ events'[a] = events[a] \o ms
    <3> DEFINE E == Event(j, a, t, posted[j] + 1)
               ms == <<E>>
    <3>1. E \in EventPackages /\ E \in FromJVM(j)
      <4>1. E \in EventPackages
        BY <1>1, EventIsPackage, TypesAreKnown DEF TypeOK
      <4> QED BY <4>1 DEF FromJVM, Event
    <3>2. events'[a] = Append(events[a], E)
      BY <1>7, <2>2 DEF Post
    <3> HIDE DEF E
    <3>3. ms \in Seq(EventPackages) /\ Range(ms) \subseteq FromJVM(j) /\ InOrder(ms, j)
      BY <3>1, RangeOfOne, OrderOfFew DEF InOrder
    <3>4. events[a] \in Seq(EventPackages)
      BY <1>1 DEF TypeOK
    <3>5. events'[a] = events[a] \o ms
      BY <3>1, <3>2, <3>4, AppendIsConcat
    <3> HIDE DEF ms
    <3> QED BY <3>3, <3>5
  <2> QED BY <1>4, <2>1, <2>2
<1>8. ASSUME NEW j \in JVMs, ShutDown(j) \/ Crash(j) PROVE GoodbyeIsLast'
  <2>1. j \in alive /\ alive' \subseteq alive /\ relation' = relation
    BY <1>8 DEF ShutDown, Crash, End
  <2>2. ASSUME NEW a \in ATs, events'[a] # events[a]
        PROVE  \E ms \in Seq(EventPackages) :
                  /\ Range(ms) \subseteq FromJVM(j) /\ InOrder(ms, j)
                  /\ events'[a] = events[a] \o ms
    <3> DEFINE sd == <<Event(j, a, "JavaShutdown", 0), Destroyed(j)>>
               d == <<Destroyed(j)>>
    <3>1. \A ms \in {sd, d} : /\ ms \in Seq(EventPackages)
                              /\ Range(ms) \subseteq FromJVM(j) /\ InOrder(ms, j)
      BY OrderOfFarewell
    <3>2. events'[a] = events[a] \o sd \/ events'[a] = events[a] \o d
      BY <1>8, <2>2 DEF ShutDown, Crash
    <3> HIDE DEF sd, d
    <3> QED BY <3>1, <3>2
  <2> QED BY <1>4, <2>1, <2>2
<1>9. CASE UNCHANGED vars
  BY <1>9, <1>2 DEF vars
<1> QED BY <1>3, <1>5, <1>6, <1>7, <1>8, <1>9 DEF Next, ReleaseOne

-----------------------------------------------------------------------------
(***************************************************************************)
(* References are given to one AT, once, and released once.                *)
(***************************************************************************)
\* The events that carry the reference r.
Carries(r) == {e \in EventPackages : r \in Range(e.objects)}

\* No reference is in two events, twice in one, or in an event and in hand;
\* the references of the next event will be new ones.
GivenOnce ==
    /\ \A a \in ATs, r \in Objects : NeverBefore(events[a], Carries(r), Carries(r))
    /\ \A a \in ATs : \A e \in Range(events[a]) :
          \A i, k \in DOMAIN e.objects : e.objects[i] = e.objects[k] => i = k
    /\ \A a \in ATs : Queued(a) \cap inHand[a] = {}
    /\ \A j \in alive : \A r \in held[j] : r.event <= posted[j]

\* A reference that an AT has or will get is held and not given back, one that
\* is given back is not given back or used again.
ReleasedOnce ==
    /\ \A a \in ATs : \A r \in Queued(a) \cup inHand[a] :
          r.vm \in alive => r \in held[r.vm] /\ r \notin Returned(r.vm)
    /\ \A j \in alive : \A p \in Range(requests[j]) :
          p.type \in {"Release", "Call"} => p.object \in held[j]
    /\ \A j \in alive, r \in Objects :
          NeverBefore(requests[j], {ReleaseObject(r)}, {ReleaseObject(r), CallOn(r)})

\* The references of a new event are new, and each is in one field.
LEMMA NewReferences ==
    ASSUME NEW j \in JVMs, NEW a \in ATs, NEW t, NEW n
    PROVE  LET os == Event(j, a, t, n).objects
           IN  /\ \A r \in Range(os) : r.vm = j /\ r.at = a /\ r.event = n
               /\ \A i, k \in DOMAIN os : os[i] = os[k] => i = k
<1> DEFINE fields == References(t)
           os == [i \in DOMAIN fields |-> Object(j, a, n, fields[i])]
<1>1. Event(j, a, t, n).objects = os
  BY DEF Event
<1>2. \A i, k \in DOMAIN fields : fields[i] = fields[k] => i = k
  <2>1. CASE t = "JavaShutdown"
    <3>1. References(t) = <<>>
      BY <2>1 DEF References
    <3> QED BY <3>1
  <2>2. CASE t \in {"PropertyChildChange", "PropertyActiveDescendentChange"}
    <3>1. References(t) = <<"Event", "Source", "Old", "New">>
      BY <2>2 DEF References
    <3> QED BY <3>1
  <2>3. CASE t \notin {"JavaShutdown", "PropertyChildChange", "PropertyActiveDescendentChange"}
    <3>1. References(t) = <<"Event", "Source">>
      BY <2>3, Zenon DEF References
    <3> QED BY <3>1
  <2> QED BY <2>1, <2>2, <2>3
<1> HIDE DEF fields
<1>3. \A i \in DOMAIN os : /\ os[i].vm = j /\ os[i].at = a /\ os[i].event = n
                           /\ os[i].field = fields[i]
  BY DEF Object
<1>4. \A i, k \in DOMAIN os : os[i] = os[k] => i = k
  BY <1>2, <1>3
<1>5. \A r \in Range(os) : r.vm = j /\ r.at = a /\ r.event = n
  BY <1>3 DEF Range
<1> QED BY <1>1, <1>4, <1>5

\* The references after a's oldest event was taken.
LEMMA TakenReferences ==
    ASSUME TypeOK, GivenOnce, NEW a \in ATs, EventFrom(a), Took(a)
    PROVE  LET e == Head(events[a])
           IN  /\ e \in EventPackages /\ Range(e.objects) \subseteq Objects
               /\ \A i, k \in DOMAIN e.objects : e.objects[i] = e.objects[k] => i = k
               /\ Queued(a) = Range(e.objects) \cup Queued(a)'
               /\ Range(e.objects) \cap (Queued(a)' \cup inHand[a]) = {}
               /\ \A b \in ATs : b # a => Queued(b)' = Queued(b)
               /\ \A b \in ATs, r \in Objects : NeverBefore(events'[b], Carries(r), Carries(r))
               /\ \A b \in ATs : \A f \in Range(events'[b]) :
                     \A i, k \in DOMAIN f.objects : f.objects[i] = f.objects[k] => i = k
<1> DEFINE e == Head(events[a])
<1>1. /\ events[a] \in Seq(EventPackages) /\ events[a] # <<>> /\ events'[a] = Tail(events[a])
      /\ e \in EventPackages
      /\ Range(events[a]) = {e} \cup Range(events'[a])
      /\ \A b \in ATs : b # a => events'[b] = events[b]
  BY EventTaken DEF TypeOK, EventFrom, Took
<1>2. Range(e.objects) \subseteq Objects
  BY <1>1, EventObjects
<1>3. Queued(a) = Range(e.objects) \cup Queued(a)' /\ \A b \in ATs : b # a => Queued(b)' = Queued(b)
  BY <1>1 DEF Queued
<1>4. ASSUME NEW b \in ATs, NEW r \in Objects
      PROVE  /\ NeverBefore(events'[b], Carries(r), Carries(r))
             /\ b = a /\ e \in Carries(r) => Range(events'[a]) \cap Carries(r) = {}
  <2>1. NeverBefore(events[b], Carries(r), Carries(r))
    BY DEF GivenOnce
  <2>2. CASE b = a
    BY <1>1, <2>1, <2>2, OrderAfterRead
  <2> QED BY <1>1, <2>1, <2>2
<1>5. ASSUME NEW r \in Range(e.objects) PROVE r \notin Queued(a)'
  <2>1. r \in Objects /\ e \in Carries(r)
    BY <1>1, <1>2, <1>5 DEF Carries
  <2>2. \A f \in Range(events'[a]) : f \in EventPackages
    <3>1. Tail(events[a]) \in Seq(EventPackages)
      BY <1>1, HeadTailProperties
    <3> QED BY <1>1, <3>1, RangeEquality, ElementOfSeq
  <2> QED BY <1>4, <2>1, <2>2 DEF Queued, Carries
<1>6. /\ Range(e.objects) \cap inHand[a] = {}
      /\ \A b \in ATs : \A f \in Range(events'[b]) : f \in Range(events[b])
      /\ e \in Range(events[a])
  BY <1>1, <1>3 DEF GivenOnce
<1>7. /\ \A i, k \in DOMAIN e.objects : e.objects[i] = e.objects[k] => i = k
      /\ \A b \in ATs : \A f \in Range(events'[b]) :
            \A i, k \in DOMAIN f.objects : f.objects[i] = f.objects[k] => i = k
  BY <1>6 DEF GivenOnce
<1> QED BY <1>1, <1>2, <1>3, <1>4, <1>5, <1>6, <1>7

\* Sending requests about objects that are still held.
LEMMA SendingKeepsReferences ==
    ASSUME IInv, ReleasedOnce, NEW J, NEW ms \in Seq(PackagesToJVM), requests' = Send(J, ms),
           UNCHANGED <<alive, held>>,
           \A a \in ATs : (Queued(a) \cup inHand[a])' \subseteq Queued(a) \cup inHand[a],
           \A j \in J \cap alive, p \in Range(ms) : p.type \in {"Release", "Call"} =>
              p.object \in held[j] /\ p.object \notin Returned(j),
           \A a \in ATs, p \in Range(ms) : p.type = "Release" =>
              p.object \notin (Queued(a) \cup inHand[a])',
           \A r \in Objects : NeverBefore(ms, {ReleaseObject(r)}, {ReleaseObject(r), CallOn(r)})
    PROVE  ReleasedOnce'
<1>1. /\ \A j \in JVMs : Range(requests'[j]) =
            Range(requests[j]) \cup (IF j \in J \cap alive THEN Range(ms) ELSE {})
      /\ alive \subseteq JVMs
  BY Sent DEF IInv, TypeOK
<1>2. ASSUME NEW a \in ATs, NEW r \in (Queued(a) \cup inHand[a])', r.vm \in alive
      PROVE  r \in held[r.vm] /\ r \notin Returned(r.vm)'
  <2>1. r \in held[r.vm] /\ r \notin Returned(r.vm)
    BY <1>2 DEF ReleasedOnce
  <2>2. ASSUME NEW p \in Range(requests'[r.vm]), p.type = "Release" PROVE p.object # r
    BY <1>1, <1>2, <2>1, <2>2 DEF Returned
  <2> QED BY <2>1, <2>2 DEF Returned
<1>3. ASSUME NEW j \in alive, NEW p \in Range(requests'[j]), p.type \in {"Release", "Call"}
      PROVE  p.object \in held[j]
  BY <1>1, <1>3 DEF ReleasedOnce
<1>4. ASSUME NEW j \in alive, NEW r \in Objects
      PROVE  NeverBefore(requests'[j], {ReleaseObject(r)}, {ReleaseObject(r), CallOn(r)})
  <2>1. /\ NeverBefore(requests[j], {ReleaseObject(r)}, {ReleaseObject(r), CallOn(r)})
        /\ requests[j] \in Seq(PackagesToJVM)
        /\ requests'[j] = IF j \in J \cap alive THEN requests[j] \o ms ELSE requests[j]
    BY <1>1 DEF ReleasedOnce, IInv, TypeOK, Send
  <2>2. ASSUME j \in J \cap alive
        PROVE  \/ Range(requests[j]) \cap {ReleaseObject(r)} = {}
               \/ Range(ms) \cap {ReleaseObject(r), CallOn(r)} = {}
    <3>1. r \in Returned(j) => Range(ms) \cap {ReleaseObject(r), CallOn(r)} = {}
      BY <2>2 DEF ReleaseObject, CallOn
    <3>2. r \notin Returned(j) => Range(requests[j]) \cap {ReleaseObject(r)} = {}
      BY DEF Returned, ReleaseObject
    <3> QED BY <3>1, <3>2
  <2> QED BY <2>1, <2>2, OrderAfterPost
<1> QED BY <1>2, <1>3, <1>4 DEF ReleasedOnce

\* Registrations and calls.
LEMMA AskingKeepsReferences ==
    ASSUME IInv, GivenOnce, ReleasedOnce, NEW a \in ATs,
           \/ \E t \in Types : SetCallback(a, t) \/ ClearCallback(a, t)
           \/ \E j \in JVMs : Meet(a, j)
           \/ \E r \in inHand[a] : Call(a, r)
    PROVE  GivenOnce' /\ ReleasedOnce'
<1>1. UNCHANGED <<alive, events, posted, held, inHand>>
  BY DEF SetCallback, ClearCallback, Meet, Call
<1>2. \A b \in ATs : Queued(b)' = Queued(b)
  BY <1>1 DEF Queued
<1>3. GivenOnce'
  BY <1>1, <1>2 DEF GivenOnce
\* Registrations are about no object.
<1>4. ASSUME NEW J, NEW ms \in Seq(PackagesToJVM), requests' = Send(J, ms),
             \A p \in Range(ms) : p.type \in {"Add", "Remove"}
      PROVE  ReleasedOnce'
  <2>1. \A r \in Objects : NeverBefore(ms, {ReleaseObject(r)}, {ReleaseObject(r), CallOn(r)})
    <3> TAKE r \in Objects
    <3>1. Range(ms) \cap {ReleaseObject(r)} = {}
      BY <1>4 DEF ReleaseObject
    <3> QED BY <3>1, OrderVoid
  <2>2. \A p \in Range(ms) : p.type \notin {"Release", "Call"}
    BY <1>4
  <2> QED BY <1>1, <1>2, <1>4, <2>1, <2>2, SendingKeepsReferences
<1>5. ASSUME NEW t \in Types, SetCallback(a, t) \/ ClearCallback(a, t)
      PROVE  ReleasedOnce'
  <2>1. Family(t) \in Families /\ Bit(t) \in Bits
    BY KnownTypes, TypesAreKnown
  <2>2. PICK p \in PackagesToJVM : p.type \in {"Add", "Remove"} /\ requests' = Send(Met(a), <<p>>)
    BY <1>5, <2>1, RequestsArePackages
       DEF SetCallback, ClearCallback, AddNotification, RemoveNotification
  <2> DEFINE ms == <<p>>
  <2>3. ms \in Seq(PackagesToJVM) /\ Range(ms) = {p} /\ requests' = Send(Met(a), ms)
    BY <2>2, RangeOfOne
  <2> HIDE DEF ms
  <2> QED BY <1>4, <2>2, <2>3
<1>6. ASSUME NEW j \in JVMs, Meet(a, j)
      PROVE  ReleasedOnce'
  <2> DEFINE ms == [i \in 1 .. 2 |-> LET f == <<"Java", "Accessibility">>[i]
                                     IN  AddNotification(a, f, Mask(f, callback[a]))]
  <2>1. ms \in Seq(PackagesToJVM) /\ \A p \in Range(ms) : p.type = "Add"
    BY Greeting DEF IInv
  <2>2. requests' = Send({j}, ms)
    BY <1>6 DEF Meet
  <2> HIDE DEF ms
  <2> QED BY <1>4, <2>1, <2>2
<1>7. ASSUME NEW r \in inHand[a], Call(a, r)
      PROVE  ReleasedOnce'
  <2> DEFINE ms == <<CallOn(r)>>
             J == {r.vm} \cap Met(a)
  <2>1. r \in Objects /\ CallOn(r) \in PackagesToJVM
    BY RequestsArePackages DEF IInv, TypeOK
  <2>2. /\ ms \in Seq(PackagesToJVM) /\ Range(ms) = {CallOn(r)}
        /\ \A A, B : NeverBefore(ms, A, B)
    BY <2>1, RangeOfOne, OrderOfFew
  <2>3. requests' = Send(J, ms)
    BY <1>7 DEF Call
  <2>4. \A p \in Range(ms) : p.type = "Call" /\ p.object = r
    BY <2>2 DEF CallOn
  <2>5. r.vm \in alive => r \in held[r.vm] /\ r \notin Returned(r.vm)
    BY DEF ReleasedOnce
  <2> HIDE DEF ms
  <2>6. \A j \in J \cap alive, p \in Range(ms) : p.type \in {"Release", "Call"} =>
           p.object \in held[j] /\ p.object \notin Returned(j)
    BY <2>4, <2>5
  <2>7. \A b \in ATs, p \in Range(ms) : p.type = "Release" =>
           p.object \notin (Queued(b) \cup inHand[b])'
    BY <2>4
  <2> HIDE DEF J
  <2> QED BY <1>1, <1>2, <2>2, <2>3, <2>6, <2>7, SendingKeepsReferences
<1> QED BY <1>3, <1>5, <1>6, <1>7

\* Giving a reference back.
LEMMA ReleaseKeepsReferences ==
    ASSUME IInv, GivenOnce, ReleasedOnce, NEW a \in ATs, NEW r \in inHand[a],
           ReleaseJavaObject(a, r)
    PROVE  GivenOnce' /\ ReleasedOnce'
<1> DEFINE ms == <<ReleaseObject(r)>>
           J == {r.vm} \cap Met(a)
<1>1. /\ UNCHANGED <<alive, events, posted, held>>
      /\ requests' = Send(J, ms)
      /\ \A b \in ATs : inHand'[b] = IF b = a THEN inHand[a] \ {r} ELSE inHand[b]
  BY DEF ReleaseJavaObject, IInv, TypeOK
<1>2. \A b \in ATs : Queued(b)' = Queued(b)
  BY <1>1 DEF Queued
<1>3. GivenOnce'
  BY <1>1, <1>2 DEF GivenOnce
<1>4. r \in Objects /\ ReleaseObject(r) \in PackagesToJVM
  BY RequestsArePackages DEF IInv, TypeOK
<1>5. /\ ms \in Seq(PackagesToJVM) /\ Range(ms) = {ReleaseObject(r)}
      /\ \A A, B : NeverBefore(ms, A, B)
  BY <1>4, RangeOfOne, OrderOfFew
<1>6. \A p \in Range(ms) : p.type = "Release" /\ p.object = r
  BY <1>5 DEF ReleaseObject
<1>7. r.vm \in alive => r \in held[r.vm] /\ r \notin Returned(r.vm)
  BY DEF ReleasedOnce
<1> HIDE DEF ms
<1>8. \A j \in J \cap alive, p \in Range(ms) : p.type \in {"Release", "Call"} =>
         p.object \in held[j] /\ p.object \notin Returned(j)
  BY <1>6, <1>7
<1>9. \A b \in ATs : r \notin (Queued(b) \cup inHand[b])'
  <2> TAKE b \in ATs
  <2>1. r \in Queued(b) \cup inHand[b] => b = a
    BY DEF IInv, OwnObjects, OwnReferences
  <2>2. r \notin Queued(a)
    BY DEF GivenOnce
  <2> QED BY <1>1, <1>2, <2>1, <2>2
<1>10. \A b \in ATs, p \in Range(ms) : p.type = "Release" =>
          p.object \notin (Queued(b) \cup inHand[b])'
  BY <1>6, <1>9
<1>11. \A b \in ATs : (Queued(b) \cup inHand[b])' \subseteq Queued(b) \cup inHand[b]
  BY <1>1, <1>2
<1> HIDE DEF J
<1> QED BY <1>1, <1>3, <1>5, <1>8, <1>10, <1>11, SendingKeepsReferences

\* The callback takes the references over, or the bridge gives them all back.
LEMMA HandlingKeepsReferences ==
    ASSUME IInv, GivenOnce, ReleasedOnce, NEW a \in ATs, HandleEvent(a)
    PROVE  GivenOnce' /\ ReleasedOnce'
<1> DEFINE e == Head(events[a])
           os == Range(e.objects)
<1>1. EventFrom(a) /\ Took(a) /\ UNCHANGED <<alive, posted, held>> /\ TypeOK
  BY DEF HandleEvent, CallBack, NoCallback, ReceiveDestroyed, IInv
<1>2. /\ e \in EventPackages /\ os \subseteq Objects
      /\ \A i, k \in DOMAIN e.objects : e.objects[i] = e.objects[k] => i = k
      /\ Queued(a) = os \cup Queued(a)'
      /\ os \cap (Queued(a)' \cup inHand[a]) = {}
      /\ \A b \in ATs : b # a => Queued(b)' = Queued(b)
      /\ \A b \in ATs, r \in Objects : NeverBefore(events'[b], Carries(r), Carries(r))
      /\ \A b \in ATs : \A f \in Range(events'[b]) :
            \A i, k \in DOMAIN f.objects : f.objects[i] = f.objects[k] => i = k
  BY <1>1, TakenReferences
\* What stays with the ATs.
<1>3. /\ inHand'[a] \subseteq inHand[a] \cup os
      /\ \A b \in ATs : b # a => inHand'[b] = inHand[b]
      /\ ~CallBack(a) => inHand' = inHand
  <2> HIDE DEF os
  <2>1. CASE CallBack(a)
    <3>1. \/ inHand' = [inHand EXCEPT ![a] = {r \in @ : r.vm # e.vm}]
          \/ inHand' = [inHand EXCEPT ![a] = @ \cup os]
      BY <2>1 DEF CallBack, os
    <3> QED BY <1>1, <2>1, <3>1 DEF TypeOK
  <2>2. CASE ~CallBack(a)
    BY <2>2 DEF HandleEvent, NoCallback, ReceiveDestroyed
  <2> QED BY <2>1, <2>2
<1>4. GivenOnce'
  <2>1. \A b \in ATs : Queued(b)' \cap inHand'[b] = {}
    <3>1. \A b \in ATs : Queued(b) \cap inHand[b] = {}
      BY DEF GivenOnce
    <3> QED BY <1>2, <1>3, <3>1
  <2>2. \A j \in alive' : \A r \in held'[j] : r.event <= posted'[j]
    BY <1>1 DEF GivenOnce
  <2> QED BY <1>2, <2>1, <2>2 DEF GivenOnce
<1>5. \A b \in ATs : (Queued(b) \cup inHand[b])' \subseteq Queued(b) \cup inHand[b]
  BY <1>2, <1>3
<1>6. CASE NoCallback(a)
  <2> DEFINE ms == [i \in DOMAIN e.objects |-> ReleaseObject(e.objects[i])]
  <2>1. ms \in Seq(PackagesToJVM) /\ Range(ms) = {ReleaseObject(r) : r \in os}
    BY <1>2, Releases
  <2>2. requests' = Send({e.vm}, ms) /\ inHand' = inHand
    BY <1>6 DEF NoCallback
  <2>3. \A r \in Objects : NeverBefore(ms, {ReleaseObject(r)}, {ReleaseObject(r), CallOn(r)})
    <3> SUFFICES ASSUME NEW r \in Objects, NEW i \in DOMAIN ms, NEW k \in DOMAIN ms, i < k,
                        ms[i] = ReleaseObject(r), ms[k] \in {ReleaseObject(r), CallOn(r)}
                 PROVE  FALSE
      BY DEF NeverBefore
    <3>1. ms[i].object = e.objects[i] /\ ms[k].object = e.objects[k]
      BY DEF ReleaseObject
    <3>2. ReleaseObject(r).object = r /\ CallOn(r).object = r
      BY DEF ReleaseObject, CallOn
    <3>3. i = k
      BY <1>2, <3>1, <3>2
    <3>4. i \in Nat
      BY <2>1, LenProperties
    <3> QED BY <3>3, <3>4
  <2>4. \A p \in Range(ms) : p.type = "Release" /\ p.object \in os
    BY <2>1 DEF ReleaseObject
  <2>5. \A r \in os : r \in Queued(a) /\ r.at = a /\ r.vm = e.vm
    <3>1. e \in Range(events[a])
      BY <1>1, EventTaken
    <3> QED BY <1>2, <3>1 DEF IInv, OwnObjects, OwnReferences, OwnEvents
  <2>6. \A r \in os : e.vm \in alive => r \in held[e.vm] /\ r \notin Returned(e.vm)
    BY <2>5 DEF ReleasedOnce
  <2>7. \A b \in ATs : \A r \in os : r \notin (Queued(b) \cup inHand[b])'
    <3> TAKE b \in ATs
    <3> TAKE r \in os
    <3>1. r \in Queued(b) \cup inHand[b] => b = a
      BY <2>5 DEF IInv, OwnObjects, OwnReferences
    <3> QED BY <1>2, <1>5, <2>2, <3>1
  <2> HIDE DEF ms, os
  <2>8. \A j \in {e.vm} \cap alive, p \in Range(ms) : p.type \in {"Release", "Call"} =>
           p.object \in held[j] /\ p.object \notin Returned(j)
    BY <2>4, <2>6
  <2>9. \A b \in ATs, p \in Range(ms) : p.type = "Release" =>
           p.object \notin (Queued(b) \cup inHand[b])'
    BY <2>4, <2>7
  <2> HIDE DEF e
  <2>10. ReleasedOnce'
    BY <1>1, <1>5, <2>1, <2>2, <2>3, <2>8, <2>9, SendingKeepsReferences
  <2> QED BY <1>4, <2>10
<1>7. CASE ~NoCallback(a)
  <2>1. requests' = requests
    BY <1>7 DEF HandleEvent, CallBack, ReceiveDestroyed
  <2>2. \A j \in JVMs : Returned(j)' = Returned(j)
    BY <2>1 DEF Returned
  <2>3. alive \subseteq JVMs
    BY <1>1 DEF TypeOK
  <2>4. ASSUME NEW b \in ATs, NEW r \in (Queued(b) \cup inHand[b])', r.vm \in alive'
        PROVE  r \in held'[r.vm] /\ r \notin Returned(r.vm)'
    BY <1>1, <1>5, <2>2, <2>3, <2>4 DEF ReleasedOnce
  <2>5. ReleasedOnce'
    BY <1>1, <2>1, <2>4 DEF ReleasedOnce
  <2> QED BY <1>4, <2>5
<1> QED BY <1>6, <1>7

\* Serving a request: a release comes when nobody has or names the object.
LEMMA ServingKeepsReferences ==
    ASSUME IInv, GivenOnce, ReleasedOnce, NEW j \in JVMs, HandleRequest(j)
    PROVE  GivenOnce' /\ ReleasedOnce'
<1> DEFINE p == Request(j)
<1>1. /\ Served(j) /\ j \in alive /\ TypeOK
      /\ UNCHANGED <<alive, events, posted, inHand>>
  BY DEF HandleRequest, ServeRegistration, ServeObject, Served, IInv
<1>2. /\ requests[j] \in Seq(PackagesToJVM) /\ requests[j] # <<>> /\ p = Head(requests[j])
      /\ requests'[j] = Tail(requests[j])
      /\ p \in PackagesToJVM
      /\ Range(requests[j]) = {p} \cup Range(requests'[j])
      /\ \A k \in JVMs : k # j => requests'[k] = requests[k]
  BY <1>1, RequestTaken DEF Served, TypeOK, Request
<1>3. /\ \A k \in JVMs : k # j => held'[k] = held[k]
      /\ held'[j] = held[j] \/ (p.type = "Release" /\ held'[j] = held[j] \ {p.object})
  <2>1. \/ held' = held
        \/ p.type = "Release" /\ held' = [held EXCEPT ![j] = @ \ {p.object}]
    BY DEF HandleRequest, ServeRegistration, ServeObject
  <2> QED BY <1>1, <2>1 DEF TypeOK
<1> HIDE DEF p
<1>4. alive \subseteq JVMs /\ \A b \in ATs : Queued(b)' = Queued(b)
  BY <1>1 DEF TypeOK, Queued
<1>5. \A k \in JVMs : Returned(k)' \subseteq Returned(k)
  BY <1>2 DEF Returned
<1>6. GivenOnce'
  BY <1>1, <1>3, <1>4 DEF GivenOnce
<1>7. ASSUME NEW b \in ATs, NEW r \in (Queued(b) \cup inHand[b])', r.vm \in alive'
      PROVE  r \in held'[r.vm] /\ r \notin Returned(r.vm)'
  <2>1. r \in held[r.vm] /\ r \notin Returned(r.vm)
    BY <1>1, <1>4, <1>7 DEF ReleasedOnce
  <2>2. ~(p.type = "Release" /\ p.object = r /\ r.vm = j)
    BY <1>2, <2>1 DEF Returned
  <2> QED BY <1>1, <1>3, <1>4, <1>5, <1>7, <2>1, <2>2
<1>8. ASSUME NEW k \in alive, NEW r \in Objects
      PROVE  /\ NeverBefore(requests'[k], {ReleaseObject(r)}, {ReleaseObject(r), CallOn(r)})
             /\ k = j /\ p = ReleaseObject(r) =>
                   Range(requests'[j]) \cap {ReleaseObject(r), CallOn(r)} = {}
  <2>1. NeverBefore(requests[k], {ReleaseObject(r)}, {ReleaseObject(r), CallOn(r)})
    BY DEF ReleasedOnce
  <2>2. CASE k = j
    BY <1>2, <2>1, <2>2, OrderAfterRead
  <2> QED BY <1>2, <1>4, <2>1, <2>2
<1>9. ASSUME NEW k \in alive, NEW q \in Range(requests'[k]), q.type \in {"Release", "Call"}
      PROVE  q.object \in held'[k]
  <2>1. q.object \in held[k]
    BY <1>2, <1>4, <1>9 DEF ReleasedOnce
  <2>2. CASE k = j /\ p.type = "Release" /\ q.object = p.object
    <3>1. p \in ObjectRequests /\ q \in ObjectRequests
      <4>1. q \in PackagesToJVM
        <5>1. Tail(requests[j]) \in Seq(PackagesToJVM)
          BY <1>2, HeadTailProperties
        <5> QED BY <1>2, <1>9, <2>2, <5>1, RangeEquality, ElementOfSeq
      <4> QED BY <1>2, <1>9, <2>2, <4>1 DEF PackagesToJVM, Registrations
    <3>2. /\ p.object \in Objects /\ p = ReleaseObject(p.object)
          /\ q \in {ReleaseObject(p.object), CallOn(p.object)}
      BY <1>9, <2>2, <3>1 DEF ObjectRequests, ReleaseObject, CallOn
    <3> QED BY <1>1, <1>8, <1>9, <2>2, <3>2
  <2> QED BY <1>3, <1>4, <2>1, <2>2
<1> QED BY <1>1, <1>6, <1>7, <1>8, <1>9 DEF ReleasedOnce

\* An event has references that nobody had before.
LEMMA PostKeepsReferences ==
    ASSUME IInv, GivenOnce, ReleasedOnce, NEW j \in JVMs, NEW t \in Types, Post(j, t)
    PROVE  GivenOnce' /\ ReleasedOnce'
<1> DEFINE n    == posted[j] + 1
           E(a) == Event(j, a, t, n)
           L    == Listeners(j, t)
<1>1. /\ j \in alive /\ L \subseteq ATs /\ TypeOK /\ alive \subseteq JVMs
      /\ UNCHANGED <<alive, relation, requests, wanted, inHand>>
      /\ posted[j] \in Nat /\ n \in Nat /\ n > posted[j]
      /\ \A k \in JVMs : posted'[k] = IF k = j THEN n ELSE posted[k]
  BY DEF Post, Listeners, IInv, TypeOK
<1>2. \A a \in ATs : /\ E(a) \in EventPackages
                     /\ \A r \in Range(E(a).objects) :
                           r \in Objects /\ r.vm = j /\ r.at = a /\ r.event = n
                     /\ \A i, k \in DOMAIN E(a).objects :
                           E(a).objects[i] = E(a).objects[k] => i = k
  BY <1>1, EventIsPackage, EventObjects, NewReferences, TypesAreKnown
<1>3. \A a \in ATs : events'[a] = IF a \in L THEN Append(events[a], E(a)) ELSE events[a]
  BY DEF Post
<1>4. /\ held'[j] = held[j] \cup UNION {Range(E(a).objects) : a \in L}
      /\ \A k \in JVMs : k # j => held'[k] = held[k]
  BY <1>1 DEF Post, TypeOK
<1> HIDE DEF n, E, L
<1>5. \A a \in ATs : /\ events[a] \in Seq(EventPackages)
                     /\ Range(events'[a]) = Range(events[a]) \cup (IF a \in L THEN {E(a)} ELSE {})
                     /\ Queued(a)' = Queued(a) \cup (IF a \in L THEN Range(E(a).objects) ELSE {})
  <2>1. \A a \in ATs : /\ events[a] \in Seq(EventPackages)
                       /\ Range(Append(events[a], E(a))) = Range(events[a]) \cup {E(a)}
    BY <1>1, <1>2, RangeOfAppend DEF TypeOK
  <2>2. \A a \in ATs : Range(events'[a]) = Range(events[a]) \cup (IF a \in L THEN {E(a)} ELSE {})
    BY <1>3, <2>1
  <2>3. ASSUME NEW a \in ATs
        PROVE  Queued(a)' = Queued(a) \cup (IF a \in L THEN Range(E(a).objects) ELSE {})
    <3>1. PICK R : R = Range(events'[a])
      OBVIOUS
    <3>2. Queued(a)' = UNION {Range(e.objects) : e \in R}
      BY <3>1 DEF Queued
    <3>3. R = Range(events[a]) \cup (IF a \in L THEN {E(a)} ELSE {})
      BY <2>2, <3>1
    <3> QED BY <3>2, <3>3 DEF Queued
  <2> QED BY <2>1, <2>2, <2>3
\* The references that are under way or held already have lower numbers.
<1>6. \A a \in ATs : \A r \in Queued(a) \cup inHand[a] : r.vm = j => r.event # n
  <2> SUFFICES ASSUME NEW a \in ATs, NEW r \in Queued(a) \cup inHand[a], r.vm = j, r.event = n
               PROVE  FALSE
    OBVIOUS
  <2>1. r \in held[j]
    BY <1>1 DEF ReleasedOnce
  <2>2. r.event <= posted[j]
    BY <1>1, <2>1 DEF GivenOnce
  <2> QED BY <1>1, <2>2
<1>7. \A r \in Returned(j) : r.event # n
  <2> SUFFICES ASSUME NEW r \in Returned(j), r.event = n PROVE FALSE
    OBVIOUS
  <2>1. r \in held[j]
    BY <1>1 DEF Returned, ReleasedOnce
  <2>2. r.event <= posted[j]
    BY <1>1, <2>1 DEF GivenOnce
  <2> QED BY <1>1, <2>2
<1>8. ASSUME NEW a \in ATs, NEW r \in Objects
      PROVE  NeverBefore(events'[a], Carries(r), Carries(r))
  <2>1. NeverBefore(events[a], Carries(r), Carries(r))
    BY DEF GivenOnce
  <2>2. CASE a \in L
    <3> DEFINE ms == <<E(a)>>
    <3>1. ms \in Seq(EventPackages) /\ Range(ms) = {E(a)} /\ NeverBefore(ms, Carries(r), Carries(r))
      BY <1>2, RangeOfOne, OrderOfFew
    <3>2. events'[a] = events[a] \o ms
      <4>1. events'[a] = Append(events[a], E(a)) /\ E(a) \in EventPackages
        BY <1>2, <1>3, <2>2
      <4>2. PICK x : x = E(a)
        OBVIOUS
      <4>3. ms = <<x>> /\ x \in EventPackages /\ events'[a] = Append(events[a], x)
        BY <4>1, <4>2
      <4> QED BY <1>5, <4>3, AppendIsConcat
    <3>3. Range(events[a]) \cap Carries(r) = {} \/ Range(ms) \cap Carries(r) = {}
      <4>1. CASE r \in Range(E(a).objects)
        <5>1. r \notin Queued(a)
          BY <1>2, <1>6, <4>1
        <5> QED BY <5>1 DEF Queued, Carries
      <4>2. CASE r \notin Range(E(a).objects)
        BY <3>1, <4>2 DEF Carries
      <4> QED BY <4>1, <4>2
    <3> HIDE DEF ms
    <3> QED BY <1>5, <2>1, <3>1, <3>2, <3>3, OrderAfterPost
  <2> QED BY <1>3, <2>1, <2>2
<1>9. ASSUME NEW a \in ATs, NEW e \in Range(events'[a])
      PROVE  \A i, k \in DOMAIN e.objects : e.objects[i] = e.objects[k] => i = k
  <2>1. CASE e \in Range(events[a])
    BY <2>1 DEF GivenOnce
  <2>2. CASE e = E(a)
    BY <1>2, <2>2
  <2> QED BY <1>5, <1>9, <2>1, <2>2
<1>10. \A a \in ATs : Queued(a)' \cap inHand'[a] = {}
  <2> TAKE a \in ATs
  <2>1. Queued(a) \cap inHand[a] = {}
    BY DEF GivenOnce
  <2> QED BY <1>1, <1>2, <1>5, <1>6, <2>1
<1>11. ASSUME NEW k \in alive, NEW r \in held'[k] PROVE r.event <= posted'[k]
  <2>1. CASE r \in held[k]
    <3>1. r.event <= posted[k] /\ r.event \in Nat /\ k \in JVMs
      BY <1>1, <2>1 DEF GivenOnce, TypeOK, Objects
    <3> QED BY <1>1, <3>1
  <2>2. CASE r \notin held[k]
    <3>1. k = j /\ r.event = n
      BY <1>1, <1>2, <1>4, <1>11, <2>2
    <3> QED BY <1>1, <3>1
  <2> QED BY <2>1, <2>2
<1>12. GivenOnce'
  BY <1>1, <1>8, <1>9, <1>10, <1>11 DEF GivenOnce
<1>13. ASSUME NEW a \in ATs, NEW r \in (Queued(a) \cup inHand[a])', r.vm \in alive'
       PROVE  r \in held'[r.vm] /\ r \notin Returned(r.vm)'
  <2>1. \A k \in JVMs : Returned(k)' = Returned(k) /\ held[k] \subseteq held'[k]
    BY <1>1, <1>4 DEF Returned
  <2>2. CASE r \in Queued(a) \cup inHand[a]
    <3>1. r \in held[r.vm] /\ r \notin Returned(r.vm)
      BY <1>1, <1>13, <2>2 DEF ReleasedOnce
    <3> QED BY <1>1, <1>13, <2>1, <3>1
  <2>3. CASE r \notin Queued(a) \cup inHand[a]
    <3>1. a \in L /\ r \in Range(E(a).objects)
      BY <1>1, <1>5, <1>13, <2>3
    <3>2. r \in held'[j] /\ r.vm = j /\ r.event = n
      BY <1>2, <1>4, <3>1
    <3> QED BY <1>7, <2>1, <3>2
  <2> QED BY <2>2, <2>3
<1>14. \A k \in alive : held[k] \subseteq held'[k]
  BY <1>1, <1>4
<1>15. ReleasedOnce'
  BY <1>1, <1>13, <1>14 DEF ReleasedOnce
<1> QED BY <1>12, <1>15

\* A JVM that ends posts no references and holds none.
LEMMA EndKeepsReferences ==
    ASSUME IInv, GivenOnce, ReleasedOnce, NEW j \in JVMs, ShutDown(j) \/ Crash(j)
    PROVE  GivenOnce' /\ ReleasedOnce'
<1>1. /\ alive' = alive \ {j} /\ alive \subseteq JVMs /\ TypeOK
      /\ UNCHANGED <<posted, inHand>>
      /\ \A k \in JVMs : k # j => requests'[k] = requests[k] /\ held'[k] = held[k]
  BY DEF ShutDown, Crash, End, IInv, TypeOK
<1> DEFINE S(a) == Event(j, a, "JavaShutdown", 0)
           D    == Destroyed(j)
           none == <<>>
<1>2. \A a \in ATs : S(a).objects = none /\ D.objects = none
  <2>1. References("JavaShutdown") = <<>>
    BY DEF References
  <2> QED BY <2>1 DEF Event, Destroyed
<1>3. Range(none) = {} /\ DOMAIN none = {}
  BY RangeOfEmpty
<1> HIDE DEF S, D, none
<1>4. \A a \in ATs : /\ Range(events[a]) \subseteq Range(events'[a])
                     /\ Range(events'[a]) \subseteq Range(events[a]) \cup {S(a), D}
  <2>1. CASE ShutDown(j)
    BY <1>1, <2>1, Farewell DEF ShutDown, TypeOK, S, D
  <2>2. CASE Crash(j)
    BY <2>2 DEF Crash
  <2> QED BY <2>1, <2>2
<1>5. \A a \in ATs : Queued(a)' = Queued(a)
  BY <1>2, <1>3, <1>4 DEF Queued
<1>6. ASSUME NEW a \in ATs, NEW r \in Objects
      PROVE  NeverBefore(events'[a], Carries(r), Carries(r))
  <2>1. NeverBefore(events[a], Carries(r), Carries(r)) /\ events[a] \in Seq(EventPackages)
    BY <1>1 DEF GivenOnce, TypeOK
  <2>2. ASSUME NEW ms \in Seq(EventPackages), Range(ms) \subseteq {S(a), D}
        PROVE  NeverBefore(events[a] \o ms, Carries(r), Carries(r))
    <3>1. Range(ms) \cap Carries(r) = {}
      BY <1>2, <1>3, <2>2 DEF Carries
    <3> QED BY <2>1, <3>1, OrderVoid, OrderAfterPost
  <2>3. CASE ShutDown(j)
    <3> DEFINE sd == <<S(a), D>>
               d == <<D>>
    <3>1. /\ sd \in Seq(EventPackages) /\ d \in Seq(EventPackages)
          /\ Range(sd) = {S(a), D} /\ Range(d) = {D}
      <4>1. S(a) \in EventPackages /\ D \in EventPackages
        <5>1. "JavaShutdown" \in EventTypes
          BY DEF EventTypes, JavaEventTypes
        <5> QED BY <5>1, EventIsPackage, DestroyedIsPackage DEF S, D
      <4> QED BY <4>1, RangeOfOne, RangeOfTwo
    <3>2. events'[a] = events[a] \o sd \/ events'[a] = events[a] \o d
      BY <2>3 DEF ShutDown, S, D
    <3> HIDE DEF sd, d
    <3> QED BY <2>2, <3>1, <3>2
  <2>4. CASE Crash(j)
    BY <2>1, <2>4 DEF Crash
  <2> QED BY <2>3, <2>4
<1>7. ASSUME NEW a \in ATs, NEW e \in Range(events'[a])
      PROVE  \A i, k \in DOMAIN e.objects : e.objects[i] = e.objects[k] => i = k
  <2>1. CASE e \in Range(events[a])
    BY <2>1 DEF GivenOnce
  <2>2. CASE e \in {S(a), D}
    BY <1>2, <1>3, <2>2
  <2> QED BY <1>4, <1>7, <2>1, <2>2
<1>8. GivenOnce'
  <2>1. \A a \in ATs : Queued(a)' \cap inHand'[a] = {}
    BY <1>1, <1>5 DEF GivenOnce
  <2>2. \A k \in alive' : \A r \in held'[k] : r.event <= posted'[k]
    BY <1>1 DEF GivenOnce
  <2> QED BY <1>6, <1>7, <2>1, <2>2 DEF GivenOnce
<1>9. ReleasedOnce'
  <2>1. \A k \in alive' : /\ k \in alive /\ requests'[k] = requests[k] /\ held'[k] = held[k]
                          /\ Returned(k)' = Returned(k)
    BY <1>1 DEF Returned
  <2>2. ASSUME NEW a \in ATs, NEW r \in (Queued(a) \cup inHand[a])', r.vm \in alive'
        PROVE  r \in held'[r.vm] /\ r \notin Returned(r.vm)'
    BY <1>1, <1>5, <2>1, <2>2 DEF ReleasedOnce
  <2> QED BY <2>1, <2>2 DEF ReleasedOnce
<1> QED BY <1>8, <1>9

\* Initially nobody has a reference and no queue holds a package ...
LEMMA OrderedInit == Init => GoodbyeIsLast /\ GivenOnce /\ ReleasedOnce
<1> SUFFICES ASSUME Init PROVE GoodbyeIsLast /\ GivenOnce /\ ReleasedOnce
  OBVIOUS
<1> DEFINE none == <<>>
<1>1. /\ \A a \in ATs : /\ events[a] = none /\ inHand[a] = {}
                        /\ \A j \in JVMs : relation[a][j] # "gone"
      /\ \A j \in JVMs : requests[j] = none /\ held[j] = {}
      /\ alive = JVMs
  BY DEF Init
<1>2. DOMAIN none = {} /\ Range(none) = {}
  BY RangeOfEmpty
<1> HIDE DEF none
<1>3. \A A, B : NeverBefore(none, A, B)
  BY <1>2 DEF NeverBefore
<1>4. \A a \in ATs : Queued(a) = {}
  BY <1>1, <1>2 DEF Queued
<1>5. GoodbyeIsLast
  BY <1>1, <1>3 DEF GoodbyeIsLast, InOrder
<1>6. GivenOnce
  BY <1>1, <1>2, <1>3, <1>4 DEF GivenOnce
<1>7. ReleasedOnce
  BY <1>1, <1>2, <1>3, <1>4 DEF ReleasedOnce
<1> QED BY <1>5, <1>6, <1>7

\* ... and every step keeps the references in order.
LEMMA ReferencesStep ==
    IInv /\ GivenOnce /\ ReleasedOnce /\ [Next]_vars => GivenOnce' /\ ReleasedOnce'
<1> SUFFICES ASSUME IInv, GivenOnce, ReleasedOnce, [Next]_vars PROVE GivenOnce' /\ ReleasedOnce'
  OBVIOUS
<1>1. CASE UNCHANGED vars
  <2>1. /\ \A a \in ATs : Queued(a)' = Queued(a)
        /\ \A j \in JVMs : Returned(j)' = Returned(j)
        /\ UNCHANGED <<alive, requests, events, posted, held, inHand>>
        /\ alive \subseteq JVMs
        /\ \A a \in ATs : \A r \in Queued(a) \cup inHand[a] : r.vm \in alive => r.vm \in JVMs
    BY <1>1 DEF vars, Queued, Returned, IInv, TypeOK
  <2>2. GivenOnce'
    BY <2>1 DEF GivenOnce
  <2>3. ReleasedOnce'
    <3>1. ASSUME NEW a \in ATs, NEW r \in (Queued(a) \cup inHand[a])', r.vm \in alive'
          PROVE  r \in held'[r.vm] /\ r \notin Returned(r.vm)'
      <4>1. r \in Queued(a) \cup inHand[a] /\ r.vm \in alive
        BY <2>1, <3>1
      <4>2. r \in held[r.vm] /\ r \notin Returned(r.vm)
        BY <4>1 DEF ReleasedOnce
      <4> QED BY <2>1, <4>2 DEF Returned
    <3>2. /\ \A j \in alive' : \A p \in Range(requests'[j]) :
                p.type \in {"Release", "Call"} => p.object \in held'[j]
          /\ \A j \in alive', r \in Objects :
                NeverBefore(requests'[j], {ReleaseObject(r)}, {ReleaseObject(r), CallOn(r)})
      BY <2>1 DEF ReleasedOnce
    <3> QED BY <3>1, <3>2 DEF ReleasedOnce
  <2> QED BY <2>2, <2>3
<1>2. ASSUME NEW a \in ATs,
             \/ \E t \in Types : SetCallback(a, t) \/ ClearCallback(a, t)
             \/ \E j \in JVMs : Meet(a, j)
             \/ \E r \in inHand[a] : Call(a, r)
      PROVE  GivenOnce' /\ ReleasedOnce'
  BY <1>2, AskingKeepsReferences
<1>3. ASSUME NEW a \in ATs, HandleEvent(a) PROVE GivenOnce' /\ ReleasedOnce'
  BY <1>3, HandlingKeepsReferences
<1>4. ASSUME NEW a \in ATs, NEW r \in inHand[a], ReleaseJavaObject(a, r)
      PROVE  GivenOnce' /\ ReleasedOnce'
  BY <1>4, ReleaseKeepsReferences
<1>5. ASSUME NEW j \in JVMs, HandleRequest(j) PROVE GivenOnce' /\ ReleasedOnce'
  BY <1>5, ServingKeepsReferences
<1>6. ASSUME NEW j \in JVMs, NEW t \in Types, Post(j, t) PROVE GivenOnce' /\ ReleasedOnce'
  BY <1>6, PostKeepsReferences
<1>7. ASSUME NEW j \in JVMs, ShutDown(j) \/ Crash(j) PROVE GivenOnce' /\ ReleasedOnce'
  BY <1>7, EndKeepsReferences
<1> QED BY <1>1, <1>2, <1>3, <1>4, <1>5, <1>6, <1>7 DEF Next, ReleaseOne

\* An AT that has learned that a JVM is gone gets no more of its events, and
\* JavaShutdown and Destroyed come after all others, in this order.  They are
\* posted to the same queue (JavaShutdownPackage and JavaVMDestroyedNotification
\* in AccessBridgePackages.h).
THEOREM LastEventsAreLast == Spec => []ShutdownIsLast
<1>1. IInv /\ GoodbyeIsLast => ShutdownIsLast
  <2> SUFFICES ASSUME IInv, GoodbyeIsLast, NEW a \in ATs
               PROVE  /\ \A e \in Range(events[a]) : relation[a][e.vm] # "gone"
                      /\ \A i, k \in DOMAIN events[a] :
                            i < k /\ events[a][i].vm = events[a][k].vm =>
                                /\ events[a][i].type # "Destroyed"
                                /\ events[a][i].type = "JavaShutdown" =>
                                      events[a][k].type = "Destroyed"
    BY DEF ShutdownIsLast
  <2>1. events[a] \in Seq(EventPackages)
    BY DEF IInv, TypeOK
  <2>2. \A i \in DOMAIN events[a] :
           events[a][i] \in EventPackages /\ events[a][i].vm \in JVMs
    <3>1. \A i \in DOMAIN events[a] : events[a][i] \in EventPackages
      BY <2>1, ElementOfSeq, LenProperties
    <3> QED BY <3>1 DEF EventPackages
  <2>3. ASSUME NEW e \in Range(events[a]) PROVE relation[a][e.vm] # "gone"
    <3>1. e \in EventPackages /\ e.vm \in JVMs
      BY <2>1, <2>2, PlaceInQueue
    <3>2. e \in FromJVM(e.vm)
      BY <3>1 DEF FromJVM
    <3> QED BY <3>1, <3>2 DEF GoodbyeIsLast
  <2>4. ASSUME NEW i \in DOMAIN events[a], NEW k \in DOMAIN events[a],
               i < k, events[a][i].vm = events[a][k].vm
        PROVE  /\ events[a][i].type # "Destroyed"
               /\ events[a][i].type = "JavaShutdown" => events[a][k].type = "Destroyed"
    <3>1. PICK j \in JVMs : j = events[a][i].vm
      BY <2>2
    <3>2. events[a][i] \in FromJVM(j) /\ events[a][k] \in FromJVM(j)
      BY <2>2, <2>4, <3>1 DEF FromJVM
    <3>3. InOrder(events[a], j)
      BY DEF GoodbyeIsLast
    <3>4. events[a][i] \notin Goodbyes(j)
      BY <2>4, <3>2, <3>3 DEF InOrder, NeverBefore
    <3>5. events[a][i] \in Shutdowns(j) => events[a][k] \in Goodbyes(j)
      BY <2>4, <3>2, <3>3 DEF InOrder, NeverBefore
    <3> QED BY <3>2, <3>4, <3>5 DEF Goodbyes, Shutdowns
  <2> QED BY <2>3, <2>4
<1> QED BY <1>1, LostInit, LostStep, OrderedInit, GoodbyeStep, PTL DEF Spec

\* Nobody has a reference to an object of a running JVM that was released, and
\* a call or a release finds the object when it reaches the JVM: what
\* ReleaseJavaObject in AccessBridgeCalls.h asks of an AT is enough.
THEOREM ReferencesAreGood == Spec => []NoUseAfterRelease
<1>1. IInv /\ ReleasedOnce => NoUseAfterRelease
  <2> SUFFICES ASSUME IInv, ReleasedOnce PROVE NoUseAfterRelease
    OBVIOUS
  <2>1. ASSUME NEW j \in alive, requests[j] # <<>> PROVE Request(j) \in Range(requests[j])
    <3>1. requests[j] \in Seq(PackagesToJVM)
      BY DEF IInv, TypeOK
    <3> QED BY <2>1, <3>1, RangeOfTail DEF Request
  <2> QED BY <2>1 DEF ReleasedOnce, NoUseAfterRelease
<1> QED BY <1>1, LostInit, LostStep, OrderedInit, ReferencesStep, PTL DEF Spec

-----------------------------------------------------------------------------
(***************************************************************************)
(* References go one way.                                                  *)
(***************************************************************************)
\* The references that events to come will carry.
Fresh == {r \in Objects : r.event > posted[r.vm]}

\* What a reference of a JVM that goes on running can do in a step: leave the
\* queue, the hand and the way back for the next of these places only, and be
\* let go by the JVM only on its way back, never to be held again.
ReferencesGoOneWay ==
    \A j \in alive \cap alive', r \in Objects : r.vm = j /\ r.at \in ATs =>
        /\ r \in inHand[r.at] => r \notin Queued(r.at)'
        /\ r \in Returned(j) => r \notin (Queued(r.at) \cup inHand[r.at])'
        /\ r \in held[j] \ held'[j] => r \in Returned(j)
        /\ r \notin held[j] /\ r \notin Fresh => r \notin held'[j]

\* Where the references are after a step: only Post makes new ones, a callback
\* takes them from the queue, and only a release lets the JVM forget one.
LEMMA ReferencesMove ==
    ASSUME IInv, GivenOnce, [Next]_vars
    PROVE  /\ \A a \in ATs : /\ Queued(a)' \subseteq Queued(a) \cup Fresh
                             /\ inHand'[a] \subseteq inHand[a] \cup Queued(a)
           /\ \A j \in alive \cap alive' : /\ held'[j] \subseteq held[j] \cup Fresh
                                           /\ held[j] \subseteq held'[j] \cup Returned(j)
<1> USE DEF IInv
<1>1. CASE UNCHANGED <<events, held, inHand>>
  BY <1>1 DEF Queued
<1>2. ASSUME NEW a \in ATs, NEW r \in inHand[a], ReleaseJavaObject(a, r)
      PROVE  UNCHANGED <<events, held>> /\ \A b \in ATs : inHand'[b] \subseteq inHand[b]
  BY <1>2 DEF ReleaseJavaObject, TypeOK
<1>3. ASSUME NEW a \in ATs, HandleEvent(a)
      PROVE  /\ held' = held
             /\ \A b \in ATs : /\ Queued(b)' \subseteq Queued(b)
                               /\ inHand'[b] \subseteq inHand[b] \cup Queued(b)
  <2> DEFINE os == Range(Head(events[a]).objects)
  <2>1. EventFrom(a) /\ Took(a) /\ held' = held /\ TypeOK
    BY <1>3 DEF HandleEvent, CallBack, NoCallback, ReceiveDestroyed
  <2>2. /\ Queued(a) = os \cup Queued(a)'
        /\ \A b \in ATs : b # a => Queued(b)' = Queued(b)
    BY <2>1, TakenReferences
  <2>3. \/ inHand' = inHand
        \/ inHand' = [inHand EXCEPT ![a] = {r \in @ : r.vm # Head(events[a]).vm}]
        \/ inHand' = [inHand EXCEPT ![a] = @ \cup os]
    BY <1>3 DEF HandleEvent, CallBack, NoCallback, ReceiveDestroyed
  <2> HIDE DEF os
  <2>4. \A b \in ATs : inHand'[b] \subseteq inHand[b] \cup Queued(b)
    BY <2>1, <2>2, <2>3 DEF TypeOK
  <2> QED BY <2>1, <2>2, <2>4
<1>4. ASSUME NEW j \in JVMs, HandleRequest(j)
      PROVE  /\ UNCHANGED <<events, inHand>>
             /\ \A k \in JVMs : /\ held'[k] \subseteq held[k]
                                /\ held[k] \subseteq held'[k] \cup Returned(k)
  <2> DEFINE p == Request(j)
  <2>1. UNCHANGED <<events, inHand>> /\ Served(j) /\ p \in Range(requests[j])
    BY <1>4, RequestTaken DEF HandleRequest, ServeRegistration, ServeObject
  <2>2. \/ held' = held
        \/ p.type = "Release" /\ held' = [held EXCEPT ![j] = @ \ {p.object}]
    BY <1>4 DEF HandleRequest, ServeRegistration, ServeObject
  <2> HIDE DEF p
  <2>3. p.type = "Release" => p.object \in Returned(j)
    BY <2>1 DEF Returned
  <2> QED BY <2>1, <2>2, <2>3 DEF TypeOK
<1>5. ASSUME NEW j \in JVMs, NEW t \in Types, Post(j, t)
      PROVE  /\ inHand' = inHand
             /\ \A a \in ATs : Queued(a)' \subseteq Queued(a) \cup Fresh
             /\ \A k \in JVMs : held[k] \subseteq held'[k] /\ held'[k] \subseteq held[k] \cup Fresh
  <2> DEFINE n    == posted[j] + 1
             E(a) == Event(j, a, t, n)
  <2>1. n \in Nat /\ n > posted[j] /\ Listeners(j, t) \subseteq ATs
    BY DEF TypeOK, Listeners
  <2>2. \A a \in ATs : E(a) \in EventPackages /\ Range(E(a).objects) \subseteq Fresh
    BY <2>1, EventIsPackage, EventObjects, NewReferences, TypesAreKnown DEF Fresh
  <2>3. /\ inHand' = inHand
        /\ events' = [a \in ATs |-> IF a \in Listeners(j, t) THEN Append(events[a], E(a))
                                                             ELSE events[a]]
        /\ held' = [held EXCEPT ![j] = @ \cup UNION {Range(E(a).objects) : a \in Listeners(j, t)}]
    BY <1>5 DEF Post
  <2> HIDE DEF n, E
  <2>4. \A a \in ATs : Range(events'[a]) \subseteq Range(events[a]) \cup {E(a)}
    <3>1. \A a \in ATs : Range(Append(events[a], E(a))) = Range(events[a]) \cup {E(a)}
      BY <2>2, RangeOfAppend DEF TypeOK
    <3> QED BY <2>3, <3>1
  <2>5. \A a \in ATs : Queued(a)' \subseteq Queued(a) \cup Fresh
    BY <2>2, <2>4 DEF Queued
  <2>6. PICK new : new = UNION {Range(E(a).objects) : a \in Listeners(j, t)}
    OBVIOUS
  <2>7. new \subseteq Fresh /\ held' = [held EXCEPT ![j] = @ \cup new]
    BY <2>1, <2>2, <2>3, <2>6
  <2>8. \A k \in JVMs : held[k] \subseteq held'[k] /\ held'[k] \subseteq held[k] \cup Fresh
    BY <2>7 DEF TypeOK
  <2> QED BY <2>3, <2>5, <2>8
<1>6. ASSUME NEW j \in JVMs, ShutDown(j) \/ Crash(j)
      PROVE  /\ inHand' = inHand
             /\ \A a \in ATs : Queued(a)' \subseteq Queued(a)
             /\ \A k \in alive \cap alive' : held'[k] = held[k]
  <2> DEFINE S(a) == Event(j, a, "JavaShutdown", 0)
             D    == Destroyed(j)
  <2>1. \A a \in ATs : Range(S(a).objects) = {} /\ Range(D.objects) = {}
    <3>1. References("JavaShutdown") = <<>>
      BY DEF References
    <3>2. \A a \in ATs : S(a).objects = <<>> /\ D.objects = <<>>
      BY <3>1 DEF Event, Destroyed
    <3> QED BY <3>2, RangeOfEmpty
  <2>2. \A a \in ATs : Range(events'[a]) \subseteq Range(events[a]) \cup {S(a), D}
    <3>1. CASE ShutDown(j)
      BY <3>1, Farewell DEF ShutDown, TypeOK
    <3>2. CASE Crash(j)
      BY <3>2 DEF Crash
    <3> QED BY <1>6, <3>1, <3>2
  <2> HIDE DEF S, D
  <2>3. \A a \in ATs : Queued(a)' \subseteq Queued(a)
    BY <2>1, <2>2 DEF Queued
  <2>4. inHand' = inHand /\ \A k \in alive \cap alive' : held'[k] = held[k]
    BY <1>6 DEF ShutDown, Crash, End, TypeOK
  <2> QED BY <2>3, <2>4
<1>7. alive \subseteq JVMs
  BY DEF TypeOK
<1>8. CASE \E a \in ATs : HandleEvent(a) \/ ReleaseOne(a)
  <2>1. PICK a \in ATs : HandleEvent(a) \/ ReleaseOne(a)
    BY <1>8
  <2>2. CASE HandleEvent(a)
    BY <1>3, <2>2
  <2>3. CASE ReleaseOne(a)
    BY <1>2, <2>3 DEF ReleaseOne, Queued
  <2> QED BY <2>1, <2>2, <2>3
<1>9. CASE \E j \in JVMs : HandleRequest(j)
  BY <1>4, <1>7, <1>9 DEF Queued
<1>10. CASE \E j \in JVMs, t \in Types : Post(j, t)
  BY <1>5, <1>7, <1>10
<1>11. CASE \E j \in JVMs : ShutDown(j) \/ Crash(j)
  BY <1>6, <1>11
<1>12. \/ UNCHANGED <<events, held, inHand>>
       \/ \E a \in ATs : HandleEvent(a) \/ ReleaseOne(a)
       \/ \E j \in JVMs : HandleRequest(j)
       \/ \E j \in JVMs, t \in Types : Post(j, t)
       \/ \E j \in JVMs : ShutDown(j) \/ Crash(j)
  BY Zenon DEF Next, SetCallback, ClearCallback, Meet, Call, vars
<1> QED BY <1>1, <1>8, <1>9, <1>10, <1>11, <1>12

\* The reference to an object goes one way, from the event through the hands of
\* the AT or straight back to its JVM: whoever has released an object never gets
\* it again, in an event or in hand; the JVM lets an object go only for a release
\* that an AT has sent, and an object that was let go is never held again.
\* This is what ReleaseJavaObject of AccessBridgeCalls.h relies on: a second
\* release, or one that comes too late, would be of somebody else's object.
THEOREM ReferencesDoNotReturn == Spec => [][ReferencesGoOneWay]_vars
<1>1. ASSUME IInv, GivenOnce, ReleasedOnce, [Next]_vars PROVE ReferencesGoOneWay
  <2> SUFFICES ASSUME NEW j \in alive \cap alive', NEW r \in Objects, r.vm = j, r.at \in ATs
               PROVE  /\ r \in inHand[r.at] => r \notin Queued(r.at)'
                      /\ r \in Returned(j) => r \notin (Queued(r.at) \cup inHand[r.at])'
                      /\ r \in held[j] \ held'[j] => r \in Returned(j)
                      /\ r \notin held[j] /\ r \notin Fresh => r \notin held'[j]
    BY DEF ReferencesGoOneWay
  <2> DEFINE a == r.at
  <2>1. /\ Queued(a)' \subseteq Queued(a) \cup Fresh
        /\ inHand'[a] \subseteq inHand[a] \cup Queued(a)
        /\ held'[j] \subseteq held[j] \cup Fresh
        /\ held[j] \subseteq held'[j] \cup Returned(j)
    BY <1>1, ReferencesMove
  <2>2. r \in held[j] => r \notin Fresh
    <3>1. r \in held[j] => r.event <= posted[j]
      BY <1>1 DEF GivenOnce
    <3>2. r.event \in Nat /\ posted[j] \in Nat
      BY <1>1 DEF Objects, IInv, TypeOK
    <3> QED BY <3>1, <3>2 DEF Fresh
  <2>3. r \in inHand[a] => r \notin Queued(a) /\ r \in held[j]
    BY <1>1 DEF GivenOnce, ReleasedOnce
  <2>4. r \in Returned(j) => r \notin Queued(a) \cup inHand[a] /\ r \in held[j]
    BY <1>1 DEF ReleasedOnce, Returned
  <2> QED BY <2>1, <2>2, <2>3, <2>4
<1> QED BY <1>1, LostInit, LostStep, OrderedInit, ReferencesStep, PTL DEF Spec

-----------------------------------------------------------------------------
(***************************************************************************)
(* Registrations.                                                          *)
(***************************************************************************)
\* A type of event is known by its family and its bit.
LEMMA OneBitEach ==
    ASSUME NEW t \in EventTypes, NEW u \in EventTypes, Family(t) = Family(u), Bit(t) = Bit(u)
    PROVE  t = u
<1>1. CASE t \in DOMAIN JavaEventTypes
  <2>1. u \in DOMAIN JavaEventTypes /\ JavaEventTypes[t] = JavaEventTypes[u]
    BY <1>1 DEF Family, Bit
  <2> QED BY <1>1, <2>1 DEF JavaEventTypes
<1>2. CASE t \notin DOMAIN JavaEventTypes
  <2>1. /\ t \in DOMAIN AccessibilityEventTypes /\ u \in DOMAIN AccessibilityEventTypes
        /\ AccessibilityEventTypes[t] = AccessibilityEventTypes[u]
    BY <1>2 DEF Family, Bit, EventTypes
  <2> QED BY <2>1 DEF AccessibilityEventTypes
<1> QED BY <1>1, <1>2

\* The registrations of a for events of type t, and those that add to the mask.
About(a, t) == {p \in Registrations : p.window = a /\ p.family = Family(t) /\ Bit(t) \in p.mask}
Adds(a, t)  == {p \in About(a, t) : p.type = "Add"}

\* The last registration in a queue decides.
LEMMA LastRegistration ==
    ASSUME NEW q \in Seq(PackagesToJVM), NEW a \in ATs, NEW t \in Types
    PROVE  LET N == {i \in DOMAIN q : LET p == q[i] IN /\ p.type \in {"Add", "Remove"}
                                                       /\ p.window = a
                                                       /\ p.family = Family(t)
                                                       /\ Bit(t) \in p.mask}
           IN  /\ N = {} <=> Range(q) \cap About(a, t) = {}
               /\ (\E i \in N : q[i].type = "Add" /\ \A k \in N : k <= i)
                     <=> LastIn(q, About(a, t), Adds(a, t))
<1> DEFINE N == {i \in DOMAIN q : LET p == q[i] IN /\ p.type \in {"Add", "Remove"}
                                                   /\ p.window = a
                                                   /\ p.family = Family(t)
                                                   /\ Bit(t) \in p.mask}
<1>1. \A p \in PackagesToJVM : p.type \in {"Add", "Remove"} <=> p \in Registrations
  BY DEF PackagesToJVM, Registrations, ObjectRequests
<1>2. \A i \in DOMAIN q : q[i] \in PackagesToJVM
  BY ElementOfSeq, LenProperties
<1>3. N = {i \in DOMAIN q : q[i] \in About(a, t)}
  BY <1>1, <1>2 DEF About
<1> HIDE DEF N
<1>4. N = {} <=> Range(q) \cap About(a, t) = {}
  BY <1>3, PlaceInQueue
<1>5. (\E i \in N : q[i].type = "Add" /\ \A k \in N : k <= i)
         <=> LastIn(q, About(a, t), Adds(a, t))
  BY <1>3 DEF LastIn, Adds
<1> QED BY <1>4, <1>5 DEF N

\* What j will listen to, now and after a step.
LEMMA Listening ==
    ASSUME NEW j \in JVMs, NEW a \in ATs, NEW t \in Types
    PROVE  /\ requests[j] \in Seq(PackagesToJVM) =>
                 (WillListen(j, a, t) <=>
                    \/ Range(requests[j]) \cap About(a, t) = {} /\ a \in Listeners(j, t)
                    \/ LastIn(requests[j], About(a, t), Adds(a, t)))
           /\ requests'[j] \in Seq(PackagesToJVM) =>
                 (WillListen(j, a, t)' <=>
                    \/ Range(requests'[j]) \cap About(a, t) = {} /\ a \in Listeners(j, t)'
                    \/ LastIn(requests'[j], About(a, t), Adds(a, t)))
           /\ a \in Listeners(j, t) <=> Bit(t) \in wanted[j][a][Family(t)]
           /\ a \in Listeners(j, t)' <=> Bit(t) \in wanted'[j][a][Family(t)]
<1>1. requests[j] \in Seq(PackagesToJVM) =>
        (WillListen(j, a, t) <=>
           \/ Range(requests[j]) \cap About(a, t) = {} /\ a \in Listeners(j, t)
           \/ LastIn(requests[j], About(a, t), Adds(a, t)))
  BY LastRegistration DEF WillListen, Pending
<1>2. requests'[j] \in Seq(PackagesToJVM) =>
        (WillListen(j, a, t)' <=>
           \/ Range(requests'[j]) \cap About(a, t) = {} /\ a \in Listeners(j, t)'
           \/ LastIn(requests'[j], About(a, t), Adds(a, t)))
  BY LastRegistration DEF WillListen, Pending
<1>3. /\ a \in Listeners(j, t) <=> Bit(t) \in wanted[j][a][Family(t)]
      /\ a \in Listeners(j, t)' <=> Bit(t) \in wanted'[j][a][Family(t)]
  BY DEF Listeners
<1> QED BY <1>1, <1>2, <1>3

\* What is sent to j decides what it will listen to, if it is about that.
LEMMA ListeningAfterPost ==
    ASSUME TypeOK, NEW j \in JVMs, wanted'[j] = wanted[j], NEW a \in ATs, NEW t \in Types,
           NEW ms \in Seq(PackagesToJVM), requests'[j] = requests[j] \o ms
    PROVE  /\ Range(ms) \cap About(a, t) = {} =>
                 (WillListen(j, a, t)' <=> WillListen(j, a, t))
           /\ Range(ms) \cap About(a, t) # {} =>
                 (WillListen(j, a, t)' <=> LastIn(ms, About(a, t), Adds(a, t)))
<1> DEFINE P == About(a, t)
           A == Adds(a, t)
<1>1. /\ requests[j] \in Seq(PackagesToJVM) /\ requests'[j] \in Seq(PackagesToJVM)
      /\ A \subseteq P
      /\ Range(requests'[j]) = Range(requests[j]) \cup Range(ms)
      /\ a \in Listeners(j, t)' <=> a \in Listeners(j, t)
  <2>1. requests[j] \in Seq(PackagesToJVM)
    BY DEF TypeOK
  <2> QED BY <2>1, RangeOfPosted DEF Adds, Listeners
<1>2. WillListen(j, a, t) <=> \/ Range(requests[j]) \cap P = {} /\ a \in Listeners(j, t)
                              \/ LastIn(requests[j], P, A)
  BY <1>1, Listening
<1>3. WillListen(j, a, t)' <=> \/ Range(requests'[j]) \cap P = {} /\ a \in Listeners(j, t)'
                               \/ LastIn(requests'[j], P, A)
  BY <1>1, Listening
<1> HIDE DEF P, A
<1>4. /\ Range(ms) \cap P = {} => (LastIn(requests'[j], P, A) <=> LastIn(requests[j], P, A))
      /\ Range(ms) \cap P # {} => (LastIn(requests'[j], P, A) <=> LastIn(ms, P, A))
  BY <1>1, LastAfterPost
<1>5. Range(ms) \cap P = {} => (WillListen(j, a, t)' <=> WillListen(j, a, t))
  BY <1>1, <1>2, <1>3, <1>4
<1>6. Range(ms) \cap P # {} => (WillListen(j, a, t)' <=> LastIn(ms, P, A))
  BY <1>1, <1>2, <1>3, <1>4
<1> QED BY <1>5, <1>6 DEF P, A

\* What j reads from its queue decides what it listens to, if it was the last about that.
LEMMA ListeningAfterRead ==
    ASSUME TypeOK, NEW j \in JVMs, NEW a \in ATs, NEW t \in Types, Served(j)
    PROVE  /\ Range(requests'[j]) \cap About(a, t) # {} =>
                 (WillListen(j, a, t)' <=> WillListen(j, a, t))
           /\ Range(requests'[j]) \cap About(a, t) = {} =>
                 /\ WillListen(j, a, t)' <=> a \in Listeners(j, t)'
                 /\ Request(j) \in About(a, t) =>
                       (WillListen(j, a, t) <=> Request(j) \in Adds(a, t))
                 /\ Request(j) \notin About(a, t) =>
                       (WillListen(j, a, t) <=> a \in Listeners(j, t))
<1> DEFINE P == About(a, t)
           A == Adds(a, t)
           q == requests[j]
           r == requests'[j]
<1>1. /\ q \in Seq(PackagesToJVM) /\ q # <<>> /\ r = Tail(q) /\ r \in Seq(PackagesToJVM)
      /\ A \subseteq P /\ Range(q) = {Head(q)} \cup Range(r)
  BY RequestTaken DEF TypeOK, Served, Request, Adds
<1>2. /\ WillListen(j, a, t) <=> \/ Range(q) \cap P = {} /\ a \in Listeners(j, t)
                                 \/ LastIn(q, P, A)
      /\ WillListen(j, a, t)' <=> \/ Range(r) \cap P = {} /\ a \in Listeners(j, t)'
                                  \/ LastIn(r, P, A)
      /\ Request(j) = Head(q)
  BY <1>1, Listening DEF Request
<1> HIDE DEF P, A, q, r
<1>3. /\ Range(r) \cap P = {} => (LastIn(q, P, A) <=> Head(q) \in A)
      /\ Range(r) \cap P # {} => (LastIn(q, P, A) <=> LastIn(r, P, A))
  BY <1>1, LastAfterRead
<1>4. Range(r) \cap P = {} => ~LastIn(r, P, A)
  BY <1>1, LastOfFew
<1>5. CASE Range(r) \cap P # {}
  <2>1. Range(q) \cap P # {}
    BY <1>1, <1>5
  <2> QED BY <1>2, <1>3, <1>5, <2>1 DEF P, r
<1>6. CASE Range(r) \cap P = {}
  <2>1. WillListen(j, a, t)' <=> a \in Listeners(j, t)'
    BY <1>2, <1>4, <1>6
  <2>2. Head(q) \in P => (WillListen(j, a, t) <=> Head(q) \in A)
    BY <1>1, <1>2, <1>3, <1>6
  <2>3. Head(q) \notin P => (WillListen(j, a, t) <=> a \in Listeners(j, t))
    BY <1>1, <1>2, <1>3, <1>6
  <2> QED BY <1>2, <1>6, <2>1, <2>2, <2>3 DEF P, A, r
<1> QED BY <1>5, <1>6

\* Steps without registrations.
LEMMA OthersKeepRegistrations ==
    ASSUME TypeOK, RegistrationsAddUp, alive' \subseteq alive, callback' = callback,
           \A j \in alive' :
              /\ wanted'[j] = wanted[j]
              /\ \A a \in ATs : relation'[a][j] = "met" <=> relation[a][j] = "met"
              /\ \/ requests'[j] = requests[j]
                 \/ \E ms \in Seq(PackagesToJVM) : /\ requests'[j] = requests[j] \o ms
                                                   /\ Range(ms) \cap Registrations = {}
    PROVE  RegistrationsAddUp'
<1> SUFFICES ASSUME NEW j \in alive', NEW a \in ATs, NEW t \in Types
             PROVE  WillListen(j, a, t)' <=> (j \in Met(a)' /\ t \in callback'[a])
  BY DEF RegistrationsAddUp
<1>1. /\ j \in JVMs /\ j \in alive
      /\ j \in Met(a)' <=> j \in Met(a)
      /\ WillListen(j, a, t) <=> (j \in Met(a) /\ t \in callback[a])
  BY DEF TypeOK, Met, RegistrationsAddUp
<1>2. WillListen(j, a, t)' <=> WillListen(j, a, t)
  <2>1. CASE requests'[j] = requests[j]
    BY <2>1 DEF WillListen, Pending, Listeners
  <2>2. CASE requests'[j] # requests[j]
    <3>1. PICK ms \in Seq(PackagesToJVM) : /\ requests'[j] = requests[j] \o ms
                                           /\ Range(ms) \cap Registrations = {}
      BY <2>2
    <3>2. Range(ms) \cap About(a, t) = {}
      BY <3>1 DEF About
    <3> QED BY <1>1, <3>1, <3>2, ListeningAfterPost
  <2> QED BY <2>1, <2>2
<1> QED BY <1>1, <1>2

\* A callback that is set or cleared.
LEMMA CallbacksKeepRegistrations ==
    ASSUME TypeOK, RegistrationsAddUp, NEW a \in ATs, NEW t \in Types,
           SetCallback(a, t) \/ ClearCallback(a, t)
    PROVE  RegistrationsAddUp'
<1>1. /\ alive' = alive /\ wanted' = wanted /\ relation' = relation /\ alive \subseteq JVMs
      /\ \A b \in ATs : b # a => callback'[b] = callback[b]
      /\ Family(t) \in Families /\ Bit(t) \in Bits
  BY KnownTypes, TypesAreKnown DEF SetCallback, ClearCallback, TypeOK
<1>2. PICK m \in Registrations :
         /\ m.window = a /\ m.family = Family(t) /\ m.mask = {Bit(t)}
         /\ requests' = Send(Met(a), <<m>>)
         /\ \/ m.type = "Add" /\ callback'[a] = callback[a] \cup {t}
            \/ m.type = "Remove" /\ callback'[a] = callback[a] \ {t}
  <2>1. CASE SetCallback(a, t)
    <3>1. PICK m : m = AddNotification(a, Family(t), {Bit(t)})
      OBVIOUS
    <3>2. /\ m \in Registrations /\ m.window = a /\ m.family = Family(t) /\ m.mask = {Bit(t)}
          /\ m.type = "Add"
      BY <1>1, <3>1 DEF AddNotification, Registrations
    <3>3. requests' = Send(Met(a), <<m>>) /\ callback'[a] = callback[a] \cup {t}
      BY <2>1, <3>1 DEF SetCallback, TypeOK
    <3> QED BY <3>2, <3>3
  <2>2. CASE ClearCallback(a, t)
    <3>1. PICK m : m = RemoveNotification(a, Family(t), {Bit(t)})
      OBVIOUS
    <3>2. /\ m \in Registrations /\ m.window = a /\ m.family = Family(t) /\ m.mask = {Bit(t)}
          /\ m.type = "Remove"
      BY <1>1, <3>1 DEF RemoveNotification, Registrations
    <3>3. requests' = Send(Met(a), <<m>>) /\ callback'[a] = callback[a] \ {t}
      BY <2>2, <3>1 DEF ClearCallback, TypeOK
    <3> QED BY <3>2, <3>3
  <2> QED BY <2>1, <2>2
<1> DEFINE ms == <<m>>
<1>3. ms \in Seq(PackagesToJVM) /\ Range(ms) = {m} /\ m \in PackagesToJVM
  BY RangeOfOne DEF PackagesToJVM
<1>4. SUFFICES ASSUME NEW j \in alive, NEW b \in ATs, NEW u \in Types
               PROVE  WillListen(j, b, u)' <=> (j \in Met(b) /\ u \in callback'[b])
  BY <1>1 DEF RegistrationsAddUp, Met
<1>5. /\ j \in JVMs
      /\ requests'[j] = IF j \in Met(a) THEN requests[j] \o ms ELSE requests[j]
      /\ WillListen(j, b, u) <=> (j \in Met(b) /\ u \in callback[b])
  BY <1>1, <1>2 DEF Send, RegistrationsAddUp
\* The package is about type t of a, and about nothing else.
<1>6. m \in About(b, u) <=> b = a /\ u = t
  <2>1. ASSUME b = a, Bit(u) = Bit(t), Family(u) = Family(t) PROVE u = t
    BY <2>1, OneBitEach, TypesAreKnown
  <2> QED BY <1>2, <2>1 DEF About
<1>7. CASE j \notin Met(a)
  <2>1. WillListen(j, b, u)' <=> WillListen(j, b, u)
    BY <1>1, <1>5, <1>7 DEF WillListen, Pending, Listeners
  <2> QED BY <1>1, <1>5, <1>7, <2>1
<1>8. CASE j \in Met(a) /\ b = a /\ u = t
  <2>1. Range(ms) \cap About(b, u) # {}
    BY <1>3, <1>6, <1>8
  <2> HIDE DEF ms
  <2>2. WillListen(j, b, u)' <=> LastIn(ms, About(b, u), Adds(b, u))
    BY <1>1, <1>3, <1>5, <1>8, <2>1, ListeningAfterPost
  <2>3. LastIn(ms, About(b, u), Adds(b, u)) <=> m \in Adds(b, u)
    <3>1. Adds(b, u) \subseteq About(b, u)
      BY DEF Adds
    <3>2. LastIn(<<m>>, About(b, u), Adds(b, u)) <=> m \in Adds(b, u)
      BY <1>3, <3>1, LastOfFew
    <3> QED BY <3>2 DEF ms
  <2>4. m \in Adds(b, u) <=> m.type = "Add"
    BY <1>6, <1>8 DEF Adds
  <2>5. m.type = "Add" <=> u \in callback'[b]
    BY <1>2, <1>8
  <2> QED BY <1>8, <2>2, <2>3, <2>4, <2>5
<1>9. CASE j \in Met(a) /\ ~(b = a /\ u = t)
  <2>1. Range(ms) \cap About(b, u) = {}
    BY <1>3, <1>6, <1>9
  <2> HIDE DEF ms
  <2>2. WillListen(j, b, u)' <=> WillListen(j, b, u)
    BY <1>1, <1>3, <1>5, <1>9, <2>1, ListeningAfterPost
  <2>3. u \in callback'[b] <=> u \in callback[b]
    BY <1>1, <1>2, <1>9
  <2> QED BY <1>5, <2>2, <2>3
<1> QED BY <1>7, <1>8, <1>9

\* The mask of a family has the bits of its types, and no others.
LEMMA MaskIsExact ==
    ASSUME NEW t \in EventTypes, NEW T \in SUBSET EventTypes
    PROVE  Bit(t) \in Mask(Family(t), T) <=> t \in T
  BY OneBitEach DEF Mask

\* What an AT asks of a JVM that it meets is exactly what it has callbacks for.
LEMMA GreetingListens ==
    ASSUME TypeOK, NEW a \in ATs, NEW t \in Types
    PROVE  LET ms == [i \in 1 .. 2 |-> LET f == <<"Java", "Accessibility">>[i]
                                      IN  AddNotification(a, f, Mask(f, callback[a]))]
           IN  /\ Range(ms) \cap About(a, t) # {} <=> t \in callback[a]
               /\ t \in callback[a] => LastIn(ms, About(a, t), Adds(a, t))
<1> DEFINE Add(f) == AddNotification(a, f, Mask(f, callback[a]))
           F  == <<"Java", "Accessibility">>
           ms == [i \in 1 .. 2 |-> Add(F[i])]
<1>1. \A f \in Families : Mask(f, callback[a]) \subseteq Bits
  BY KnownTypes, TypesAreKnown DEF Mask, TypeOK
<1>2. \A f \in Families : /\ Add(f) \in Registrations /\ Add(f).type = "Add"
                          /\ Add(f).window = a /\ Add(f).family = f
                          /\ Add(f).mask = Mask(f, callback[a])
  BY <1>1 DEF AddNotification, Registrations
<1>3. \A f \in Families : Add(f) \in About(a, t) <=> f = Family(t) /\ t \in callback[a]
  <2>1. Bit(t) \in Mask(Family(t), callback[a]) <=> t \in callback[a]
    BY MaskIsExact, TypesAreKnown DEF TypeOK
  <2> QED BY <1>2, <2>1 DEF About
<1>4. \A f \in Families : Add(f) \in Adds(a, t) <=> f = Family(t) /\ t \in callback[a]
  BY <1>2, <1>3 DEF Adds
<1>5. /\ \A i \in 1 .. 2 : F[i] \in Families
      /\ \A i, k \in 1 .. 2 : F[i] = F[k] => i = k
      /\ \E i \in 1 .. 2 : F[i] = Family(t)
  <2>1. Family(t) \in Families
    BY KnownTypes, TypesAreKnown
  <2> QED BY <2>1 DEF Families
<1>6. DOMAIN ms = 1 .. 2 /\ \A i \in 1 .. 2 : ms[i] = Add(F[i])
  OBVIOUS
<1>7. Range(ms) = {ms[i] : i \in 1 .. 2}
  BY <1>6 DEF Range
<1> HIDE DEF Add, F, ms
<1>8. Range(ms) \cap About(a, t) # {} <=> t \in callback[a]
  BY <1>3, <1>5, <1>6, <1>7
<1>9. ASSUME t \in callback[a] PROVE LastIn(ms, About(a, t), Adds(a, t))
  <2>1. PICK i \in 1 .. 2 : F[i] = Family(t)
    BY <1>5
  <2>2. ms[i] \in Adds(a, t)
    BY <1>4, <1>5, <1>6, <1>9, <2>1
  <2>3. \A k \in 1 .. 2 : ms[k] \in About(a, t) => k = i
    BY <1>3, <1>5, <1>6, <2>1
  <2> QED BY <1>6, <2>2, <2>3 DEF LastIn
<1> QED BY <1>8, <1>9 DEF ms, Add, F

\* A JVM that is met.
LEMMA MeetingKeepsRegistrations ==
    ASSUME TypeOK, OwnRegistrations, RegistrationsAddUp, NEW a \in ATs, NEW j \in JVMs, Meet(a, j)
    PROVE  RegistrationsAddUp'
<1> DEFINE ms == [i \in 1 .. 2 |-> LET f == <<"Java", "Accessibility">>[i]
                                  IN  AddNotification(a, f, Mask(f, callback[a]))]
<1>1. /\ alive' = alive /\ wanted' = wanted /\ callback' = callback /\ alive \subseteq JVMs
      /\ j \in alive /\ j \notin Met(a)
      /\ \A b \in ATs : Met(b)' = IF b = a THEN Met(a) \cup {j} ELSE Met(b)
      /\ requests' = Send({j}, ms)
  BY DEF Meet, TypeOK, Met
<1>2. ms \in Seq(PackagesToJVM) /\ \A p \in Range(ms) : p.type = "Add" /\ p.window = a
  BY Greeting
<1>3. \A t \in Types : /\ Range(ms) \cap About(a, t) # {} <=> t \in callback[a]
                       /\ t \in callback[a] => LastIn(ms, About(a, t), Adds(a, t))
  BY GreetingListens
<1> HIDE DEF ms
<1>4. SUFFICES ASSUME NEW k \in alive, NEW b \in ATs, NEW t \in Types
               PROVE  WillListen(k, b, t)' <=> (k \in Met(b)' /\ t \in callback[b])
  BY <1>1 DEF RegistrationsAddUp
<1>5. /\ k \in JVMs
      /\ requests'[k] = IF k = j THEN requests[k] \o ms ELSE requests[k]
      /\ WillListen(k, b, t) <=> (k \in Met(b) /\ t \in callback[b])
  BY <1>1 DEF Send, RegistrationsAddUp
<1>6. CASE k # j
  <2>1. WillListen(k, b, t)' <=> WillListen(k, b, t)
    <3>1. requests'[k] = requests[k] /\ wanted'[k] = wanted[k]
      BY <1>1, <1>5, <1>6
    <3> QED BY <3>1 DEF WillListen, Pending, Listeners
  <2>2. k \in Met(b)' <=> k \in Met(b)
    BY <1>1, <1>6
  <2> QED BY <1>5, <2>1, <2>2
<1>7. CASE k = j /\ Range(ms) \cap About(b, t) = {}
  <2>1. WillListen(k, b, t)' <=> WillListen(k, b, t)
    BY <1>1, <1>2, <1>5, <1>7, ListeningAfterPost
  <2>2. CASE b = a
    BY <1>1, <1>3, <1>5, <1>7, <2>1, <2>2
  <2>3. CASE b # a
    BY <1>1, <1>5, <2>1, <2>3
  <2> QED BY <2>2, <2>3
<1>8. CASE k = j /\ Range(ms) \cap About(b, t) # {}
  <2>1. b = a
    BY <1>2, <1>8 DEF About
  <2>2. t \in callback[a] /\ LastIn(ms, About(a, t), Adds(a, t))
    BY <1>3, <1>8, <2>1
  <2>3. WillListen(k, b, t)'
    BY <1>1, <1>2, <1>5, <1>8, <2>1, <2>2, ListeningAfterPost
  <2> QED BY <1>1, <1>8, <2>1, <2>2, <2>3
<1> QED BY <1>6, <1>7, <1>8

\* A JVM that serves a registration, or another request.
LEMMA ServingKeepsRegistrations ==
    ASSUME TypeOK, RegistrationsAddUp, NEW j \in JVMs, HandleRequest(j)
    PROVE  RegistrationsAddUp'
<1> DEFINE p == Request(j)
<1>1. /\ Served(j) /\ alive' = alive /\ callback' = callback /\ relation' = relation
      /\ alive \subseteq JVMs
      /\ p \in PackagesToJVM /\ \A k \in JVMs : k # j => requests'[k] = requests[k]
  BY RequestTaken DEF HandleRequest, ServeRegistration, ServeObject, TypeOK
<1>2. \/ /\ p \in Registrations
         /\ wanted' = [wanted EXCEPT ![j][p.window][p.family] =
                         IF p.type = "Add" THEN @ \cup p.mask ELSE @ \ p.mask]
      \/ p \notin Registrations /\ wanted' = wanted
  BY <1>1 DEF HandleRequest, ServeRegistration, ServeObject, PackagesToJVM, Registrations,
              ObjectRequests
<1> HIDE DEF p
<1>3. SUFFICES ASSUME NEW k \in alive, NEW a \in ATs, NEW t \in Types
               PROVE  WillListen(k, a, t)' <=> WillListen(k, a, t)
  BY <1>1 DEF RegistrationsAddUp, Met
<1>4. k \in JVMs
  BY <1>1
<1>5. CASE k # j
  <2>1. requests'[k] = requests[k] /\ wanted'[k] = wanted[k]
    BY <1>1, <1>2, <1>4, <1>5 DEF TypeOK
  <2> QED BY <2>1 DEF WillListen, Pending, Listeners
<1>6. CASE k = j /\ Range(requests'[j]) \cap About(a, t) # {}
  BY <1>1, <1>6, ListeningAfterRead
<1>7. CASE k = j /\ Range(requests'[j]) \cap About(a, t) = {}
  <2>1. /\ WillListen(j, a, t)' <=> a \in Listeners(j, t)'
        /\ p \in About(a, t) => (WillListen(j, a, t) <=> p \in Adds(a, t))
        /\ p \notin About(a, t) => (WillListen(j, a, t) <=> a \in Listeners(j, t))
    BY <1>1, <1>7, ListeningAfterRead DEF p
  <2>2. /\ a \in Listeners(j, t) <=> Bit(t) \in wanted[j][a][Family(t)]
        /\ a \in Listeners(j, t)' <=> Bit(t) \in wanted'[j][a][Family(t)]
        /\ Family(t) \in Families
    BY Listening, KnownTypes, TypesAreKnown
  <2>3. CASE p \notin Registrations
    <3>1. p \notin About(a, t)
      BY <2>3 DEF About
    <3> QED BY <1>2, <1>7, <2>1, <2>2, <2>3, <3>1
  <2>4. CASE p \in Registrations
    <3>1. wanted'[j][a][Family(t)] =
             IF p.window = a /\ p.family = Family(t)
             THEN IF p.type = "Add" THEN wanted[j][a][Family(t)] \cup p.mask
                                    ELSE wanted[j][a][Family(t)] \ p.mask
             ELSE wanted[j][a][Family(t)]
      <4>1. PICK q \in Registrations :
               /\ q = p
               /\ wanted' = [wanted EXCEPT ![j][q.window][q.family] =
                               IF q.type = "Add" THEN @ \cup q.mask ELSE @ \ q.mask]
        BY <1>2, <2>4
      <4>2. q.window \in ATs /\ q.family \in Families
        BY DEF Registrations
      <4>3. wanted'[j][a][Family(t)] =
               IF q.window = a /\ q.family = Family(t)
               THEN IF q.type = "Add" THEN wanted[j][a][Family(t)] \cup q.mask
                                      ELSE wanted[j][a][Family(t)] \ q.mask
               ELSE wanted[j][a][Family(t)]
        <5>1. PICK n : n = IF q.type = "Add" THEN wanted[j][q.window][q.family] \cup q.mask
                                             ELSE wanted[j][q.window][q.family] \ q.mask
          OBVIOUS
        <5>2. wanted' = [wanted EXCEPT ![j][q.window][q.family] = n]
          BY <4>1, <5>1
        <5>3. wanted'[j][a][Family(t)] = IF q.window = a /\ q.family = Family(t)
                                         THEN n ELSE wanted[j][a][Family(t)]
          BY <2>2, <4>2, <5>2 DEF TypeOK
        <5> QED BY <5>1, <5>3
      <4> QED BY <4>1, <4>3
    <3>2. p \in About(a, t) <=> p.window = a /\ p.family = Family(t) /\ Bit(t) \in p.mask
      BY <2>4 DEF About
    <3>3. p \in Adds(a, t) <=> p \in About(a, t) /\ p.type = "Add"
      BY DEF Adds
    <3>4. CASE p \in About(a, t)
      <4>1. Bit(t) \in wanted'[j][a][Family(t)] <=> p.type = "Add"
        BY <3>1, <3>2, <3>4
      <4> QED BY <1>7, <2>1, <2>2, <3>3, <3>4, <4>1
    <3>5. CASE p \notin About(a, t)
      <4>1. Bit(t) \in wanted'[j][a][Family(t)] <=> Bit(t) \in wanted[j][a][Family(t)]
        BY <3>1, <3>2, <3>5
      <4> QED BY <1>7, <2>1, <2>2, <3>5, <4>1
    <3> QED BY <3>4, <3>5
  <2> QED BY <2>3, <2>4
<1> QED BY <1>5, <1>6, <1>7

\* Initially nothing is registered, and nobody has met anyone ...
LEMMA RegistrationsInit == Init => RegistrationsAddUp
<1> SUFFICES ASSUME Init, NEW j \in alive, NEW a \in ATs, NEW t \in Types
             PROVE  ~WillListen(j, a, t) /\ j \notin Met(a)
  BY DEF RegistrationsAddUp
<1>1. j \in JVMs /\ requests[j] = <<>> /\ wanted[j][a][Family(t)] = {} /\ j \notin Met(a)
  BY KnownTypes, TypesAreKnown DEF Init, Met
<1>2. DOMAIN requests[j] = {}
  BY <1>1
<1> QED BY <1>1, <1>2 DEF WillListen, Pending, Listeners

\* ... and every step keeps the accounts.
LEMMA RegistrationsStep == IInv /\ RegistrationsAddUp /\ [Next]_vars => RegistrationsAddUp'
<1> SUFFICES ASSUME IInv, RegistrationsAddUp, [Next]_vars PROVE RegistrationsAddUp'
  OBVIOUS
<1>1. TypeOK /\ OwnRegistrations /\ OwnEvents /\ alive \subseteq JVMs
  BY DEF IInv, OwnObjects, TypeOK
\* What is sent about an object is no registration.
<1>2. ASSUME NEW J, NEW ms \in Seq(PackagesToJVM), requests' = Send(J, ms),
             Range(ms) \cap Registrations = {},
             UNCHANGED <<alive, relation, callback, wanted>>
      PROVE  RegistrationsAddUp'
  <2>1. \A j \in alive : \/ requests'[j] = requests[j]
                         \/ \E m \in Seq(PackagesToJVM) : /\ requests'[j] = requests[j] \o m
                                                          /\ Range(m) \cap Registrations = {}
    BY <1>1, <1>2 DEF Send
  <2> QED BY <1>1, <1>2, <2>1, OthersKeepRegistrations
<1>3. \A r : ReleaseObject(r) \notin Registrations /\ CallOn(r) \notin Registrations
  BY DEF ReleaseObject, CallOn, Registrations
<1>4. ASSUME NEW a \in ATs, NEW t \in Types, SetCallback(a, t) \/ ClearCallback(a, t)
      PROVE  RegistrationsAddUp'
  BY <1>1, <1>4, CallbacksKeepRegistrations
<1>5. ASSUME NEW a \in ATs, NEW j \in JVMs, Meet(a, j) PROVE RegistrationsAddUp'
  BY <1>1, <1>5, MeetingKeepsRegistrations
<1>6. ASSUME NEW a \in ATs, HandleEvent(a) PROVE RegistrationsAddUp'
  <2> DEFINE e == Head(events[a])
  <2>1. e \in EventPackages /\ EventFrom(a) /\ Took(a) /\ e \in Range(events[a])
    BY <1>1, <1>6, EventTaken DEF HandleEvent, CallBack, NoCallback, ReceiveDestroyed
  <2>2. CASE CallBack(a)
    BY <1>1, <2>2, OthersKeepRegistrations DEF CallBack
  <2>3. CASE NoCallback(a)
    <3> DEFINE ms == [i \in DOMAIN e.objects |-> ReleaseObject(e.objects[i])]
    <3>1. ms \in Seq(PackagesToJVM) /\ Range(ms) = {ReleaseObject(r) : r \in Range(e.objects)}
      BY <2>1, Releases
    <3>2. Range(ms) \cap Registrations = {}
      BY <1>3, <3>1
    <3>3. requests' = Send({e.vm}, ms) /\ UNCHANGED <<alive, relation, callback, wanted>>
      BY <2>3 DEF NoCallback
    <3> HIDE DEF ms
    <3> QED BY <1>2, <3>1, <3>2, <3>3
  <2>4. CASE ReceiveDestroyed(a)
    <3>1. /\ e.vm \notin alive /\ e.vm \in JVMs
          /\ relation' = [relation EXCEPT ![a][e.vm] = "gone"]
          /\ UNCHANGED <<alive, callback, requests, wanted>>
      BY <1>1, <2>1, <2>4 DEF ReceiveDestroyed, OwnEvents, EventPackages
    <3>2. \A j \in alive, b \in ATs : relation'[b][j] = relation[b][j]
      BY <1>1, <3>1 DEF TypeOK
    <3> QED BY <1>1, <3>1, <3>2, OthersKeepRegistrations
  <2> QED BY <1>6, <2>2, <2>3, <2>4 DEF HandleEvent
<1>7. ASSUME NEW a \in ATs, NEW r \in inHand[a], ReleaseJavaObject(a, r) \/ Call(a, r)
      PROVE  RegistrationsAddUp'
  <2>1. r \in Objects
    BY <1>1 DEF TypeOK
  <2>2. PICK p \in {ReleaseObject(r), CallOn(r)} : requests' = Send({r.vm} \cap Met(a), <<p>>)
    BY <1>7 DEF ReleaseJavaObject, Call
  <2>3. <<p>> \in Seq(PackagesToJVM) /\ Range(<<p>>) = {p}
    BY <2>1, RequestsArePackages, RangeOfOne
  <2>4. UNCHANGED <<alive, relation, callback, wanted>>
    BY <1>7 DEF ReleaseJavaObject, Call
  <2> QED BY <1>2, <1>3, <2>2, <2>3, <2>4
<1>8. ASSUME NEW j \in JVMs, HandleRequest(j) PROVE RegistrationsAddUp'
  BY <1>1, <1>8, ServingKeepsRegistrations
<1>9. ASSUME NEW j \in JVMs, NEW t \in Types, Post(j, t) PROVE RegistrationsAddUp'
  BY <1>1, <1>9, OthersKeepRegistrations DEF Post
<1>10. ASSUME NEW j \in JVMs, ShutDown(j) \/ Crash(j) PROVE RegistrationsAddUp'
  <2>1. /\ alive' = alive \ {j} /\ UNCHANGED <<relation, callback>>
        /\ \A k \in JVMs : k # j => requests'[k] = requests[k] /\ wanted'[k] = wanted[k]
    BY <1>1, <1>10 DEF ShutDown, Crash, End, TypeOK
  <2> QED BY <1>1, <2>1, OthersKeepRegistrations
<1>11. CASE UNCHANGED vars
  BY <1>1, <1>11, OthersKeepRegistrations DEF vars
<1> QED BY <1>4, <1>5, <1>6, <1>7, <1>8, <1>9, <1>10, <1>11 DEF Next, ReleaseOne

\* Whenever a callback is set or cleared, before or after a JVM is met: what a
\* running JVM is registered for, once it has served its queue, is what the AT
\* has callbacks for.  The set...FP and addJavaEventNotification functions of
\* AccessBridgeCalls.h and the notification packages work together for this.
THEOREM RegistrationsFollowCallbacks == Spec => []RegistrationsAddUp
  BY LostInit, LostStep, RegistrationsInit, RegistrationsStep, PTL DEF Spec

===============================================================================
