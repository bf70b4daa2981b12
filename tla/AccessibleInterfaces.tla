------------------------- MODULE AccessibleInterfaces -------------------------
(***************************************************************************)
(* The last field of AccessibleContextInfo, in which the bridge tells an   *)
(* assistive technology which optional interfaces an AccessibleContext     *)
(* has (include/win32/bridge/AccessBridgePackages.h).  The field was the   *)
(* BOOL accessibleValue; it is now the bit field accessibleInterfaces, and *)
(* assistive technologies of both generations read it.                     *)
(***************************************************************************)
EXTENDS Naturals, FiniteSets, FiniteSetsExt

Bits ==
    [AccessibleValue |-> 1, AccessibleAction |-> 2, AccessibleComponent |-> 4,
     AccessibleSelection |-> 8, AccessibleTable |-> 16, AccessibleText |-> 32,
     AccessibleHypertext |-> 64]

Interfaces == DOMAIN Bits

Unfilled == 256  \* no sum of bits
Unread   == 2    \* no BOOL

VARIABLES supported,             \* the interfaces the AccessibleContext has
          accessibleInterfaces,  \* the field, as the bridge has filled it in
          accessibleValue        \* what an older AT has read from it

vars == <<supported, accessibleInterfaces, accessibleValue>>

Init ==
    /\ supported \in SUBSET Interfaces
    /\ accessibleInterfaces = Unfilled
    /\ accessibleValue = Unread

\* The bridge fills in the field.
Fill ==
    /\ accessibleInterfaces = Unfilled
    /\ accessibleInterfaces' = SumSet({Bits[i] : i \in supported})
    /\ UNCHANGED <<supported, accessibleValue>>

\* An AT built with the older header tests the BOOL it knows of.
ReadByOlderAT ==
    /\ accessibleInterfaces # Unfilled
    /\ accessibleValue' = IF accessibleInterfaces # 0 THEN 1 ELSE 0
    /\ UNCHANGED <<supported, accessibleInterfaces>>

Next == Fill \/ ReadByOlderAT

Spec == Init /\ [][Next]_vars

\* "This is backwardly compatable because the old accessibleValue was set to
\* the BOOL value TRUE (i.e., 1) if the AccessibleValue interface is supported"
\* (AccessBridgePackages.h:586-589): an older AT learns from the field whether
\* the context has an AccessibleValue.
BackwardlyCompatible ==
    accessibleValue # Unread =>
        (accessibleValue = 1 <=> "AccessibleValue" \in supported)
=============================================================================
