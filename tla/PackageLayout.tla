---------------------------- MODULE PackageLayout ----------------------------
(***************************************************************************)
(* A pass over the packages of the Java Access Bridge as a compiler makes  *)
(* it, once for every ABI: give the next enumerator of PackageType its     *)
(* number, then lay out the struct of that package run by run.             *)
(*                                                                         *)
(* The number and the bytes are all that the two processes at the ends of  *)
(* the memory-mapped file share, and they may be built for different word  *)
(* sizes: a number taken twice, a field at another offset or a package     *)
(* longer than the union it travels in is seen by no compiler.             *)
(***************************************************************************)
EXTENDS AccessBridgeCalls, Functions, TLC

VARIABLES at,      \* the enumerator reached, an index of PackageType, or 0
          number,  \* the numbers given so far
          run,     \* how many runs of its struct have been placed
          end      \* end[abi]: the offset where they end

vars == <<at, number, run, end>>

Name(i) == PackageType[i][1]

\* The runs of the package reached: none for an enumerator without a struct.
Runs == IF at = 0 \/ Name(at) \notin Packages THEN <<>> ELSE Structs[Name(at)]

Init ==
    /\ at = 0
    /\ number = <<>>
    /\ run = 0
    /\ end = [abi \in ABIs |-> 0]

\* An enumerator's value: the one written down, or one more than the last.
ValueOf(i) == IF PackageType[i][2] = Implicit THEN number[Name(i - 1)] + 1
              ELSE PackageType[i][2]

Number ==
    /\ run = Len(Runs)
    /\ at < Len(PackageType)
    /\ at' = at + 1
    /\ number' = number @@ (Name(at + 1) :> ValueOf(at + 1))
    /\ run' = 0
    /\ end' = [abi \in ABIs |-> 0]

Place ==
    /\ run < Len(Runs)
    /\ run' = run + 1
    /\ end' = [abi \in ABIs |-> PlaceRun(end[abi], Runs[run + 1],
                                         Measure[abi][Runs[run + 1][1]])]
    /\ UNCHANGED <<at, number>>

Next == Number \/ Place

Spec == Init /\ [][Next]_vars

-----------------------------------------------------------------------------
Finished == at = Len(PackageType) /\ run = Len(Runs)

\* A receiver tells a package by its number alone: no number is given twice,
\* whichever group of implicit values grows into the next, and in the end no
\* package is without one.
Dispatchable ==
    /\ IsInjective(number)
    /\ Finished => Packages \subseteq DOMAIN number

\* A 32-bit and a 64-bit process built without ACCESSBRIDGE_ARCH_LEGACY find
\* every field of every package at the same offset.
WordSizeIndependent ==
    \A a, b \in ABIs : ~a.legacy /\ ~b.legacy => end[a] = end[b]

\* A package fits in the union of its direction even when that union has no
\* member for it, as it has none for the hypertext packages.
FitsItsUnion ==
    Runs # <<>> =>
        LET U == IF Name(at) \in JavaInitiatedPackages THEN JavaInitiatedPackages
                 ELSE WindowsInitiatedPackages
        IN  \A abi \in ABIs : end[abi] <= UnionBytes(U)[abi]

\* Two files are written apart, the table of calls and the packages that carry
\* them: the package of a call has a field for all that has to travel, five
\* values apart, and no field besides; an event that comes to Windows is one a
\* callback can be set for; and in the end every call has its numbered package.
CallsTravel ==
    /\ Runs # <<>> /\ Name(at) \in DOMAIN Calls =>
          /\ {Name(at)} \X Lost(Name(at)) =
                {lost \in Dropped : lost[1] = Name(at)}
          /\ Unused(Name(at)) = {}
    /\ Runs # <<>> /\ Name(at) \in EventPackages => Name(at) \in EventCalls
    /\ Finished => AccessBridgeFPs \subseteq DOMAIN number \cap Packages

\* "Union of all package contents" (AccessBridgePackages.h:1927), "Union of all
\* Windows-initiated package contents" (AccessBridgePackages.h:2103): whatever
\* package is laid out is a member of AllPackages, and of the union of the side
\* that sends it.
UnionsAreComplete ==
    Runs # <<>> =>
        /\ Name(at) \in AllPackages
        /\ Name(at) \in JavaInitiatedPackages \cup WindowsInitiatedPackages
=============================================================================
