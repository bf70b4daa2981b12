--------------------------- MODULE HypertextPaging ---------------------------
(***************************************************************************)
(* An assistive technology iterates through the hyperlinks of a component  *)
(* (include/win32/bridge/AccessBridgeCalls.h): it asks for their number    *)
(* with getAccessibleHyperlinkCount and then, page by page, for the links  *)
(* from an index on with getAccessibleHypertextExt, which returns no more  *)
(* than MAX_HYPERLINKS of them per call.                                   *)
(*                                                                         *)
(* Each call is answered by the JVM from the document as it is then; the   *)
(* application edits the document between the calls.  The iteration itself *)
(* is the caller's: it is the one the header has in mind.                  *)
(***************************************************************************)
EXTENDS Naturals, Sequences, SequencesExt, FiniteSetsExt, Functions

CONSTANTS Links,          \* the hyperlinks the document may come to have
          MAX_HYPERLINKS  \* how many fit in an AccessibleHypertextInfo

ASSUME PageIsNotEmpty == MAX_HYPERLINKS \in Nat \ {0}

VARIABLES document,  \* the document's links, first to last
          fresh,     \* the links it has not had yet: a link never comes back
          pc,        \* the AT's iteration: "idle", "paging", "done" or "failed"
          linkCount, \* how many links it was told there are
          start,     \* the index it asks for next
          got,       \* the links it has received, in order
          had,       \* the links there were when it began
          shifted    \* the kinds of edits before index start since it began

vars == <<document, fresh, pc, linkCount, start, got, had, shifted>>
edited == <<document, fresh>>

TypeOK ==
    /\ document \in Seq(Links) /\ IsInjective(document)
    /\ fresh \in SUBSET (Links \ Range(document))
    /\ pc \in {"idle", "paging", "done", "failed"}
    /\ linkCount \in Nat
    /\ start \in 0 .. linkCount + MAX_HYPERLINKS - 1
    /\ got \in Seq(Links)
    /\ had \in SUBSET Links
    /\ shifted \in SUBSET {"insertion", "removal"}

Init ==
    /\ document \in {d \in SeqOf(Links, Cardinality(Links)) : IsInjective(d)}
    /\ fresh = Links \ Range(document)
    /\ pc = "idle"
    /\ linkCount = 0
    /\ start = 0
    /\ got = <<>>
    /\ had = {}
    /\ shifted = {}

-----------------------------------------------------------------------------
(***************************************************************************)
(* Variants with a bug each, used to see the properties fail.              *)
(***************************************************************************)
\* The index is taken for that of the last link received.
PageBehind(nStartIndex) ==
    SubSeq(document, nStartIndex + 2, Min({nStartIndex + MAX_HYPERLINKS + 1, Len(document)}))

\* Asks again for the last link of the page.
Overlap(page) == start + Len(page) - (IF Len(page) > 1 THEN 1 ELSE 0)

\* Takes the length of the page for the index of its last link.
SkipOne(page) == start + Len(page) + 1

\* Does not look at whether the call succeeded.
CarryOn ==
    /\ pc = "paging"
    /\ start < linkCount
    /\ UNCHANGED vars

-----------------------------------------------------------------------------
(***************************************************************************)
(* The answer of getAccessibleHypertextExt: the links from nStartIndex on  *)
(* that fit.  Indices count from 0; the call fails (returns FALSE) when    *)
(* there is no such link, and may fail for reasons of the JVM's own.       *)
(***************************************************************************)
Page(nStartIndex) ==
    SubSeq(document, nStartIndex + 1, Min({nStartIndex + MAX_HYPERLINKS, Len(document)}))

-----------------------------------------------------------------------------
(***************************************************************************)
(* The iteration.                                                          *)
(***************************************************************************)
Begin ==
    /\ pc # "paging"
    /\ pc' = "paging"
    /\ linkCount' = Len(document)
    /\ start' = 0
    /\ got' = <<>>
    /\ had' = Range(document)
    /\ shifted' = {}
    /\ UNCHANGED edited

\* There is an error, and the number of links is -1: the AT asks for none of them.
NoCount ==
    /\ pc # "paging"
    /\ pc' = "failed"
    /\ UNCHANGED <<edited, linkCount, start, got, had, shifted>>

\* The index after a page.
After(page) == start + Len(page)

NextPage ==
    /\ pc = "paging"
    /\ start < linkCount
    /\ start < Len(document)
    /\ got' = got \o Page(start)
    /\ start' = After(Page(start))
    /\ UNCHANGED <<edited, pc, linkCount, had, shifted>>

\* The call fails, because the document has become shorter (then NextPage is
\* not enabled) or for another error.
NoPage ==
    /\ pc = "paging"
    /\ start < linkCount
    /\ pc' = "failed"
    /\ UNCHANGED <<edited, linkCount, start, got, had, shifted>>

Finish ==
    /\ pc = "paging"
    /\ start >= linkCount
    /\ pc' = "done"
    /\ UNCHANGED <<edited, linkCount, start, got, had, shifted>>

-----------------------------------------------------------------------------
(***************************************************************************)
(* The application's edits, at index i of the document.                    *)
(***************************************************************************)
Shift(i, kind) ==
    shifted' = IF pc = "paging" /\ i < start THEN shifted \cup {kind} ELSE shifted

InsertLink(i, l) ==
    /\ document' = InsertAt(document, i + 1, l)
    /\ fresh' = fresh \ {l}
    /\ Shift(i, "insertion")
    /\ UNCHANGED <<pc, linkCount, start, got, had>>

RemoveLink(i) ==
    /\ document' = RemoveAt(document, i + 1)
    /\ Shift(i, "removal")
    /\ UNCHANGED <<fresh, pc, linkCount, start, got, had>>

Iterate == Begin \/ NoCount \/ NextPage \/ NoPage \/ Finish

Next ==
    \/ Iterate
    \/ \E i \in 0 .. Len(document), l \in fresh : InsertLink(i, l)
    \/ \E i \in 0 .. Len(document) - 1 : RemoveLink(i)

\* The AT goes on with an iteration it has begun.
Fairness == WF_vars(NextPage \/ NoPage \/ Finish)

Spec == Init /\ [][Next]_vars
FairSpec == Spec /\ Fairness

-----------------------------------------------------------------------------
(***************************************************************************)
(* Properties.                                                             *)
(***************************************************************************)
\* As long as every edit was behind the pages received, these are exactly the
\* document up to start, in order, however the pages and the edits interleave.
PrefixReceived ==
    pc = "paging" /\ shifted = {} => got = SubSeq(document, 1, start)

\* No link is received twice unless a link was inserted before start: removals,
\* and edits further on, make the AT skip links but never see one again.
ReceivedOnce == "insertion" \notin shifted => IsInjective(got)

\* Whatever was inserted, the AT has passed over no link that was there when it
\* began, unless one was removed before start.
NothingSkipped ==
    pc = "paging" /\ "removal" \notin shifted =>
        \A i \in 1 .. Min({start, Len(document)}) :
            document[i] \in had => document[i] \in Range(got)

\* However the document shrinks and grows meanwhile, the iteration ends.
EveryIterationEnds == pc = "paging" ~> pc # "paging"
=============================================================================
