------------------------ MODULE AccessBridgePackages ------------------------
(***************************************************************************)
(* The packages of the Java Access Bridge (include/win32/bridge/           *)
(* AccessBridgePackages.h): the fields of every struct that goes through   *)
(* the memory-mapped file, how a C compiler lays them out, and which       *)
(* packages the three unions hold.                                         *)
(*                                                                         *)
(* A struct is a sequence of runs <<type, count>>: neighbouring fields of  *)
(* one type, and the elements of an array, lay out alike.  A type is a     *)
(* scalar or the name of another struct.  Package names leave out the      *)
(* suffix "Package".                                                       *)
(***************************************************************************)
EXTENDS Integers, Sequences, SequencesExt, FiniteSetsExt

MAX_BUFFER_SIZE      == 10240
MAX_STRING_SIZE      == 1024
SHORT_STRING_SIZE    == 256
cMemoryMappedNameSize == 255
MAX_TABLE_SELECTIONS == 64
MAX_RELATION_TARGETS == 25
MAX_RELATIONS        == 5
\* A variant used to see a property fail.
ManyHyperlinks == 512

MAX_HYPERLINKS       == 64
MAX_KEY_BINDINGS     == 10
MAX_ICON_INFO        == 8
MAX_ACTION_INFO      == 256
MAX_ACTIONS_TO_DO    == 32
MAX_VISIBLE_CHILDREN == 256

-----------------------------------------------------------------------------
(***************************************************************************)
(* Scalars.  An ABI is the pointer size of the process and whether it was  *)
(* compiled with ACCESSBRIDGE_ARCH_LEGACY, which makes handles pointers.   *)
(* Windows is LLP64: long is 32 bits wide whatever the pointer size.       *)
(***************************************************************************)
ABIs == [pointer : {4, 8}, legacy : BOOLEAN]

\* A variant used to see a property fail: handles as wide as the process's own.
HWNDBytes(abi) == abi.pointer

JOBJECT64Bytes(abi) == IF abi.legacy THEN abi.pointer ELSE 8
ABHWND64Bytes(abi)  == IF abi.legacy THEN abi.pointer ELSE 4

ScalarBytes(abi) ==
    [char |-> 1, jboolean |-> 1, short |-> 2, wchar_t |-> 2, jchar |-> 2,
     int |-> 4, jint |-> 4, long |-> 4, BOOL |-> 4, jfloat |-> 4, jlong |-> 8,
     JOBJECT64 |-> JOBJECT64Bytes(abi), ABHWND64 |-> ABHWND64Bytes(abi)]

Scalars == DOMAIN ScalarBytes([pointer |-> 4, legacy |-> FALSE])

-----------------------------------------------------------------------------
(***************************************************************************)
(* The structs.                                                            *)
(***************************************************************************)
vmID        == <<"long", 1>>
window      == <<"ABHWND64", 1>>
objects(n)  == <<"JOBJECT64", n>>
jints(n)    == <<"jint", n>>
text(n)     == <<"wchar_t", n>>
success     == <<"BOOL", 1>>
answer      == <<"jboolean", 1>>
bundle(s)   == <<s, 1>>

\* A call names the VM and the object it is about, then has its own fields;
\* an event names the VM, the event object and its source.
Call(fields)  == <<vmID, objects(1)>> \o fields
Event(fields) == <<vmID, objects(2)>> \o fields

BundleStructs ==
    [AccessBridgeVersionInfo |-> <<text(4 * SHORT_STRING_SIZE)>>,
     AccessibleContextInfo |-> <<text(2 * MAX_STRING_SIZE + 4 * SHORT_STRING_SIZE),
                                 jints(6), <<"BOOL", 5>>>>,
     AccessibleTextInfo |-> <<jints(3)>>,
     AccessibleTextItemsInfo |-> <<text(1 + SHORT_STRING_SIZE + MAX_STRING_SIZE)>>,
     AccessibleTextSelectionInfo |-> <<jints(2), text(MAX_STRING_SIZE)>>,
     AccessibleTextRectInfo |-> <<jints(4)>>,
     AccessibleTextAttributesInfo |->
        <<<<"BOOL", 6>>, text(3 * SHORT_STRING_SIZE), jints(3), <<"jfloat", 6>>,
          text(MAX_STRING_SIZE)>>]

RendezvousStructs ==
    [MemoryMappedFileCreated |-> <<window, <<"char", cMemoryMappedNameSize>>>>,
     JavaVMCreated |-> <<window, vmID>>,
     JavaVMDestroyed |-> <<window>>,
     WindowsATCreated |-> <<window>>,
     WindowsATDestroyed |-> <<window>>,
     JavaVMPresentNotification |-> <<window, vmID>>,
     WindowsATPresentNotification |-> <<window>>]

CoreStructs ==
    [ReleaseJavaObject |-> Call(<<>>),
     GetAccessBridgeVersion |-> <<vmID, bundle("AccessBridgeVersionInfo")>>,
     IsSameObject |-> <<vmID, objects(2), answer>>,
     IsJavaWindow |-> <<jints(1), answer>>,
     GetAccessibleContextFromHWND |-> <<jints(1), vmID, objects(1)>>,
     GetHWNDFromAccessibleContext |-> <<objects(1), window>>]

ContextStructs ==
    [GetAccessibleContextAt |-> <<jints(2), vmID, objects(2)>>,
     GetAccessibleContextWithFocus |-> Call(<<>>),
     GetAccessibleContextInfo |-> Call(<<bundle("AccessibleContextInfo")>>),
     GetAccessibleChildFromContext |-> Call(<<jints(1), objects(1)>>),
     GetAccessibleParentFromContext |-> Call(<<objects(1)>>)]

TableStructs ==
    [AccessibleTableInfo |-> <<objects(2), jints(2), objects(2)>>,
     AccessibleTableCellInfo |-> <<objects(1), jints(5), answer>>,
     GetAccessibleTableInfo |-> Call(<<bundle("AccessibleTableInfo")>>),
     GetAccessibleTableCellInfo |-> Call(<<jints(2), bundle("AccessibleTableCellInfo")>>),
     GetAccessibleTableRowHeader |-> Call(<<bundle("AccessibleTableInfo")>>),
     GetAccessibleTableColumnHeader |-> Call(<<bundle("AccessibleTableInfo")>>),
     GetAccessibleTableRowDescription |-> Call(<<jints(1), objects(1)>>),
     GetAccessibleTableColumnDescription |-> Call(<<jints(1), objects(1)>>),
     GetAccessibleTableRowSelectionCount |-> Call(<<jints(1)>>),
     IsAccessibleTableRowSelected |-> Call(<<jints(1), answer>>),
     GetAccessibleTableRowSelections |-> Call(<<jints(1 + MAX_TABLE_SELECTIONS)>>),
     GetAccessibleTableColumnSelectionCount |-> Call(<<jints(1)>>),
     IsAccessibleTableColumnSelected |-> Call(<<jints(1), answer>>),
     GetAccessibleTableColumnSelections |-> Call(<<jints(1 + MAX_TABLE_SELECTIONS)>>),
     GetAccessibleTableRow |-> Call(<<jints(2)>>),
     GetAccessibleTableColumn |-> Call(<<jints(2)>>),
     GetAccessibleTableIndex |-> Call(<<jints(3)>>)]

RelationStructs ==
    [AccessibleRelationInfo |->
        <<text(SHORT_STRING_SIZE), jints(1), objects(MAX_RELATION_TARGETS)>>,
     AccessibleRelationSetInfo |-> <<jints(1), <<"AccessibleRelationInfo", MAX_RELATIONS>>>>,
     GetAccessibleRelationSet |-> Call(<<bundle("AccessibleRelationSetInfo")>>)]

HypertextStructs ==
    [AccessibleHyperlinkInfo |-> <<text(SHORT_STRING_SIZE), jints(2), objects(1)>>,
     AccessibleHypertextInfo |->
        <<jints(1), <<"AccessibleHyperlinkInfo", MAX_HYPERLINKS>>, objects(1)>>,
     GetAccessibleHypertext |-> Call(<<bundle("AccessibleHypertextInfo")>>),
     ActivateAccessibleHyperlink |-> Call(<<objects(1), success>>),
     GetAccessibleHyperlinkCount |-> Call(<<jints(1)>>),
     GetAccessibleHypertextExt |->
        Call(<<jints(1), bundle("AccessibleHypertextInfo"), success>>),
     GetAccessibleHyperlink |-> Call(<<jints(1), bundle("AccessibleHyperlinkInfo")>>),
     GetAccessibleHypertextLinkIndex |-> Call(<<jints(2)>>)]

ActionStructs ==
    [AccessibleKeyBindingInfo |-> <<<<"jchar", 1>>, jints(1)>>,
     AccessibleKeyBindings |->
        <<<<"int", 1>>, <<"AccessibleKeyBindingInfo", MAX_KEY_BINDINGS>>>>,
     GetAccessibleKeyBindings |-> Call(<<bundle("AccessibleKeyBindings")>>),
     AccessibleIconInfo |-> <<text(SHORT_STRING_SIZE), jints(2)>>,
     AccessibleIcons |-> <<jints(1), <<"AccessibleIconInfo", MAX_ICON_INFO>>>>,
     GetAccessibleIcons |-> Call(<<bundle("AccessibleIcons")>>),
     AccessibleActionInfo |-> <<text(SHORT_STRING_SIZE)>>,
     AccessibleActions |-> <<jints(1), <<"AccessibleActionInfo", MAX_ACTION_INFO>>>>,
     GetAccessibleActions |-> Call(<<bundle("AccessibleActions")>>),
     AccessibleActionsToDo |-> <<jints(1), <<"AccessibleActionInfo", MAX_ACTIONS_TO_DO>>>>,
     DoAccessibleActions |-> Call(<<bundle("AccessibleActionsToDo"), success, jints(1)>>)]

TextStructs ==
    [GetAccessibleTextInfo |-> Call(<<jints(2), bundle("AccessibleTextInfo")>>),
     GetAccessibleTextItems |-> Call(<<jints(1), bundle("AccessibleTextItemsInfo")>>),
     GetAccessibleTextSelectionInfo |-> Call(<<bundle("AccessibleTextSelectionInfo")>>),
     GetAccessibleTextAttributeInfo |->
        Call(<<jints(1), bundle("AccessibleTextAttributesInfo")>>),
     GetAccessibleTextRectInfo |-> Call(<<jints(1), bundle("AccessibleTextRectInfo")>>),
     GetCaretLocation |-> Call(<<jints(1), bundle("AccessibleTextRectInfo")>>),
     GetAccessibleTextLineBounds |-> Call(<<jints(3)>>),
     GetAccessibleTextRange |-> Call(<<jints(2), text(MAX_BUFFER_SIZE)>>)]

UtilityStructs ==
    [SetTextContents |-> Call(<<text(MAX_STRING_SIZE), success>>),
     GetParentWithRole |-> Call(<<text(SHORT_STRING_SIZE), objects(1)>>),
     GetTopLevelObject |-> Call(<<objects(1)>>),
     GetParentWithRoleElseRoot |-> Call(<<text(SHORT_STRING_SIZE), objects(1)>>),
     GetObjectDepth |-> Call(<<jints(1)>>),
     GetActiveDescendent |-> Call(<<objects(1)>>)]

\* A variant used to see a property fail: the answer has no field.
ValuesUnanswered ==
    [p \in {"GetCurrentAccessibleValueFromContext", "GetMaximumAccessibleValueFromContext",
            "GetMinimumAccessibleValueFromContext"} |-> Call(<<>>)]

ValueStructs ==
    [p \in {"GetCurrentAccessibleValueFromContext", "GetMaximumAccessibleValueFromContext",
            "GetMinimumAccessibleValueFromContext"} |-> Call(<<text(SHORT_STRING_SIZE)>>)]

SelectionStructs ==
    [AddAccessibleSelectionFromContext |-> Call(<<jints(1)>>),
     ClearAccessibleSelectionFromContext |-> Call(<<>>),
     GetAccessibleSelectionFromContext |-> Call(<<jints(1), objects(1)>>),
     GetAccessibleSelectionCountFromContext |-> Call(<<jints(1)>>),
     IsAccessibleChildSelectedFromContext |-> Call(<<jints(1), answer>>),
     RemoveAccessibleSelectionFromContext |-> Call(<<jints(1)>>),
     SelectAllAccessibleSelectionFromContext |-> Call(<<>>)]

NotificationStructs ==
    [p \in {"AddJavaEventNotification", "RemoveJavaEventNotification",
            "AddAccessibilityEventNotification", "RemoveAccessibilityEventNotification"}
       |-> <<<<"jlong", 1>>, window>>]

PropertyEventStructs ==
    [PropertyCaretChange |-> Event(<<jints(2)>>),
     PropertyDescriptionChange |-> Event(<<text(2 * SHORT_STRING_SIZE)>>),
     PropertyNameChange |-> Event(<<text(2 * SHORT_STRING_SIZE)>>),
     PropertySelectionChange |-> Event(<<>>),
     PropertyStateChange |-> Event(<<text(2 * SHORT_STRING_SIZE)>>),
     PropertyTextChange |-> Event(<<>>),
     PropertyValueChange |-> Event(<<text(2 * SHORT_STRING_SIZE)>>),
     PropertyVisibleDataChange |-> Event(<<>>),
     PropertyChildChange |-> Event(<<objects(2)>>),
     PropertyActiveDescendentChange |-> Event(<<objects(2)>>),
     PropertyTableModelChange |-> Event(<<text(2 * SHORT_STRING_SIZE)>>)]

JavaEventStructs ==
    [p \in {"JavaShutdown", "FocusGained", "FocusLost", "CaretUpdate",
            "MouseClicked", "MouseEntered", "MouseExited", "MousePressed", "MouseReleased",
            "MenuCanceled", "MenuDeselected", "MenuSelected", "PopupMenuCanceled",
            "PopupMenuWillBecomeInvisible", "PopupMenuWillBecomeVisible"}
       |-> IF p = "JavaShutdown" THEN <<vmID>> ELSE Event(<<>>)]

TetonStructs ==
    [GetVirtualAccessibleName |-> Call(<<text(MAX_STRING_SIZE), <<"int", 1>>>>),
     RequestFocus |-> Call(<<>>),
     SelectTextRange |-> Call(<<jints(2)>>),
     GetTextAttributesInRange |->
        Call(<<jints(2), bundle("AccessibleTextAttributesInfo"), <<"short", 1>>>>),
     VisibleChildrenInfo |-> <<<<"int", 1>>, objects(MAX_VISIBLE_CHILDREN)>>,
     GetVisibleChildrenCount |-> Call(<<jints(1)>>),
     GetVisibleChildren |-> Call(<<jints(1), bundle("VisibleChildrenInfo"), success>>),
     SetCaretPosition |-> Call(<<jints(1)>>)]

Structs ==
    FoldLeft(LAMBDA f, g : f @@ g, BundleStructs,
        <<RendezvousStructs, CoreStructs, ContextStructs, TableStructs, RelationStructs,
          HypertextStructs, ActionStructs, TextStructs, UtilityStructs, ValueStructs,
          SelectionStructs, NotificationStructs, PropertyEventStructs, JavaEventStructs,
          TetonStructs>>)

\* The structs that are only ever part of a package.
Bundles ==
    DOMAIN BundleStructs \cup
    {"AccessibleTableInfo", "AccessibleTableCellInfo", "AccessibleRelationInfo",
     "AccessibleRelationSetInfo", "AccessibleHyperlinkInfo", "AccessibleHypertextInfo",
     "AccessibleKeyBindingInfo", "AccessibleKeyBindings", "AccessibleIconInfo",
     "AccessibleIcons", "AccessibleActionInfo", "AccessibleActions",
     "AccessibleActionsToDo", "VisibleChildrenInfo"}

Packages == DOMAIN Structs \ Bundles

-----------------------------------------------------------------------------
(***************************************************************************)
(* The layout of a struct: every field at the next multiple of its         *)
(* alignment, the whole padded to the alignment of its widest field.       *)
(***************************************************************************)
AlignUp(n, align) == ((n + align - 1) \div align) * align

\* Where a run of fields of measure m ends when it comes after offset end.
PlaceRun(end, run, m) == AlignUp(end, m.align) + run[2] * m.size

Measure ==
    [abi \in ABIs |->
        LET of[t \in Scalars \cup DOMAIN Structs] ==
              IF t \in Scalars
              THEN [size |-> ScalarBytes(abi)[t], align |-> ScalarBytes(abi)[t]]
              ELSE LET align == Max({of[run[1]].align : run \in ToSet(Structs[t])})
                       end == FoldLeft(LAMBDA e, run : PlaceRun(e, run, of[run[1]]),
                                       0, Structs[t])
                   IN  [size |-> AlignUp(end, align), align |-> align]
        IN  of]

-----------------------------------------------------------------------------
(***************************************************************************)
(* The three unions.  Their members are listed section by section; what a  *)
(* union leaves out of a section is subtracted from it.                    *)
(***************************************************************************)
EventPackages == DOMAIN PropertyEventStructs \cup DOMAIN JavaEventStructs

AllPackages ==
    Packages \cap
    (DOMAIN RendezvousStructs \cup (DOMAIN CoreStructs \ {"IsSameObject", "IsJavaWindow"})
       \cup DOMAIN ContextStructs \cup (DOMAIN TextStructs \ {"GetCaretLocation"})
       \cup DOMAIN ValueStructs \cup DOMAIN SelectionStructs \cup DOMAIN NotificationStructs
       \cup EventPackages \cup DOMAIN RelationStructs \cup DOMAIN HypertextStructs
       \cup DOMAIN ActionStructs \cup DOMAIN UtilityStructs \cup DOMAIN TetonStructs)

JavaInitiatedPackages ==
    {"JavaVMCreated", "JavaVMDestroyed", "JavaVMPresentNotification"} \cup EventPackages

WindowsInitiatedPackages ==
    Packages \cap
    ({"MemoryMappedFileCreated", "WindowsATCreated", "WindowsATDestroyed",
      "WindowsATPresentNotification"} \cup (DOMAIN CoreStructs \ {"IsJavaWindow"})
       \cup DOMAIN ContextStructs \cup (DOMAIN TextStructs \ {"GetCaretLocation"})
       \cup DOMAIN ValueStructs \cup DOMAIN SelectionStructs \cup DOMAIN NotificationStructs
       \cup DOMAIN TableStructs \cup DOMAIN RelationStructs \cup DOMAIN ActionStructs
       \cup DOMAIN UtilityStructs \cup DOMAIN TetonStructs)

UnionBytes(U) == [abi \in ABIs |-> Max({Measure[abi][p].size : p \in U})]

-----------------------------------------------------------------------------
(***************************************************************************)
(* enum PackageType: groups of enumerators, of which only the first has a  *)
(* value of its own.                                                       *)
(***************************************************************************)
Implicit == -1

Group(base, names) ==
    [k \in DOMAIN names |-> <<names[k], IF k = 1 THEN base ELSE Implicit>>]

\* A variant used to see a property fail: the group below has grown into this one.
MouseTooLow ==
    Group(\h1020, <<"MouseClicked", "MouseEntered", "MouseExited", "MousePressed",
                    "MouseReleased">>)

MouseEnumerators ==
    Group(\h1030, <<"MouseClicked", "MouseEntered", "MouseExited", "MousePressed",
                    "MouseReleased">>)

PackageType == FlattenSeq(<<
    Group(\h11000, <<"MemoryMappedFileCreated">>),
    Group(\h10000, <<"JavaVMCreated", "JavaVMDestroyed", "WindowsATCreated",
                     "WindowsATDestroyed", "JavaVMPresentNotification",
                     "WindowsATPresentNotification">>),
    Group(1, <<"ReleaseJavaObject">>),
    Group(2, <<"GetAccessBridgeVersion">>),
    Group(\h10, <<"GetAccessibleContextFromHWND", "IsJavaWindow",
                  "GetHWNDFromAccessibleContext">>),
    Group(\h100, <<"GetAccessibleContextAt", "GetAccessibleContextWithFocus",
                   "GetAccessibleContextInfo", "GetAccessibleChildFromContext",
                   "GetAccessibleParentFromContext", "IsSameObject">>),
    Group(\h200, <<"GetAccessibleTextInfo", "GetAccessibleTextItems",
                   "GetAccessibleTextSelectionInfo", "GetAccessibleTextAttributeInfo",
                   "GetAccessibleTextRectInfo", "GetAccessibleTextLineBounds",
                   "GetAccessibleTextRange">>),
    Group(\h300, <<"GetCurrentAccessibleValueFromContext",
                   "GetMaximumAccessibleValueFromContext",
                   "GetMinimumAccessibleValueFromContext">>),
    Group(\h400, <<"AddAccessibleSelectionFromContext",
                   "ClearAccessibleSelectionFromContext",
                   "GetAccessibleSelectionFromContext",
                   "GetAccessibleSelectionCountFromContext",
                   "IsAccessibleChildSelectedFromContext",
                   "RemoveAccessibleSelectionFromContext",
                   "SelectAllAccessibleSelectionFromContext">>),
    Group(\h900, <<"AddJavaEventNotification", "RemoveJavaEventNotification",
                   "AddAccessibilityEventNotification",
                   "RemoveAccessibilityEventNotification">>),
    Group(\h1000, <<"PropertyChange">>),
    Group(\h1010, <<"JavaShutdown", "FocusGained", "FocusLost">>),
    Group(\h1020, <<"CaretUpdate">>),
    MouseEnumerators,
    Group(\h1040, <<"MenuCanceled", "MenuDeselected", "MenuSelected",
                    "PopupMenuCanceled", "PopupMenuWillBecomeInvisible",
                    "PopupMenuWillBecomeVisible">>),
    Group(\h1100, <<"PropertyCaretChange", "PropertyDescriptionChange",
                    "PropertyNameChange", "PropertySelectionChange",
                    "PropertyStateChange", "PropertyTextChange", "PropertyValueChange",
                    "PropertyVisibleDataChange", "PropertyChildChange",
                    "PropertyActiveDescendentChange">>),
    Group(\h1200, <<"GetAccessibleTableInfo", "GetAccessibleTableCellInfo",
                    "GetAccessibleTableRowHeader", "GetAccessibleTableColumnHeader",
                    "GetAccessibleTableRowDescription",
                    "GetAccessibleTableColumnDescription",
                    "GetAccessibleTableRowSelectionCount",
                    "IsAccessibleTableRowSelected", "GetAccessibleTableRowSelections",
                    "GetAccessibleTableColumnSelectionCount",
                    "IsAccessibleTableColumnSelected",
                    "GetAccessibleTableColumnSelections", "GetAccessibleTableRow",
                    "GetAccessibleTableColumn", "GetAccessibleTableIndex",
                    "PropertyTableModelChange">>),
    Group(\h1300, <<"GetAccessibleRelationSet">>),
    Group(\h1400, <<"GetAccessibleHypertext", "ActivateAccessibleHyperlink",
                    "GetAccessibleHyperlinkCount", "GetAccessibleHypertextExt",
                    "GetAccessibleHypertextLinkIndex", "GetAccessibleHyperlink">>),
    Group(\h1500, <<"GetAccessibleKeyBindings", "GetAccessibleIcons",
                    "GetAccessibleActions", "DoAccessibleActions">>),
    Group(\h1600, <<"SetTextContents", "GetParentWithRole", "GetTopLevelObject",
                    "GetParentWithRoleElseRoot", "GetObjectDepth",
                    "GetActiveDescendent">>),
    Group(\h1700, <<"GetVirtualAccessibleName", "RequestFocus", "SelectTextRange",
                    "GetTextAttributesInRange", "GetSameTextAttributesInRange",
                    "GetVisibleChildrenCount", "GetVisibleChildren",
                    "SetCaretPosition", "GetCaretLocation">>) >>)
=============================================================================
