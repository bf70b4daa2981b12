-------------------------- MODULE AccessBridgeCalls --------------------------
(***************************************************************************)
(* The function table an assistive technology calls the bridge through     *)
(* (AccessBridgeFPs, include/win32/bridge/AccessBridgeCalls.h): what each  *)
(* call is given and what it gives back.  A call that is about a Java VM   *)
(* is carried there by one package, and its answer comes back in it.       *)
(*                                                                         *)
(* A call is named after its package: GetVersionInfo,                      *)
(* GetAccessibleTextAttributes and GetAccessibleTextRect have packages of  *)
(* another name, the others differ in the case of the first letter.  The   *)
(* length of the caller's own text buffer is left out, as it stays with    *)
(* the caller.                                                             *)
(***************************************************************************)
EXTENDS AccessBridgePackages

vm     == "long"
object == "JOBJECT64"
string == "wchar_t"

Signature(in, out) == [in |-> in, out |-> out]

\* A call about an object names its VM too.
About(in, out) == Signature(<<vm, object>> \o in, out)

\* "Gets a thing": whether it was got, and the thing.
Get(in, thing) == About(in, <<"BOOL", thing>>)

CoreCalls ==
    [ReleaseJavaObject |-> About(<<>>, <<>>),
     GetAccessBridgeVersion |-> Signature(<<vm>>, <<"BOOL", "AccessBridgeVersionInfo">>),
     IsJavaWindow |-> Signature(<<"HWND">>, <<"BOOL">>),
     IsSameObject |-> About(<<object>>, <<"BOOL">>),
     GetAccessibleContextFromHWND |-> Signature(<<"HWND">>, <<"BOOL", vm, object>>),
     GetHWNDFromAccessibleContext |-> About(<<>>, <<"HWND">>),
     GetAccessibleContextAt |-> Get(<<"jint", "jint">>, object),
     GetAccessibleContextWithFocus |-> Signature(<<"HWND">>, <<"BOOL", vm, object>>),
     GetAccessibleContextInfo |-> Get(<<>>, "AccessibleContextInfo"),
     GetAccessibleChildFromContext |-> About(<<"jint">>, <<object>>),
     GetAccessibleParentFromContext |-> About(<<>>, <<object>>)]

TableCalls ==
    [GetAccessibleTableInfo |-> Get(<<>>, "AccessibleTableInfo"),
     GetAccessibleTableCellInfo |-> Get(<<"jint", "jint">>, "AccessibleTableCellInfo"),
     GetAccessibleTableRowHeader |-> Get(<<>>, "AccessibleTableInfo"),
     GetAccessibleTableColumnHeader |-> Get(<<>>, "AccessibleTableInfo"),
     GetAccessibleTableRowDescription |-> About(<<"jint">>, <<object>>),
     GetAccessibleTableColumnDescription |-> About(<<"jint">>, <<object>>),
     GetAccessibleTableRowSelectionCount |-> About(<<>>, <<"jint">>),
     IsAccessibleTableRowSelected |-> About(<<"jint">>, <<"BOOL">>),
     GetAccessibleTableRowSelections |-> Get(<<"jint">>, "jint"),
     GetAccessibleTableColumnSelectionCount |-> About(<<>>, <<"jint">>),
     IsAccessibleTableColumnSelected |-> About(<<"jint">>, <<"BOOL">>),
     GetAccessibleTableColumnSelections |-> Get(<<"jint">>, "jint"),
     GetAccessibleTableRow |-> About(<<"jint">>, <<"jint">>),
     GetAccessibleTableColumn |-> About(<<"jint">>, <<"jint">>),
     GetAccessibleTableIndex |-> About(<<"jint", "jint">>, <<"jint">>)]

RelationCalls ==
    [GetAccessibleRelationSet |-> Get(<<>>, "AccessibleRelationSetInfo")]

HypertextCalls ==
    [GetAccessibleHypertext |-> Get(<<>>, "AccessibleHypertextInfo"),
     ActivateAccessibleHyperlink |-> About(<<object>>, <<"BOOL">>),
     GetAccessibleHyperlinkCount |-> About(<<>>, <<"jint">>),
     GetAccessibleHypertextExt |-> Get(<<"jint">>, "AccessibleHypertextInfo"),
     GetAccessibleHypertextLinkIndex |-> About(<<"jint">>, <<"jint">>),
     GetAccessibleHyperlink |-> Get(<<"jint">>, "AccessibleHyperlinkInfo")]

ActionCalls ==
    [GetAccessibleKeyBindings |-> Get(<<>>, "AccessibleKeyBindings"),
     GetAccessibleIcons |-> Get(<<>>, "AccessibleIcons"),
     GetAccessibleActions |-> Get(<<>>, "AccessibleActions"),
     DoAccessibleActions |-> Get(<<"AccessibleActionsToDo">>, "jint")]

TextCalls ==
    [GetAccessibleTextInfo |-> Get(<<"jint", "jint">>, "AccessibleTextInfo"),
     GetAccessibleTextItems |-> Get(<<"jint">>, "AccessibleTextItemsInfo"),
     GetAccessibleTextSelectionInfo |-> Get(<<>>, "AccessibleTextSelectionInfo"),
     GetAccessibleTextAttributeInfo |-> Get(<<"jint">>, "AccessibleTextAttributesInfo"),
     GetAccessibleTextRectInfo |-> Get(<<"jint">>, "AccessibleTextRectInfo"),
     GetAccessibleTextLineBounds |-> About(<<"jint">>, <<"BOOL", "jint", "jint">>),
     GetAccessibleTextRange |-> Get(<<"jint", "jint">>, string)]

ValueCalls ==
    [call \in {"GetCurrentAccessibleValueFromContext", "GetMaximumAccessibleValueFromContext",
               "GetMinimumAccessibleValueFromContext"} |-> Get(<<>>, string)]

SelectionCalls ==
    [AddAccessibleSelectionFromContext |-> About(<<"int">>, <<>>),
     ClearAccessibleSelectionFromContext |-> About(<<>>, <<>>),
     GetAccessibleSelectionFromContext |-> About(<<"int">>, <<object>>),
     GetAccessibleSelectionCountFromContext |-> About(<<>>, <<"int">>),
     IsAccessibleChildSelectedFromContext |-> About(<<"int">>, <<"BOOL">>),
     RemoveAccessibleSelectionFromContext |-> About(<<"int">>, <<>>),
     SelectAllAccessibleSelectionFromContext |-> About(<<>>, <<>>)]

UtilityCalls ==
    [SetTextContents |-> About(<<string>>, <<"BOOL">>),
     GetParentWithRole |-> About(<<string>>, <<object>>),
     GetParentWithRoleElseRoot |-> About(<<string>>, <<object>>),
     GetTopLevelObject |-> About(<<>>, <<object>>),
     GetObjectDepth |-> About(<<>>, <<"int">>),
     GetActiveDescendent |-> About(<<>>, <<object>>)]

TetonCalls ==
    [GetVirtualAccessibleName |-> Get(<<"int">>, string),
     RequestFocus |-> About(<<>>, <<"BOOL">>),
     SelectTextRange |-> About(<<"int", "int">>, <<"BOOL">>),
     GetTextAttributesInRange |->
        Get(<<"int", "int", "AccessibleTextAttributesInfo">>, "short"),
     GetVisibleChildrenCount |-> About(<<>>, <<"int">>),
     GetVisibleChildren |-> Get(<<"int">>, "VisibleChildrenInfo"),
     SetCaretPosition |-> About(<<"int">>, <<"BOOL">>),
     GetCaretLocation |-> Get(<<"jint">>, "AccessibleTextRectInfo")]

Calls ==
    FoldLeft(LAMBDA f, g : f @@ g, CoreCalls,
        <<TableCalls, RelationCalls, HypertextCalls, ActionCalls, TextCalls, ValueCalls,
          SelectionCalls, UtilityCalls, TetonCalls>>)

\* The events for which the table has a call that sets a callback.
EventCalls ==
    {"JavaShutdown", "FocusGained", "FocusLost", "CaretUpdate", "MouseClicked",
     "MouseEntered", "MouseExited", "MousePressed", "MouseReleased", "MenuCanceled",
     "MenuDeselected", "MenuSelected", "PopupMenuCanceled", "PopupMenuWillBecomeInvisible",
     "PopupMenuWillBecomeVisible", "PropertyNameChange", "PropertyDescriptionChange",
     "PropertyStateChange", "PropertyValueChange", "PropertySelectionChange",
     "PropertyTextChange", "PropertyCaretChange", "PropertyVisibleDataChange",
     "PropertyChildChange", "PropertyActiveDescendentChange", "PropertyTableModelChange"}

\* The packages the table's calls need: all of it but Windows_run,
\* SetPropertyChange and getEventsWaiting, which no package is for.
AccessBridgeFPs == DOMAIN Calls \cup EventCalls

-----------------------------------------------------------------------------
\* The types of field a value can travel in.
CarriedIn(type) ==
    CASE type = "HWND" -> {"jint", "ABHWND64"}
      [] type = "int"  -> {"int", "jint"}
      [] type = "BOOL" -> {"BOOL", "jboolean"}
      [] OTHER         -> {type}

\* How many values of the given types a package has room for.
Room(package, types) ==
    FoldLeft(LAMBDA n, run : IF run[1] \in types THEN n + run[2] ELSE n,
             0, Structs[package])

\* What has to travel: all a call is given, and all it gives back, save a BOOL
\* that only says whether the rest of the answer is there.
MustTravel(call) ==
    Calls[call].in \o
    SelectSeq(Calls[call].out, LAMBDA t : t # "BOOL" \/ Len(Calls[call].out) = 1)

\* What has no field in its call's package: the window whose focus is asked for
\* and the VM whose window is asked for, and whether three requests were met.
DroppedTarget == {<<"GetHWNDFromAccessibleContext", vm>>, <<"GetAccessibleContextWithFocus", "HWND">>}
DroppedResult == {<<"RequestFocus", "BOOL">>, <<"SelectTextRange", "BOOL">>, <<"SetCaretPosition", "BOOL">>}
Dropped == DroppedTarget \cup DroppedResult

Lost(call) ==
    {type \in ToSet(MustTravel(call)) :
        Room(call, CarriedIn(type)) < Len(SelectSeq(MustTravel(call), LAMBDA t : t = type))}

\* The fields of a package that nothing of its call goes into.
Unused(call) ==
    {run[1] : run \in ToSet(Structs[call])} \
        UNION {CarriedIn(type) : type \in ToSet(Calls[call].in \o Calls[call].out)}
=============================================================================
