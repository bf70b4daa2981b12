---------------------------- MODULE JvmtiEvents ----------------------------
(***************************************************************************)
(* Numbers of the JVM tool interface (include/jvmti.h): the phases of a    *)
(* JVM, the errors its functions return, the events, and the struct of     *)
(* callbacks in which an agent hands over a function for each event.       *)
(***************************************************************************)
\* The phases in the order a JVM goes through them; their numbers are not in
\* that order.
PhaseOrder == <<"ONLOAD", "PRIMORDIAL", "START", "LIVE", "DEAD">>

JVMTI_PHASE ==
    [ONLOAD |-> 1, PRIMORDIAL |-> 2, START |-> 6, LIVE |-> 4, DEAD |-> 8]

JVMTI_ERROR ==
    [NONE |-> 0, INVALID_LOCATION |-> 24, DUPLICATE |-> 40, NOT_FOUND |-> 41,
     WRONG_PHASE |-> 112]

JVMTI_EVENT ==
    [VM_INIT |-> 50, VM_DEATH |-> 51, THREAD_START |-> 52, THREAD_END |-> 53,
     CLASS_FILE_LOAD_HOOK |-> 54, CLASS_LOAD |-> 55, CLASS_PREPARE |-> 56,
     VM_START |-> 57, EXCEPTION |-> 58, EXCEPTION_CATCH |-> 59,
     SINGLE_STEP |-> 60, FRAME_POP |-> 61, BREAKPOINT |-> 62,
     FIELD_ACCESS |-> 63, FIELD_MODIFICATION |-> 64, METHOD_ENTRY |-> 65,
     METHOD_EXIT |-> 66, NATIVE_METHOD_BIND |-> 67, COMPILED_METHOD_LOAD |-> 68,
     COMPILED_METHOD_UNLOAD |-> 69, DYNAMIC_CODE_GENERATED |-> 70,
     DATA_DUMP_REQUEST |-> 71, MONITOR_WAIT |-> 73, MONITOR_WAITED |-> 74,
     MONITOR_CONTENDED_ENTER |-> 75, MONITOR_CONTENDED_ENTERED |-> 76,
     RESOURCE_EXHAUSTED |-> 80, GARBAGE_COLLECTION_START |-> 81,
     GARBAGE_COLLECTION_FINISH |-> 82, OBJECT_FREE |-> 83,
     VM_OBJECT_ALLOC |-> 84, SAMPLED_OBJECT_ALLOC |-> 86,
     VIRTUAL_THREAD_START |-> 87, VIRTUAL_THREAD_END |-> 88]

EventTypes == DOMAIN JVMTI_EVENT

JVMTI_MIN_EVENT_TYPE_VAL == 50
JVMTI_MAX_EVENT_TYPE_VAL == 88

\* A member of the struct of callbacks that belongs to no event.
reserved == "reserved"

\* The members of the struct in order, each by the event it is for.
jvmtiEventCallbacks ==
    <<"VM_INIT", "VM_DEATH", "THREAD_START", "THREAD_END",
      "CLASS_FILE_LOAD_HOOK", "CLASS_LOAD", "CLASS_PREPARE", "VM_START",
      "EXCEPTION", "EXCEPTION_CATCH", "SINGLE_STEP", "FRAME_POP",
      "BREAKPOINT", "FIELD_ACCESS", "FIELD_MODIFICATION", "METHOD_ENTRY",
      "METHOD_EXIT", "NATIVE_METHOD_BIND", "COMPILED_METHOD_LOAD",
      "COMPILED_METHOD_UNLOAD", "DYNAMIC_CODE_GENERATED",
      "DATA_DUMP_REQUEST", reserved, "MONITOR_WAIT", "MONITOR_WAITED",
      "MONITOR_CONTENDED_ENTER", "MONITOR_CONTENDED_ENTERED",
      reserved, reserved, reserved, "RESOURCE_EXHAUSTED",
      "GARBAGE_COLLECTION_START", "GARBAGE_COLLECTION_FINISH",
      "OBJECT_FREE", "VM_OBJECT_ALLOC", reserved, "SAMPLED_OBJECT_ALLOC",
      "VIRTUAL_THREAD_START", "VIRTUAL_THREAD_END">>
=============================================================================
