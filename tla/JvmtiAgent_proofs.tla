-------------------------- MODULE JvmtiAgent_proofs --------------------------
(***************************************************************************)
(* Theorems about an agent of the JVM tool interface, for every set of     *)
(* codes, events and sizes of the struct of callbacks.                     *)
(***************************************************************************)
EXTENDS JvmtiAgent, DataLemmas, TLAPS

-----------------------------------------------------------------------------
(***************************************************************************)
(* The member of the struct that the JVM calls for an event.               *)
(***************************************************************************)
\* The member at the place that an event's number gives is the one for the
\* event, also behind the reserved members.
LEMMA EventsByNumber ==
    \A e \in EventTypes : jvmtiEventCallbacks[Slot(e)] = e
BY DEF EventTypes, JVMTI_EVENT, Slot, JVMTI_MIN_EVENT_TYPE_VAL, jvmtiEventCallbacks, reserved

\* Only Post calls a member, and only one that the struct has.
LEMMA EventStep == EventsReachTheirFunctions /\ [Next]_vars => EventsReachTheirFunctions'
<1> SUFFICES ASSUME EventsReachTheirFunctions, [Next]_vars PROVE EventsReachTheirFunctions'
  OBVIOUS
<1>1. ASSUME NEW event \in Events, Post(event) PROVE EventsReachTheirFunctions'
  <2>1. event \in EventTypes
    BY EventsExist
  <2>2. called' = <<event, jvmtiEventCallbacks[Slot(event)]>>
    BY <1>1 DEF Post, HasMember
  <2> QED BY <2>1, <2>2, EventsByNumber DEF EventsReachTheirFunctions
<1>2. CASE UNCHANGED called
  BY <1>2 DEF EventsReachTheirFunctions
<1> QED BY <1>1, <1>2
        DEF Next, vars, Advance, Agent_OnLoad, RedefineClasses, Redefined, Agent, AwaitLive,
            GetBytecodes, SetBreakpoint, StartAgain, ClearBreakpoint, Cleared, WrongPhase

\* Whatever events the agent has enabled and whatever size its struct has, the
\* function called for an event is the one it provided for it.
THEOREM EventsAreNotMixedUp == Spec => []EventsReachTheirFunctions
<1>1. Init => EventsReachTheirFunctions
  BY DEF Init, EventsReachTheirFunctions
<1> QED BY <1>1, EventStep, PTL DEF Spec

-----------------------------------------------------------------------------
(***************************************************************************)
(* The phase a call of the agent is for.                                   *)
(***************************************************************************)
\* The thread has begun in the live phase, which is followed by the death of
\* the JVM and by no other.
LiveOnce ==
    /\ phase \in DOMAIN JVMTI_PHASE
    /\ job # "waiting" => phase \in {"LIVE", "DEAD"}

\* A step that ends with the wrong phase finds the JVM dead; and no phase
\* follows that.
LEMMA PhaseStep == LiveOnce /\ NeverTooEarly /\ [Next]_vars => (LiveOnce /\ NeverTooEarly)'
<1> SUFFICES ASSUME LiveOnce, NeverTooEarly, [Next]_vars PROVE (LiveOnce /\ NeverTooEarly)'
  OBVIOUS
<1> USE DEF LiveOnce, NeverTooEarly
<1>1. CASE Advance
  BY <1>1 DEF Advance, PhaseOrder, JVMTI_PHASE, walk
<1>2. CASE AwaitLive
  BY <1>2 DEF AwaitLive, IsLive, JVMTI_PHASE, jvm, walk
<1>3. CASE GetBytecodes
  BY <1>3 DEF GetBytecodes, JVMTI_ERROR, jvm
<1>4. CASE SetBreakpoint
  <2>1. error' # JVMTI_ERROR.WRONG_PHASE
    BY <1>4 DEF SetBreakpoint, JVMTI_ERROR
  <2> QED BY <1>4, <2>1 DEF SetBreakpoint
<1>5. CASE ClearBreakpoint
  <2>1. error' # JVMTI_ERROR.WRONG_PHASE
    BY <1>5 DEF ClearBreakpoint, JVMTI_ERROR
  <2> QED BY <1>5, <2>1 DEF ClearBreakpoint
<1>6. CASE WrongPhase
  BY <1>6 DEF WrongPhase, jvm, Live
<1>7. CASE UNCHANGED <<phase, job, error>>
  BY <1>7
<1>8. CASE StartAgain \/ Cleared
  BY <1>8 DEF StartAgain, Cleared, jvm, walk
<1> QED BY <1>1, <1>2, <1>3, <1>4, <1>5, <1>6, <1>7, <1>8
        DEF Next, vars, jvm, walk, Agent_OnLoad, Post, RedefineClasses, Redefined, Agent

\* The agent waits for the live phase by its number, which is lower than that
\* of an earlier phase: no call of its thread comes before it is there.
THEOREM CallsAreForTheirPhase == Spec => []NeverTooEarly
<1>1. Init => LiveOnce /\ NeverTooEarly
  BY DEF Init, LiveOnce, NeverTooEarly, PhaseOrder, JVMTI_PHASE, JVMTI_ERROR
<1> QED BY <1>1, PhaseStep, PTL DEF Spec

-----------------------------------------------------------------------------
(***************************************************************************)
(* The table of lengths, and the length of an instruction.                 *)
(***************************************************************************)
\* A tuple, of whatever it has.
IsTuple(s) == Len(s) \in Nat /\ s = [i \in 1 .. Len(s) |-> s[i]]

\* Two tuples one after the other.
LEMMA JoinedTuples ==
    ASSUME NEW s, IsTuple(s), NEW t, IsTuple(t)
    PROVE  /\ IsTuple(s \o t)
           /\ Len(s \o t) = Len(s) + Len(t)
           /\ \A i \in 1 .. Len(s) + Len(t) :
                 (s \o t)[i] = IF i <= Len(s) THEN s[i] ELSE t[i - Len(s)]
<1> DEFINE S == {s[i] : i \in 1 .. Len(s)} \cup {t[i] : i \in 1 .. Len(t)}
<1>1. s \in Seq(S)
  BY DEF IsTuple
<1>2. t \in Seq(S)
  BY DEF IsTuple
<1> HIDE DEF S
<1>3. s \o t \in Seq(S) /\ Len(s \o t) = Len(s) + Len(t)
  BY <1>1, <1>2
<1>4. \A i \in 1 .. Len(s) + Len(t) :
         (s \o t)[i] = IF i <= Len(s) THEN s[i] ELSE t[i - Len(s)]
  BY <1>1, <1>2
<1>5. ASSUME NEW q \in Seq(S) PROVE IsTuple(q)
  BY DEF IsTuple
<1> QED BY <1>3, <1>4, <1>5

\* What the table of lengths has for a mnemonic.
EntryFor(op) ==
    CASE op = "wide" -> 0
      [] op \in {"tableswitch", "lookupswitch"} -> 99
      [] OTHER -> 1 + OperandBytes(op)

\* A table has the entries of n mnemonics in their order.
Match(ops, lengths, n) ==
    /\ IsTuple(ops) /\ IsTuple(lengths)
    /\ n \in Nat /\ Len(ops) = n /\ Len(lengths) = n
    /\ \A i \in 1 .. n : lengths[i] = EntryFor(ops[i])

\* Tables can be checked group by group.
LEMMA JoinedMatch ==
    ASSUME NEW ops, NEW lengths, NEW n, Match(ops, lengths, n),
           NEW moreOps, NEW moreLengths, NEW m, Match(moreOps, moreLengths, m)
    PROVE  Match(ops \o moreOps, lengths \o moreLengths, n + m)
<1>1. /\ IsTuple(ops) /\ IsTuple(lengths) /\ Len(ops) = n /\ Len(lengths) = n
      /\ IsTuple(moreOps) /\ IsTuple(moreLengths) /\ Len(moreOps) = m /\ Len(moreLengths) = m
      /\ n \in Nat /\ m \in Nat
  BY DEF Match
<1>2. /\ IsTuple(ops \o moreOps) /\ IsTuple(lengths \o moreLengths)
      /\ Len(ops \o moreOps) = n + m /\ Len(lengths \o moreLengths) = n + m
  BY <1>1, JoinedTuples
<1>3. ASSUME NEW i \in 1 .. n + m
      PROVE  (lengths \o moreLengths)[i] = EntryFor((ops \o moreOps)[i])
  <2>1. (ops \o moreOps)[i] = IF i <= n THEN ops[i] ELSE moreOps[i - n]
    <3>1. \A j \in 1 .. Len(ops) + Len(moreOps) :
             (ops \o moreOps)[j] = IF j <= Len(ops) THEN ops[j] ELSE moreOps[j - Len(ops)]
      BY <1>1, JoinedTuples
    <3> QED BY <1>1, <3>1
  <2>2. (lengths \o moreLengths)[i] = IF i <= n THEN lengths[i] ELSE moreLengths[i - n]
    <3>1. \A j \in 1 .. Len(lengths) + Len(moreLengths) :
             (lengths \o moreLengths)[j] = IF j <= Len(lengths) THEN lengths[j]
                                           ELSE moreLengths[j - Len(lengths)]
      BY <1>1, JoinedTuples
    <3> QED BY <1>1, <3>1
  <2>3. IF i <= n THEN i \in 1 .. n ELSE i - n \in 1 .. m
    BY <1>1
  <2> QED BY <2>1, <2>2, <2>3 DEF Match
<1> QED BY <1>1, <1>2, <1>3 DEF Match

\* The groups the mnemonics and the table of lengths are written in.
LEMMA GroupsAreTuples ==
    /\ IsTuple(ConstantOps) /\ IsTuple(ConstantLengths)
    /\ IsTuple(LoadOps) /\ IsTuple(StoreOps) /\ IsTuple(VariableLengths)
    /\ IsTuple(StackOps) /\ IsTuple(MathOps) /\ IsTuple(ConversionOps) /\ IsTuple(ValueLengths)
    /\ IsTuple(ComparisonOps) /\ IsTuple(ComparisonLengths)
    /\ IsTuple(ControlOps) /\ IsTuple(ControlLengths)
    /\ IsTuple(ReferenceOps) /\ IsTuple(ReferenceLengths)
    /\ IsTuple(ExtendedOps) /\ IsTuple(ExtendedLengths)
<1> USE DEF IsTuple, Times
<1>1. IsTuple(ConstantOps) /\ IsTuple(ConstantLengths)
  BY DEF ConstantOps, ConstantLengths
<1>2. IsTuple(LoadOps) /\ IsTuple(StoreOps) /\ IsTuple(VariableLengths)
  BY DEF LoadOps, StoreOps, VariableLengths
<1>3. IsTuple(StackOps) /\ IsTuple(MathOps) /\ IsTuple(ConversionOps) /\ IsTuple(ValueLengths)
  BY DEF StackOps, MathOps, ConversionOps, ValueLengths
<1>4. IsTuple(ComparisonOps) /\ IsTuple(ComparisonLengths)
  BY DEF ComparisonOps, ComparisonLengths
<1>5. IsTuple(ControlOps) /\ IsTuple(ControlLengths)
  BY DEF ControlOps, ControlLengths
<1>6. IsTuple(ReferenceOps) /\ IsTuple(ReferenceLengths)
  BY DEF ReferenceOps, ReferenceLengths
<1>7. IsTuple(ExtendedOps) /\ IsTuple(ExtendedLengths)
  BY DEF ExtendedOps, ExtendedLengths
<1> HIDE DEF IsTuple
<1> QED BY <1>1, <1>2, <1>3, <1>4, <1>5, <1>6, <1>7

\* The groups that mnemonics and lengths have in common ...
LEMMA GroupsMatch ==
    /\ Match(ConstantOps, ConstantLengths, 21)
    /\ Match(LoadOps, VariableLengths, 33)
    /\ Match(StoreOps, VariableLengths, 33)
    /\ Match(ComparisonOps, ComparisonLengths, 19)
    /\ Match(ControlOps, ControlLengths, 11)
    /\ Match(ReferenceOps, ReferenceLengths, 18)
    /\ Match(ExtendedOps, ExtendedLengths, 6)
<1> USE GroupsAreTuples
    DEF Match, EntryFor, OperandBytes, Times, TypedLoadStore, Branches, Range, ComparisonOps
<1>1. Match(ConstantOps, ConstantLengths, 21)
  BY DEF ConstantOps, ConstantLengths
<1>2. Match(LoadOps, VariableLengths, 33)
  BY DEF LoadOps, VariableLengths
<1>3. Match(StoreOps, VariableLengths, 33)
  BY DEF StoreOps, VariableLengths
<1>4. Match(ComparisonOps, ComparisonLengths, 19)
  BY DEF ComparisonLengths
<1>5. Match(ControlOps, ControlLengths, 11)
  BY DEF ControlOps, ControlLengths
<1>6. Match(ReferenceOps, ReferenceLengths, 18)
  BY DEF ReferenceOps, ReferenceLengths
<1>7. Match(ExtendedOps, ExtendedLengths, 6)
  BY DEF ExtendedOps, ExtendedLengths
<1> HIDE DEF Match
<1> QED BY <1>1, <1>2, <1>3, <1>4, <1>5, <1>6, <1>7

\* ... and the one of the lengths that is three of the mnemonics.
LEMMA ValuesMatch == Match(StackOps \o MathOps \o ConversionOps, ValueLengths, 61)
<1> DEFINE values == StackOps \o MathOps \o ConversionOps
<1>1. IsTuple(values) /\ IsTuple(ValueLengths)
  BY GroupsAreTuples, JoinedTuples
<1>2. Match(StackOps, Times(1, 9), 9) /\ Match(ConversionOps, Times(1, 15), 15)
  <2> USE DEF Match, EntryFor, OperandBytes, Times, TypedLoadStore, Branches, Range, ComparisonOps
  <2>1. IsTuple(Times(1, 9)) /\ IsTuple(Times(1, 15))
    BY DEF IsTuple
  <2>2. Match(StackOps, Times(1, 9), 9)
    BY <2>1, GroupsAreTuples DEF StackOps
  <2>3. Match(ConversionOps, Times(1, 15), 15)
    BY <2>1, GroupsAreTuples DEF ConversionOps
  <2> HIDE DEF Match
  <2> QED BY <2>2, <2>3
<1>3. Match(MathOps, Times(1, 36) \o <<3>>, 37)
  <2>1. IsTuple(Times(1, 36) \o <<3>>)
    BY DEF IsTuple, Times
  <2> QED BY GroupsAreTuples, <2>1
          DEF Match, EntryFor, OperandBytes, Times, TypedLoadStore, Branches, Range,
              ComparisonOps, MathOps
<1> DEFINE lengths == Times(1, 9) \o (Times(1, 36) \o <<3>>) \o Times(1, 15)
<1>4. Match(values, lengths, 61)
  <2>1. Match(StackOps \o MathOps, Times(1, 9) \o (Times(1, 36) \o <<3>>), 9 + 37)
    BY <1>2, <1>3, JoinedMatch
  <2>2. Match(values, lengths, 9 + 37 + 15)
    BY <1>2, <2>1, JoinedMatch
  <2> QED BY <2>2
<1>5. Len(ValueLengths) = 61 /\ \A i \in 1 .. 61 : ValueLengths[i] = lengths[i]
  BY DEF ValueLengths, Times
<1> HIDE DEF values, lengths
<1>6. Match(values, ValueLengths, 61)
  BY <1>1, <1>4, <1>5 DEF Match
<1> QED BY <1>6 DEF values

\* The table has an entry for every opcode, and it is the mnemonic's.
LEMMA TableMatches == Match(Mnemonics, JVM_OPCODE_LENGTH_INITIALIZER, 202)
<1> DEFINE values == StackOps \o MathOps \o ConversionOps
           front  == ConstantOps \o LoadOps \o StoreOps
           back(ops) == ops \o ComparisonOps \o ControlOps \o ReferenceOps \o ExtendedOps
<1>1. Match(back(front \o values), JVM_OPCODE_LENGTH_INITIALIZER, 202)
  <2>1. Match(front, ConstantLengths \o VariableLengths \o VariableLengths, 21 + 33 + 33)
    BY GroupsMatch, JoinedMatch
  <2> HIDE DEF front, values
  <2>2. Match(front \o values, ConstantLengths \o VariableLengths \o VariableLengths \o ValueLengths,
              21 + 33 + 33 + 61)
    BY <2>1, ValuesMatch, JoinedMatch DEF values
  <2> DEFINE ops == front \o values
             lengths == ConstantLengths \o VariableLengths \o VariableLengths \o ValueLengths
  <2>3. Match(ops, lengths, 148)
    BY <2>2
  <2> HIDE DEF ops, lengths
  <2>4. Match(ops \o ComparisonOps, lengths \o ComparisonLengths, 148 + 19)
    BY <2>3, GroupsMatch, JoinedMatch
  <2>5. Match(ops \o ComparisonOps \o ControlOps,
              lengths \o ComparisonLengths \o ControlLengths, 148 + 19 + 11)
    BY <2>4, GroupsMatch, JoinedMatch
  <2>6. Match(ops \o ComparisonOps \o ControlOps \o ReferenceOps,
              lengths \o ComparisonLengths \o ControlLengths \o ReferenceLengths,
              148 + 19 + 11 + 18)
    BY <2>5, GroupsMatch, JoinedMatch
  <2>7. Match(back(ops), lengths \o ComparisonLengths \o ControlLengths
                            \o ReferenceLengths \o ExtendedLengths, 148 + 19 + 11 + 18 + 6)
    BY <2>6, GroupsMatch, JoinedMatch
  <2> QED BY <2>7 DEF ops, lengths, JVM_OPCODE_LENGTH_INITIALIZER
<1>2. front \o values = front \o StackOps \o MathOps \o ConversionOps
  OBVIOUS
<1> QED BY <1>1, <1>2 DEF Mnemonics

\* A mnemonic has an opcode, at which the table has the mnemonic's entry.
LEMMA MnemonicsHaveOpcodes ==
    ASSUME NEW op \in Range(Mnemonics)
    PROVE  /\ OpcodeOf[op] \in 0 .. JVM_OPC_MAX
           /\ Mnemonics[OpcodeOf[op] + 1] = op
           /\ opcode_length(OpcodeOf[op]) = EntryFor(op)
<1>1. DOMAIN Mnemonics = 1 .. 202
  BY TableMatches DEF Match, IsTuple
<1>2. PICK i \in 1 .. 202 : Mnemonics[i] = op
  BY <1>1 DEF Range
<1>3. i - 1 \in 0 .. JVM_OPC_MAX /\ Mnemonics[(i - 1) + 1] = op
  BY <1>2 DEF JVM_OPC_MAX
<1>4. OpcodeOf[op] = CHOOSE n \in 0 .. JVM_OPC_MAX : Mnemonics[n + 1] = op
  BY DEF OpcodeOf
<1>5. OpcodeOf[op] \in 0 .. JVM_OPC_MAX /\ Mnemonics[OpcodeOf[op] + 1] = op
  BY <1>3, <1>4
<1>6. OpcodeOf[op] + 1 \in 1 .. 202
  BY <1>5 DEF JVM_OPC_MAX
<1> QED BY <1>5, <1>6, TableMatches DEF Match, opcode_length

\* No instruction of the table is longer than 5 bytes.
LEMMA OperandsAreFew == \A op : OperandBytes(op) \in 0 .. 4
BY DEF OperandBytes

\* A run of equal bytes.
LEMMA TimesIsSequence ==
    ASSUME NEW b \in Nat, NEW n \in Nat
    PROVE  /\ Times(b, n) \in Seq(Nat) /\ Len(Times(b, n)) = n
           /\ \A i \in 1 .. n : Times(b, n)[i] = b
BY DEF Times

\* At most 3 bytes align the words of a switch.
LEMMA PaddingIsShort == \A pc \in Nat : Padding(pc) \in 0 .. 3
BY DEF Padding

\* What wide widens are mnemonics of the table.
LEMMA WidenedAreMnemonics ==
    ASSUME NEW op \in TypedLoadStore \cup {"iinc", "ret"}
    PROVE  op \in Range(Mnemonics) /\ EntryFor(op) = 1 + OperandBytes(op)
<1>1. /\ Mnemonics[22] = "iload" /\ Mnemonics[23] = "lload" /\ Mnemonics[24] = "fload"
      /\ Mnemonics[25] = "dload" /\ Mnemonics[26] = "aload" /\ Mnemonics[55] = "istore"
      /\ Mnemonics[56] = "lstore" /\ Mnemonics[57] = "fstore" /\ Mnemonics[58] = "dstore"
      /\ Mnemonics[59] = "astore" /\ Mnemonics[133] = "iinc" /\ Mnemonics[170] = "ret"
  BY DEF Mnemonics, ConstantOps, LoadOps, StoreOps, StackOps, MathOps, ConversionOps, ComparisonOps,
         ControlOps, ReferenceOps, ExtendedOps
<1>2. DOMAIN Mnemonics = 1 .. 202
  BY TableMatches DEF Match, IsTuple
<1>3. EntryFor(op) = 1 + OperandBytes(op)
  BY DEF EntryFor, TypedLoadStore
<1>4. \E i \in 1 .. 202 : Mnemonics[i] = op
  BY <1>1 DEF TypedLoadStore
<1> QED BY <1>2, <1>3, <1>4 DEF Range

\* Some bytes stand in others from pc on.
StandsAt(part, bytes_, pc) == \A k \in 1 .. Len(part) : ByteAt(bytes_, pc + (k - 1)) = part[k]

\* The length of instruction ins at pc is computed from the bytes it stands in.
IsComputed(ins, pc) ==
    LET e == Encoded(ins, pc)
    IN  /\ e \in Seq(Nat) /\ Len(e) > 0
        /\ \A b : StandsAt(e, b, pc) => InstructionLength(b, pc) = Len(e)

\* A widened instruction has a second opcode and twice the operands.
LEMMA WideIsComputed ==
    ASSUME NEW ins \in Instructions, ins.op = "wide", NEW pc \in Nat
    PROVE  IsComputed(ins, pc)
<1>1. PICK e : e = Encoded(ins, pc)
  OBVIOUS
<1>2. PICK opcode, widened, n : /\ opcode = OpcodeOf[ins.op] /\ widened = OpcodeOf[ins.of]
                               /\ n = OperandBytes(ins.of)
  OBVIOUS
<1>3. /\ opcode \in Nat /\ opcode_length(opcode) = 0
      /\ widened \in Nat /\ opcode_length(widened) = 1 + n
      /\ n \in 0 .. 4
  <2>1. /\ ins.of \in Range(Mnemonics) /\ EntryFor(ins.of) = 1 + OperandBytes(ins.of)
        /\ ins.op \in Range(Mnemonics) /\ EntryFor(ins.op) = 0
    BY WidenedAreMnemonics DEF Instructions, EntryFor
  <2> QED BY <1>2, <2>1, MnemonicsHaveOpcodes, OperandsAreFew DEF JVM_OPC_MAX
<1>4. PICK zeros : zeros = Times(0, 2 * n)
  OBVIOUS
<1>5. zeros \in Seq(Nat) /\ Len(zeros) = 2 * n
  <2>1. 2 * n \in Nat
    BY <1>3
  <2> QED BY <1>4, <2>1, TimesIsSequence
<1>6. e = <<opcode, widened>> \o zeros
  BY <1>1, <1>2, <1>4 DEF Encoded
<1>7. e \in Seq(Nat) /\ Len(e) = 2 + 2 * n /\ e[1] = opcode /\ e[2] = widened
  BY <1>3, <1>5, <1>6
<1>8. ASSUME NEW b, StandsAt(e, b, pc) PROVE InstructionLength(b, pc) = Len(e)
  <2>1. ByteAt(b, pc + (1 - 1)) = opcode /\ ByteAt(b, pc + (2 - 1)) = widened
    BY <1>3, <1>7, <1>8 DEF StandsAt
  <2>2. ByteAt(b, pc) = opcode /\ ByteAt(b, pc + 1) = widened
    BY <2>1
  <2>3. InstructionLength(b, pc) = 2 * (1 + n)
    BY <1>3, <2>2 DEF InstructionLength, WideLength
  <2> QED BY <1>3, <1>7, <2>3
<1> QED BY <1>1, <1>3, <1>7, <1>8 DEF IsComputed

\* The switches have opcodes of their own.
LEMMA SwitchesDiffer ==
    /\ "tableswitch" \in Range(Mnemonics) /\ "lookupswitch" \in Range(Mnemonics)
    /\ OpcodeOf["lookupswitch"] # OpcodeOf["tableswitch"]
<1>1. Mnemonics[171] = "tableswitch" /\ Mnemonics[172] = "lookupswitch"
  BY DEF Mnemonics, ConstantOps, LoadOps, StoreOps, StackOps, MathOps, ConversionOps, ComparisonOps,
         ControlOps, ReferenceOps, ExtendedOps
<1>2. DOMAIN Mnemonics = 1 .. 202
  BY TableMatches DEF Match, IsTuple
<1>3. "tableswitch" \in Range(Mnemonics) /\ "lookupswitch" \in Range(Mnemonics)
  BY <1>1, <1>2 DEF Range
<1>4. Mnemonics[OpcodeOf["lookupswitch"] + 1] # Mnemonics[OpcodeOf["tableswitch"] + 1]
  BY <1>3, MnemonicsHaveOpcodes
<1> QED BY <1>3, <1>4

\* A switch has its opcode, the words before the number of its entries, that
\* number, and the rest.
LEMMA SwitchesAreComputed ==
    ASSUME NEW ins \in Instructions, ins.op \in {"tableswitch", "lookupswitch"}, NEW pc \in Nat
    PROVE  IsComputed(ins, pc)
<1> DEFINE isTable == ins.op = "tableswitch"
<1>1. PICK e, opcode : e = Encoded(ins, pc) /\ opcode = OpcodeOf[ins.op]
  OBVIOUS
<1>2. /\ opcode \in Nat /\ opcode_length(opcode) = 99
      /\ opcode = OpcodeOf["tableswitch"] <=> isTable
  BY <1>1, SwitchesDiffer, MnemonicsHaveOpcodes DEF EntryFor, JVM_OPC_MAX
<1>3. PICK p \in 0 .. 3 : p = Padding(pc)
  BY PaddingIsShort
<1>4. PICK n \in Nat : n = ins.n
  BY DEF Instructions
<1>5. PICK before, rest : IF isTable THEN before = p + 8 /\ rest = 3 + 4 * n
                                     ELSE before = p + 4 /\ rest = 3 + 8 * n
  OBVIOUS
<1>6. before \in Nat /\ rest \in Nat
  BY <1>3, <1>4, <1>5
<1>7. PICK low, more : low = Times(0, before) /\ more = Times(0, rest)
  OBVIOUS
<1>8. low \in Seq(Nat) /\ Len(low) = before /\ more \in Seq(Nat) /\ Len(more) = rest
  BY <1>6, <1>7, TimesIsSequence
<1>9. PICK upTo : upTo = <<opcode>> \o low \o <<n>>
  OBVIOUS
<1>10. /\ upTo \in Seq(Nat) /\ Len(upTo) = before + 2
       /\ upTo[1] = opcode /\ upTo[before + 2] = n
  <2>1. PICK front : front = <<opcode>> \o low
    OBVIOUS
  <2>2. front \in Seq(Nat) /\ Len(front) = before + 1 /\ front[1] = opcode
    BY <1>2, <1>6, <1>8, <2>1
  <2>3. upTo = front \o <<n>>
    BY <1>9, <2>1
  <2> QED BY <1>4, <1>6, <2>2, <2>3
<1>11. e = upTo \o more
  BY <1>1, <1>3, <1>4, <1>5, <1>7, <1>9 DEF Encoded
<1>12. /\ e \in Seq(Nat) /\ Len(e) = before + 2 + rest
       /\ e[1] = opcode /\ e[before + 2] = n
  <2>1. /\ e \in Seq(Nat) /\ Len(e) = before + 2 + rest
        /\ \A i \in 1 .. before + 2 + rest :
              e[i] = IF i <= before + 2 THEN upTo[i] ELSE more[i - (before + 2)]
    <3>1. /\ e \in Seq(Nat) /\ Len(e) = Len(upTo) + Len(more)
          /\ \A i \in 1 .. Len(upTo) + Len(more) :
                e[i] = IF i <= Len(upTo) THEN upTo[i] ELSE more[i - Len(upTo)]
      BY <1>8, <1>10, <1>11, ConcatProperties
    <3> QED BY <1>8, <1>10, <3>1
  <2>2. 1 \in 1 .. before + 2 + rest /\ before + 2 \in 1 .. before + 2 + rest
    BY <1>6
  <2> QED BY <1>6, <1>10, <2>1, <2>2
<1>13. ASSUME NEW b, StandsAt(e, b, pc) PROVE InstructionLength(b, pc) = Len(e)
  <2>1. ByteAt(b, pc + (1 - 1)) = opcode /\ ByteAt(b, pc + (before + 2 - 1)) = n
    BY <1>6, <1>12, <1>13 DEF StandsAt
  <2>2. ByteAt(b, pc) = opcode /\ ByteAt(b, pc + 1 + before) = n
    <3>1. pc + (1 - 1) = pc /\ pc + (before + 2 - 1) = pc + 1 + before
      BY <1>6
    <3> QED BY <2>1, <3>1
  <2>3. InstructionLength(b, pc) = SwitchLength(b, pc)
    BY <1>2, <2>2 DEF InstructionLength
  <2>4. CASE isTable
    <3>1. pc + 1 + p + 8 = pc + 1 + before
      BY <1>3, <1>5, <2>4
    <3>2. SwitchLength(b, pc) = 1 + p + 12 + 4 * n
      BY <1>2, <1>3, <2>2, <2>4, <3>1 DEF SwitchLength
    <3>3. before + 2 + rest = 1 + p + 12 + 4 * n
      BY <1>3, <1>4, <1>5, <2>4
    <3> QED BY <1>12, <2>3, <3>2, <3>3
  <2>5. CASE ~isTable
    <3>1. pc + 1 + p + 4 = pc + 1 + before
      BY <1>3, <1>5, <2>5
    <3>2. SwitchLength(b, pc) = 1 + p + 8 + 8 * n
      BY <1>2, <1>3, <2>2, <2>5, <3>1 DEF SwitchLength
    <3>3. before + 2 + rest = 1 + p + 8 + 8 * n
      BY <1>3, <1>4, <1>5, <2>5
    <3> QED BY <1>12, <2>3, <3>2, <3>3
  <2> QED BY <2>4, <2>5
<1>14. Len(e) > 0
  BY <1>6, <1>12
<1> QED BY <1>1, <1>12, <1>13, <1>14 DEF IsComputed

\* The table has the lengths of all others.
LEMMA OthersAreInTable ==
    ASSUME NEW ins \in Instructions, ins.op \notin {"wide", "tableswitch", "lookupswitch"},
           NEW pc \in Nat
    PROVE  IsComputed(ins, pc)
<1>1. PICK e, opcode, n : /\ e = Encoded(ins, pc)
                         /\ opcode = OpcodeOf[ins.op] /\ n = OperandBytes(ins.op)
  OBVIOUS
<1>2. opcode \in Nat /\ n \in 0 .. 4 /\ opcode_length(opcode) = 1 + n
  BY <1>1, MnemonicsHaveOpcodes, OperandsAreFew DEF EntryFor, JVM_OPC_MAX, Instructions
<1>3. PICK zeros : zeros = Times(0, n)
  OBVIOUS
<1>4. zeros \in Seq(Nat) /\ Len(zeros) = n
  <2>1. n \in Nat
    BY <1>2
  <2> QED BY <1>3, <2>1, TimesIsSequence
<1>5. e = <<opcode>> \o zeros
  BY <1>1, <1>3 DEF Encoded
<1>6. e \in Seq(Nat) /\ Len(e) = 1 + n /\ e[1] = opcode
  BY <1>2, <1>4, <1>5
<1>7. ASSUME NEW b, StandsAt(e, b, pc) PROVE InstructionLength(b, pc) = Len(e)
  <2>1. ByteAt(b, pc + (1 - 1)) = opcode
    BY <1>2, <1>6, <1>7 DEF StandsAt
  <2>2. ByteAt(b, pc) = opcode
    BY <2>1
  <2> QED BY <1>2, <1>6, <2>2 DEF InstructionLength
<1> QED BY <1>1, <1>2, <1>6, <1>7 DEF IsComputed

\* The length of every instruction is computed from its bytes.
LEMMA LengthsAreComputed == \A ins \in Instructions, pc \in Nat : IsComputed(ins, pc)
BY WideIsComputed, SwitchesAreComputed, OthersAreInTable

-----------------------------------------------------------------------------
(***************************************************************************)
(* Where the instructions of a method start.                               *)
(***************************************************************************)
\* The bytes of a method up to each of its instructions: none at first, and
\* those of one instruction more each time.
LEMMA BytesAreAdded ==
    ASSUME NEW method, Len(method) \in Nat
    PROVE  BytesUpTo(method) =
              [i \in 0 .. Len(method) |->
                  IF i = 0 THEN <<>> ELSE AddInstruction(BytesUpTo(method)[i - 1], method[i])]
<1> DEFINE Step(g, n) == [i \in 0 .. n |-> IF i = 0 THEN <<>> ELSE AddInstruction(g[i - 1], method[i])]
           Reached == {n \in Nat : \E g : g = Step(g, n)}
<1>1. 0 \in Reached
  <2> DEFINE g == [i \in 0 .. 0 |-> <<>>]
  <2>1. g = Step(g, 0)
    OBVIOUS
  <2> QED BY <2>1
<1>2. ASSUME NEW n \in Reached PROVE n + 1 \in Reached
  <2>1. PICK g : g = Step(g, n)
    BY <1>2
  <2> DEFINE h == [i \in 0 .. n + 1 |-> IF i <= n THEN g[i] ELSE AddInstruction(g[n], method[n + 1])]
  <2>2. n \in Nat
    OBVIOUS
  <2>3. ASSUME NEW i \in 0 .. n + 1
        PROVE  h[i] = IF i = 0 THEN <<>> ELSE AddInstruction(h[i - 1], method[i])
    <3>1. CASE i = 0
      BY <2>1, <2>2, <3>1
    <3>2. CASE i \in 1 .. n
      <4>1. h[i] = g[i] /\ h[i - 1] = g[i - 1] /\ i \in 0 .. n /\ i # 0
        BY <2>2, <3>2
      <4>2. g[i] = AddInstruction(g[i - 1], method[i])
        BY <2>1, <4>1
      <4> QED BY <4>1, <4>2
    <3>3. CASE i = n + 1
      <4>1. h[i] = AddInstruction(g[n], method[n + 1]) /\ h[i - 1] = g[n] /\ i # 0
        BY <2>2, <3>3
      <4> QED BY <3>3, <4>1
    <3> QED BY <2>2, <3>1, <3>2, <3>3
  <2>4. h = Step(h, n + 1)
    BY <2>3
  <2> HIDE DEF h, Step
  <2> QED BY <2>2, <2>4
<1> HIDE DEF Step
<1>3. Reached = Nat
  <2>1. Reached \in SUBSET Nat
    OBVIOUS
  <2> HIDE DEF Reached
  <2> QED BY <1>1, <1>2, <2>1, SetInduction
<1>4. PICK g : g = Step(g, Len(method))
  BY <1>3
<1>5. BytesUpTo(method) = CHOOSE upTo : upTo = Step(upTo, Len(method))
  BY DEF BytesUpTo, Step
<1> QED BY <1>4, <1>5 DEF Step

\* B has the bytes of a method up to each of its instructions.
Adds(B, method) ==
    /\ B[0] = <<>>
    /\ \A i \in 0 .. Len(method) : B[i] \in Seq(Nat)
    /\ \A i \in 1 .. Len(method) :
          /\ B[i] = B[i - 1] \o Encoded(method[i], Len(B[i - 1]))
          /\ IsComputed(method[i], Len(B[i - 1]))

\* Every instruction adds bytes, from which its length is computed.
LEMMA EachAddsBytes ==
    ASSUME NEW method \in Seq(Instructions)
    PROVE  Adds(BytesUpTo(method), method)
<1>1. PICK B : B = BytesUpTo(method)
  OBVIOUS
<1>2. Len(method) \in Nat /\ \A i \in 1 .. Len(method) : method[i] \in Instructions
  OBVIOUS
<1>3. B = [i \in 0 .. Len(method) |->
              IF i = 0 THEN <<>> ELSE AddInstruction(B[i - 1], method[i])]
  BY <1>1, <1>2, BytesAreAdded
<1>4. B[0] = <<>>
  BY <1>2, <1>3
<1>5. ASSUME NEW i \in 1 .. Len(method)
      PROVE  B[i] = B[i - 1] \o Encoded(method[i], Len(B[i - 1]))
  <2>1. i \in 0 .. Len(method) /\ i # 0
    OBVIOUS
  <2> QED BY <1>3, <2>1 DEF AddInstruction
<1>6. ASSUME NEW i \in 1 .. Len(method), B[i - 1] \in Seq(Nat)
      PROVE  B[i] \in Seq(Nat) /\ IsComputed(method[i], Len(B[i - 1]))
  <2>1. Len(B[i - 1]) \in Nat
    BY <1>6
  <2>2. IsComputed(method[i], Len(B[i - 1]))
    BY <1>2, <2>1, LengthsAreComputed
  <2>3. Encoded(method[i], Len(B[i - 1])) \in Seq(Nat)
    BY <2>2 DEF IsComputed
  <2>4. B[i - 1] \o Encoded(method[i], Len(B[i - 1])) \in Seq(Nat)
    BY <1>6, <2>3, ConcatProperties
  <2> QED BY <1>5, <2>2, <2>4
<1> DEFINE Reached == {n \in Nat : n <= Len(method) => B[n] \in Seq(Nat)}
<1>7. Reached = Nat
  <2>1. 0 \in Reached
    <3>1. B[0] \in Seq(Nat)
      BY <1>4
    <3> QED BY <3>1
  <2>2. ASSUME NEW n \in Reached PROVE n + 1 \in Reached
    <3>1. n \in Nat /\ (n <= Len(method) => B[n] \in Seq(Nat))
      OBVIOUS
    <3>2. ASSUME n + 1 <= Len(method) PROVE B[n + 1] \in Seq(Nat)
      <4>1. n + 1 \in 1 .. Len(method) /\ (n + 1) - 1 = n /\ n <= Len(method)
        BY <1>2, <3>1, <3>2
      <4> QED BY <1>6, <3>1, <4>1
    <3> QED BY <3>1, <3>2
  <2>3. Reached \in SUBSET Nat
    OBVIOUS
  <2> HIDE DEF Reached
  <2> QED BY <2>1, <2>2, <2>3, SetInduction
<1>8. \A i \in 0 .. Len(method) : B[i] \in Seq(Nat)
  BY <1>2, <1>7
<1>9. ASSUME NEW i \in 1 .. Len(method)
      PROVE  IsComputed(method[i], Len(B[i - 1]))
  <2>1. i - 1 \in 0 .. Len(method)
    BY <1>2
  <2> QED BY <1>6, <1>8, <2>1
<1> QED BY <1>1, <1>4, <1>5, <1>8, <1>9 DEF Adds

\* What instruction i adds stands behind the bytes before it ...
StandsBehind(B, method, i) ==
    LET e == Encoded(method[i], Len(B[i - 1]))
    IN  /\ Len(B[i - 1]) \in Nat /\ Len(B[i]) \in Nat /\ Len(B[i]) > Len(B[i - 1])
        /\ Len(e) \in Nat /\ Len(B[i]) = Len(B[i - 1]) + Len(e)
        /\ \A k \in 1 .. Len(B[i - 1]) : B[i][k] = B[i - 1][k]
        /\ \A k \in 1 .. Len(e) : B[i][Len(B[i - 1]) + k] = e[k]

LEMMA AddedBytes ==
    ASSUME NEW method \in Seq(Instructions), NEW B, Adds(B, method),
           NEW i \in 1 .. Len(method)
    PROVE  StandsBehind(B, method, i)
<1>1. PICK e, b : e = Encoded(method[i], Len(B[i - 1])) /\ b = B[i - 1]
  OBVIOUS
<1>2. i - 1 \in 0 .. Len(method)
  OBVIOUS
<1>3. b \in Seq(Nat) /\ e \in Seq(Nat) /\ Len(e) > 0 /\ B[i] = b \o e
  BY <1>1, <1>2 DEF Adds, IsComputed
<1>4. /\ Len(b) \in Nat /\ Len(e) \in Nat /\ Len(B[i]) = Len(b) + Len(e)
      /\ \A k \in 1 .. Len(b) + Len(e) : B[i][k] = IF k <= Len(b) THEN b[k] ELSE e[k - Len(b)]
  BY <1>3, ConcatProperties
<1>5. \A k \in 1 .. Len(b) : B[i][k] = b[k]
  BY <1>4
<1>6. ASSUME NEW k \in 1 .. Len(e) PROVE B[i][Len(b) + k] = e[k]
  <2>1. Len(b) + k \in 1 .. Len(b) + Len(e) /\ ~ (Len(b) + k <= Len(b)) /\ (Len(b) + k) - Len(b) = k
    BY <1>4
  <2> QED BY <1>4, <2>1
<1>7. Len(B[i]) \in Nat /\ Len(B[i]) > Len(b)
  BY <1>3, <1>4
<1> QED BY <1>1, <1>4, <1>5, <1>6, <1>7 DEF StandsBehind

\* ... and all stay where they are.
LEMMA BytesStay ==
    ASSUME NEW method \in Seq(Instructions), NEW B, Adds(B, method),
           NEW i \in 0 .. Len(method), NEW j \in i .. Len(method)
    PROVE  /\ Len(B[i]) <= Len(B[j])
           /\ \A k \in 1 .. Len(B[i]) : B[j][k] = B[i][k]
<1> DEFINE Stay(m) == Len(B[i]) <= Len(B[m]) /\ \A k \in 1 .. Len(B[i]) : B[m][k] = B[i][k]
           Reached == {n \in Nat : i + n <= Len(method) => Stay(i + n)}
<1>1. \A m \in 0 .. Len(method) : Len(B[m]) \in Nat
  BY DEF Adds
<1>2. 0 \in Reached
  <2>1. i + 0 = i /\ Stay(i)
    BY <1>1
  <2> HIDE DEF Stay
  <2> QED BY <2>1
<1>3. ASSUME NEW n \in Reached PROVE n + 1 \in Reached
  <2>1. n \in Nat /\ (i + n <= Len(method) => Stay(i + n))
    OBVIOUS
  <2>2. ASSUME i + (n + 1) <= Len(method) PROVE Stay(i + (n + 1))
    <3>1. PICK m \in 1 .. Len(method) : m = i + (n + 1)
      BY <2>1, <2>2
    <3>2. m - 1 = i + n /\ i + n <= Len(method) /\ m - 1 \in 0 .. Len(method)
      BY <2>1, <3>1
    <3>3. Stay(m - 1)
      BY <2>1, <3>2
    <3>4. /\ Len(B[m - 1]) \in Nat /\ Len(B[m]) > Len(B[m - 1])
          /\ \A k \in 1 .. Len(B[m - 1]) : B[m][k] = B[m - 1][k]
      <4>1. StandsBehind(B, method, m)
        BY AddedBytes
      <4> QED BY <4>1 DEF StandsBehind
    <3>5. Len(B[i]) \in Nat /\ Len(B[m]) \in Nat
      BY <1>1
    <3>6. Stay(m)
      <4>1. Len(B[i]) <= Len(B[m])
        BY <3>3, <3>4, <3>5
      <4>2. ASSUME NEW k \in 1 .. Len(B[i]) PROVE B[m][k] = B[i][k]
        <5>1. k \in 1 .. Len(B[m - 1])
          BY <3>3, <3>4, <3>5
        <5> QED BY <3>3, <3>4, <5>1
      <4> QED BY <4>1, <4>2
    <3> QED BY <3>1, <3>6
  <2> HIDE DEF Stay
  <2> QED BY <2>1, <2>2
<1>4. Reached = Nat
  <2>1. Reached \in SUBSET Nat
    OBVIOUS
  <2> HIDE DEF Reached
  <2> QED BY <1>2, <1>3, <2>1, SetInduction
<1>5. j - i \in Nat /\ i + (j - i) = j /\ j <= Len(method)
  OBVIOUS
<1>6. Stay(j)
  <2> HIDE DEF Stay
  <2> QED BY <1>4, <1>5
<1> QED BY <1>6

\* The length computed at the start of an instruction of a method is what the
\* instruction has added to the bytes.
LEMMA LengthsInMethod ==
    ASSUME NEW method \in Seq(Instructions), NEW B, Adds(B, method),
           NEW i \in 1 .. Len(method)
    PROVE  LET b == B[Len(method)]
               pc == Len(B[i - 1])
           IN  pc + InstructionLength(b, pc) = Len(B[i])
<1>1. PICK b, pc, e : b = B[Len(method)] /\ pc = Len(B[i - 1]) /\ e = Encoded(method[i], pc)
  OBVIOUS
<1>2. /\ pc \in Nat /\ Len(e) \in Nat /\ Len(B[i]) = pc + Len(e)
      /\ \A k \in 1 .. Len(e) : B[i][pc + k] = e[k]
  <2>1. StandsBehind(B, method, i)
    BY AddedBytes
  <2> QED BY <1>1, <2>1 DEF StandsBehind
<1>3. Len(b) \in Nat /\ Len(B[i]) <= Len(b) /\ \A k \in 1 .. Len(B[i]) : b[k] = B[i][k]
  <2>1. i \in 0 .. Len(method) /\ Len(method) \in i .. Len(method) /\ Len(method) \in 0 .. Len(method)
    OBVIOUS
  <2>2. B[Len(method)] \in Seq(Nat)
    BY <2>1 DEF Adds
  <2>3. Len(B[i]) <= Len(b)
    BY <1>1, <2>1, BytesStay
  <2>4. \A k \in 1 .. Len(B[i]) : b[k] = B[i][k]
    BY <1>1, <2>1, BytesStay
  <2> QED BY <1>1, <2>2, <2>3, <2>4
<1>4. StandsAt(e, b, pc)
  <2> SUFFICES ASSUME NEW k \in 1 .. Len(e) PROVE ByteAt(b, pc + (k - 1)) = e[k]
    BY DEF StandsAt
  <2>1. pc + k \in 1 .. Len(B[i]) /\ pc + (k - 1) < Len(b) /\ pc + (k - 1) + 1 = pc + k
    BY <1>2, <1>3
  <2>2. b[pc + k] = e[k]
    BY <1>2, <1>3, <2>1
  <2> QED BY <2>1, <2>2 DEF ByteAt
<1>5. InstructionLength(b, pc) = Len(e)
  <2>1. IsComputed(method[i], pc)
    BY <1>1 DEF Adds
  <2> QED BY <1>1, <1>4, <2>1 DEF IsComputed
<1> QED BY <1>1, <1>2, <1>5

\* Of every code: the length computed at the start of an instruction leads to
\* the start of the next, or to the end of the code.
WalkIsExact ==
    \A c \in DOMAIN Codes :
        /\ SizeOf(c) \in Nat
        /\ Starts[c] \subseteq 0 .. SizeOf(c) - 1
        /\ SizeOf(c) > 0 => 0 \in Starts[c]
        /\ \A l \in Starts[c] :
              LET next == l + InstructionLength(BytesOf[c], l)
              IN  /\ next \in Nat /\ next > l
                  /\ next \in Starts[c] \/ next = SizeOf(c)
                  /\ \A m \in Starts[c] : m > l => m >= next

\* The table of lengths, and the tool's computing where it has none, go from
\* instruction to instruction of every method: no instruction is left out, and
\* none is taken to start inside another.
THEOREM LengthsLeadOn == WalkIsExact
<1> SUFFICES ASSUME NEW c \in DOMAIN Codes
             PROVE  /\ SizeOf(c) \in Nat
                    /\ Starts[c] \subseteq 0 .. SizeOf(c) - 1
                    /\ SizeOf(c) > 0 => 0 \in Starts[c]
                    /\ \A l \in Starts[c] :
                          LET next == l + InstructionLength(BytesOf[c], l)
                          IN  /\ next \in Nat /\ next > l
                              /\ next \in Starts[c] \/ next = SizeOf(c)
                              /\ \A m \in Starts[c] : m > l => m >= next
  BY DEF WalkIsExact
<1>1. PICK method, B, n : method = Codes[c] /\ B = BytesUpTo(method) /\ n = Len(method)
  OBVIOUS
<1>2. method \in Seq(Instructions) /\ c \in 1 .. Len(Codes) /\ c # NoCode
  BY <1>1, CodesAreMethods DEF NoCode
<1>3. Adds(B, method) /\ n \in Nat
  BY <1>1, <1>2, EachAddsBytes
<1>4. /\ BytesOf[c] = B[n] /\ SizeOf(c) = Len(B[n])
      /\ Starts[c] = {Len(B[i - 1]) : i \in 1 .. n}
  BY <1>1, <1>2 DEF BytesOf, SizeOf, Starts, Bytes, StartsOf
<1>5. ASSUME NEW i \in 1 .. n
      PROVE  /\ Len(B[i - 1]) \in Nat /\ Len(B[i]) \in Nat /\ Len(B[i]) > Len(B[i - 1])
             /\ Len(B[i - 1]) + InstructionLength(B[n], Len(B[i - 1])) = Len(B[i])
  <2>1. Len(B[i - 1]) \in Nat /\ Len(B[i]) \in Nat /\ Len(B[i]) > Len(B[i - 1])
    <3>1. StandsBehind(B, method, i)
      BY <1>1, <1>2, <1>3, AddedBytes
    <3> QED BY <3>1 DEF StandsBehind
  <2>2. Len(B[i - 1]) + InstructionLength(B[n], Len(B[i - 1])) = Len(B[i])
    BY <1>1, <1>2, <1>3, LengthsInMethod
  <2> QED BY <2>1, <2>2
<1>6. ASSUME NEW i \in 0 .. n, NEW j \in i .. n PROVE Len(B[i]) <= Len(B[j])
  BY <1>1, <1>2, <1>3, BytesStay
<1>7. Len(B[n]) \in Nat
  BY <1>1, <1>3 DEF Adds
<1>8. ASSUME NEW i \in 1 .. n PROVE Len(B[i - 1]) \in 0 .. Len(B[n]) - 1
  <2>1. Len(B[i]) <= Len(B[n])
    BY <1>3, <1>6
  <2> QED BY <1>5, <1>7, <2>1
<1>9. ASSUME Len(B[n]) > 0 PROVE 0 \in Starts[c]
  <2>1. B[0] = <<>> /\ Len(B[0]) = 0
    BY <1>3 DEF Adds
  <2>2. 1 \in 1 .. n /\ 1 - 1 = 0
    BY <1>3, <1>9, <2>1
  <2> QED BY <1>4, <2>1, <2>2
<1>10. ASSUME NEW l \in Starts[c]
       PROVE  LET next == l + InstructionLength(BytesOf[c], l)
              IN  /\ next \in Nat /\ next > l
                  /\ next \in Starts[c] \/ next = SizeOf(c)
                  /\ \A m \in Starts[c] : m > l => m >= next
  <2>1. PICK i \in 1 .. n : l = Len(B[i - 1])
    BY <1>4
  <2>2. PICK next : next = l + InstructionLength(BytesOf[c], l)
    OBVIOUS
  <2>3. next = Len(B[i])
    BY <1>4, <1>5, <2>1, <2>2
  <2>4. next \in Nat /\ next > l
    BY <1>5, <2>1, <2>3
  <2>5. next \in Starts[c] \/ next = SizeOf(c)
    <3>1. CASE i = n
      BY <1>4, <2>3, <3>1
    <3>2. CASE i # n
      <4>1. i + 1 \in 1 .. n /\ (i + 1) - 1 = i
        BY <1>3, <3>2
      <4> QED BY <1>4, <2>3, <4>1
    <3> QED BY <3>1, <3>2
  <2>6. ASSUME NEW m \in Starts[c], m > l PROVE m >= next
    <3>1. PICK j \in 1 .. n : m = Len(B[j - 1])
      BY <1>4
    <3>2. j - 1 \in i .. n
      <4>1. CASE j <= i
        <5>1. j - 1 \in 0 .. n /\ i - 1 \in (j - 1) .. n
          BY <1>3, <4>1
        <5>2. m <= l
          BY <1>6, <2>1, <3>1, <5>1
        <5>3. m \in Nat /\ l \in Nat
          BY <1>5, <2>1, <3>1
        <5> QED BY <2>6, <5>2, <5>3
      <4>2. CASE j > i
        BY <1>3, <4>2
      <4> QED BY <1>3, <4>1, <4>2
    <3>3. i \in 0 .. n /\ next <= m
      BY <1>3, <1>6, <2>3, <3>1, <3>2
    <3>4. m \in Nat
      BY <1>5, <3>1
    <3> QED BY <2>4, <3>3, <3>4
  <2> QED BY <2>2, <2>4, <2>5, <2>6
<1> QED BY <1>4, <1>7, <1>8, <1>9, <1>10

-----------------------------------------------------------------------------
(***************************************************************************)
(* The walk through the instructions of a code.                            *)
(***************************************************************************)
\* The walk is at the start of an instruction of the code it has read, or at
\* the end of that code.
AtInstruction ==
    IF bytes = NoCode THEN location = 0 ELSE location \in Starts[bytes] \cup {SizeOf(bytes)}

\* The thread knows of every breakpoint that the method has, and has cleared
\* them all before it reads the code again.
OwnBreakpoints ==
    /\ breakpoints \subseteq set
    /\ job \in {"waiting", "reading"} => set = {}

\* When it knows of every redefinition, it walks the code the method has, and
\* the breakpoints are those on the instructions behind it.
UpToDate ==
    job = "walking" /\ ~redefining /\ ~again =>
        bytes = code /\ breakpoints = {l \in Starts[code] : l < location}

\* The inductive invariant.
WalkInv == TypeOK /\ AtInstruction /\ OwnBreakpoints /\ UpToDate

\* NoCode is no index of a code, and every size is a number.
LEMMA SizesAreNumbers ==
    /\ SizeOf(NoCode) = 0
    /\ NoCode \notin DOMAIN Codes
    /\ \A c \in DOMAIN Codes \cup {NoCode} : SizeOf(c) \in Nat
<1>1. SizeOf(NoCode) = 0
  BY DEF SizeOf
<1>2. DOMAIN Codes = 1 .. Len(Codes) /\ Len(Codes) \in Nat
  BY CodesAreMethods, LenProperties
<1> QED BY <1>1, <1>2, LengthsLeadOn DEF WalkIsExact, NoCode

\* The lesser of two numbers.
LEMMA MinOfTwo ==
    ASSUME NEW m \in Int, NEW n \in Int
    PROVE  Min({m, n}) = IF m <= n THEN m ELSE n
<1>1. \A x \in {m, n} : (\A y \in {m, n} : x <= y) <=> x = IF m <= n THEN m ELSE n
  OBVIOUS
<1> QED BY <1>1 DEF Min

\* The starts of instructions of code c before location l, and the location
\* that the walk goes to from l.
Behind(c, l) == {m \in Starts[c] : m < l}

NextAfter(c, l) == Min({l + InstructionLength(BytesOf[c], l), SizeOf(c)})

\* A step of the walk goes by one instruction.
LEMMA NextInstruction ==
    ASSUME NEW c \in DOMAIN Codes,
           NEW l \in Starts[c] \cup {SizeOf(c)}, l < SizeOf(c)
    PROVE  /\ l \in Starts[c] /\ l \in 0 .. SizeOf(c) - 1
           /\ NextAfter(c, l) \in Starts[c] \cup {SizeOf(c)} /\ NextAfter(c, l) \in 0 .. SizeOf(c)
           /\ Behind(c, NextAfter(c, l)) = Behind(c, l) \cup {l}
<1>1. /\ SizeOf(c) \in Nat /\ Starts[c] \subseteq 0 .. SizeOf(c) - 1
      /\ l \in Starts[c]
  BY LengthsLeadOn DEF WalkIsExact
<1>2. PICK n : n = l + InstructionLength(BytesOf[c], l)
  OBVIOUS
<1>3. /\ n \in Nat /\ n > l
      /\ n \in Starts[c] \/ n = SizeOf(c)
      /\ \A m \in Starts[c] : m > l => m >= n
  BY <1>1, <1>2, LengthsLeadOn DEF WalkIsExact
<1>4. n <= SizeOf(c)
  BY <1>1, <1>3
<1>5. NextAfter(c, l) = n
  BY <1>1, <1>2, <1>3, <1>4, MinOfTwo DEF NextAfter
<1>6. Behind(c, n) = Behind(c, l) \cup {l}
  <2>1. ASSUME NEW m \in Starts[c] PROVE m < n <=> m < l \/ m = l
    BY <1>1, <1>3
  <2> QED BY <1>1, <2>1 DEF Behind
<1>7. l \in 0 .. SizeOf(c) - 1 /\ n \in 0 .. SizeOf(c)
  BY <1>1, <1>3, <1>4
<1> QED BY <1>1, <1>3, <1>5, <1>6, <1>7

\* SetBreakpoint adds the breakpoint of the instruction it goes by; on a code
\* that is no longer the method's it may add one between instructions, which
\* the thread knows of.
LEMMA SetKeepsWalk ==
    ASSUME WalkInv, SetBreakpoint
    PROVE  WalkInv'
<1> DEFINE ends == SizeOf(bytes)
<1>1. bytes \in DOMAIN Codes /\ location \in Starts[bytes] \cup {ends} /\ location < ends
  BY SizesAreNumbers DEF WalkInv, TypeOK, AtInstruction, SetBreakpoint
<1>2. PICK next : next = NextAfter(bytes, location)
  OBVIOUS
<1>3. /\ location \in Starts[bytes] /\ location \in 0 .. ends - 1
      /\ next \in Starts[bytes] \cup {ends} /\ next \in 0 .. ends
      /\ Behind(bytes, next) = Behind(bytes, location) \cup {location}
  BY <1>1, <1>2, NextInstruction
<1>4. /\ location' = next /\ job = "walking" /\ ~again
      /\ UNCHANGED <<phase, code, redefining, redefinitions, callbacks, called, job, bytes, again>>
  BY <1>2 DEF SetBreakpoint, NextAfter
<1>5. SizeOf(code) \in Nat /\ ends \in Nat
  BY SizesAreNumbers DEF WalkInv, TypeOK
<1>6. \/ /\ location \in 0 .. SizeOf(code) - 1
         /\ breakpoints' = breakpoints \cup {location} /\ set' = set \cup {location}
      \/ ~HasLocation(location) /\ UNCHANGED <<breakpoints, set>>
  BY <1>3, <1>5 DEF SetBreakpoint, HasLocation
<1>7. \E e \in DOMAIN JVMTI_ERROR : error' = JVMTI_ERROR[e]
  BY DEF SetBreakpoint, JVMTI_ERROR
<1>8. TypeOK'
  BY <1>3, <1>4, <1>5, <1>6, <1>7 DEF WalkInv, TypeOK
<1>9. AtInstruction'
  BY <1>1, <1>3, <1>4, SizesAreNumbers DEF AtInstruction
<1>10. OwnBreakpoints'
  BY <1>4, <1>6 DEF WalkInv, OwnBreakpoints
<1>11. UpToDate'
  <2> SUFFICES ASSUME ~redefining PROVE bytes = code /\ breakpoints' = Behind(code, location')
    BY <1>4 DEF UpToDate, Behind
  <2>1. bytes = code /\ breakpoints = Behind(code, location)
    BY <1>4 DEF WalkInv, UpToDate, Behind
  <2>2. HasLocation(location)
    BY <1>1, <2>1 DEF HasLocation
  <2> QED BY <1>3, <1>4, <1>6, <2>1, <2>2
<1> QED BY <1>8, <1>9, <1>10, <1>11 DEF WalkInv

\* GetBytecodes finds no breakpoint on the method, and begins at its start.
LEMMA ReadKeepsWalk ==
    ASSUME WalkInv, GetBytecodes
    PROVE  WalkInv'
<1>1. /\ code \in DOMAIN Codes /\ SizeOf(code) \in Nat
      /\ Starts[code] \subseteq 0 .. SizeOf(code) - 1
      /\ 0 \in Starts[code] \cup {SizeOf(code)}
      /\ breakpoints = {} /\ set = {}
  BY LengthsLeadOn DEF WalkInv, TypeOK, WalkIsExact, OwnBreakpoints, GetBytecodes
<1>2. /\ UNCHANGED <<phase, code, breakpoints, redefining, redefinitions, callbacks, called, set, again>>
      /\ job' = "walking" /\ bytes' = code /\ location' = 0
      /\ \E e \in DOMAIN JVMTI_ERROR : error' = JVMTI_ERROR[e]
  BY DEF GetBytecodes, jvm, JVMTI_ERROR
<1>3. TypeOK'
  BY <1>1, <1>2 DEF WalkInv, TypeOK
<1>4. AtInstruction' /\ OwnBreakpoints'
  BY <1>1, <1>2 DEF AtInstruction, OwnBreakpoints
<1>5. {l \in Starts[code] : l < 0} = {}
  BY <1>1
<1>6. UpToDate'
  BY <1>1, <1>2, <1>5 DEF UpToDate
<1> QED BY <1>3, <1>4, <1>6 DEF WalkInv

\* RedefineClasses has cleared the breakpoints when it changes the code.
LEMMA RedefinitionKeepsWalk ==
    ASSUME WalkInv, NEW new \in NewCodes, RedefineClasses(new)
    PROVE  WalkInv'
<1>1. /\ code' \in DOMAIN Codes /\ breakpoints' = {} /\ redefining'
      /\ redefining' \in BOOLEAN /\ redefinitions' \in 0 .. MaxRedefinitions
      /\ UNCHANGED <<phase, callbacks, called, job, bytes, location, set, again, error>>
  BY CodesAreMethods, BoundIsNumber DEF WalkInv, TypeOK, RedefineClasses, walk
<1> QED BY <1>1 DEF WalkInv, TypeOK, AtInstruction, OwnBreakpoints, UpToDate

\* ClearBreakpoint takes the breakpoint from the method and from the set.
LEMMA ClearingKeepsWalk ==
    ASSUME WalkInv, ClearBreakpoint
    PROVE  WalkInv'
<1>1. PICK l : l = Min(set)
  OBVIOUS
<1>2. /\ breakpoints' = breakpoints \ {l} /\ set' = set \ {l} /\ job = "clearing"
      /\ \E e \in DOMAIN JVMTI_ERROR : error' = JVMTI_ERROR[e]
      /\ UNCHANGED <<phase, code, redefining, redefinitions, callbacks, called,
                     job, bytes, location, again>>
  BY <1>1 DEF ClearBreakpoint, JVMTI_ERROR
<1> QED BY <1>2 DEF WalkInv, TypeOK, AtInstruction, OwnBreakpoints, UpToDate

\* Post leaves all but the member called.
LEMMA PostTypes ==
    ASSUME WalkInv, NEW event \in Events, Post(event)
    PROVE  WalkInv'
<1>1. called' \in (Events \cup {NoEvent}) \X (EventTypes \cup {reserved, NoMember})
  <2>1. called' = <<event, jvmtiEventCallbacks[Slot(event)]>>
    BY DEF Post, HasMember
  <2>2. jvmtiEventCallbacks[Slot(event)] \in EventTypes
    BY EventsByNumber, EventsExist
  <2> QED BY <2>1, <2>2
<1>2. UNCHANGED <<phase, code, breakpoints, redefining, redefinitions, callbacks, job,
                  bytes, location, set, again, error>>
  BY DEF Post, jvm, walk
<1> QED BY <1>1, <1>2 DEF WalkInv, TypeOK, AtInstruction, OwnBreakpoints, UpToDate

\* There is no breakpoint at first ...
LEMMA WalkInit == Init => WalkInv
<1> SUFFICES ASSUME Init PROVE WalkInv
  OBVIOUS
<1>1. SizeOf(NoCode) = 0
  BY SizesAreNumbers
<1>2. \E e \in DOMAIN JVMTI_ERROR : error = JVMTI_ERROR[e]
  BY DEF Init, JVMTI_ERROR
<1>3. phase \in DOMAIN JVMTI_PHASE
  BY DEF Init, PhaseOrder, JVMTI_PHASE
<1>4. called \in (Events \cup {NoEvent}) \X (EventTypes \cup {reserved, NoMember})
  BY DEF Init
<1>5. location \in 0 .. SizeOf(bytes) /\ set \subseteq 0 .. SizeOf(bytes) - 1
  BY <1>1 DEF Init
<1>6. redefinitions \in 0 .. MaxRedefinitions
  BY BoundIsNumber DEF Init
<1>7. /\ code \in DOMAIN Codes /\ breakpoints \subseteq 0 .. SizeOf(code) - 1
      /\ redefining \in BOOLEAN /\ callbacks \in CallbackCounts \cup {0}
      /\ job \in {"waiting", "reading", "walking", "clearing", "over"}
      /\ bytes \in DOMAIN Codes \cup {NoCode} /\ again \in BOOLEAN
  BY DEF Init
<1>8. TypeOK
  BY <1>2, <1>3, <1>4, <1>5, <1>6, <1>7 DEF TypeOK
<1> QED BY <1>8 DEF Init, WalkInv, AtInstruction, OwnBreakpoints, UpToDate

\* ... and every step keeps the breakpoints on instructions.
LEMMA WalkStep == WalkInv /\ [Next]_vars => WalkInv'
<1> SUFFICES ASSUME WalkInv, [Next]_vars PROVE WalkInv'
  OBVIOUS
<1>1. CASE Advance
  <2>1. phase' \in DOMAIN JVMTI_PHASE
    BY <1>1 DEF Advance, PhaseOrder, JVMTI_PHASE
  <2>2. UNCHANGED <<code, breakpoints, redefining, redefinitions, callbacks, called, job,
                    bytes, location, set, again, error>>
    BY <1>1 DEF Advance, walk
  <2> QED BY <2>1, <2>2 DEF WalkInv, TypeOK, AtInstruction, OwnBreakpoints, UpToDate
<1>2. CASE Agent_OnLoad
  BY <1>2 DEF Agent_OnLoad, jvm, walk, WalkInv, TypeOK, AtInstruction, OwnBreakpoints, UpToDate
<1>3. CASE Redefined
  BY <1>3 DEF Redefined, WalkInv, TypeOK, AtInstruction, OwnBreakpoints, UpToDate
<1>4. CASE AwaitLive \/ StartAgain \/ Cleared
  BY <1>4 DEF AwaitLive, StartAgain, Cleared, jvm, walk,
              WalkInv, TypeOK, AtInstruction, OwnBreakpoints, UpToDate
<1>5. CASE WrongPhase
  <2>1. /\ \E e \in DOMAIN JVMTI_ERROR : error' = JVMTI_ERROR[e]
        /\ job' = "over"
        /\ UNCHANGED <<phase, code, breakpoints, redefining, redefinitions, callbacks, called,
                       bytes, location, set, again>>
    BY <1>5 DEF WrongPhase, JVMTI_ERROR, jvm
  <2> QED BY <2>1 DEF WalkInv, TypeOK, AtInstruction, OwnBreakpoints, UpToDate
<1>6. CASE UNCHANGED vars
  BY <1>6 DEF vars, jvm, walk, WalkInv, TypeOK, AtInstruction, OwnBreakpoints, UpToDate
<1> QED BY <1>1, <1>2, <1>3, <1>4, <1>5, <1>6, SetKeepsWalk, ReadKeepsWalk,
           RedefinitionKeepsWalk, ClearingKeepsWalk, PostTypes
        DEF Next, Agent

\* Every variable keeps its type: the breakpoints are within the code that the
\* method has and those the thread knows of within the code it has read, and
\* the walk does not go beyond its end.
THEOREM TypeCorrect == Spec => []TypeOK
<1>1. WalkInv => TypeOK
  BY DEF WalkInv
<1>2. Init => WalkInv
  BY WalkInit
<1>3. WalkInv /\ [Next]_vars => WalkInv'
  BY WalkStep
<1> QED BY <1>1, <1>2, <1>3, PTL DEF Spec

\* Whenever the agent knows of every redefinition, there is a breakpoint on
\* each instruction it has come by and nowhere else.
THEOREM WalkSetsBreakpoints == Spec => []BreakpointsOnInstructions
<1>1. WalkInv => BreakpointsOnInstructions
  BY DEF WalkInv, UpToDate, BreakpointsOnInstructions
<1>2. Init => WalkInv
  BY WalkInit
<1>3. WalkInv /\ [Next]_vars => WalkInv'
  BY WalkStep
<1> QED BY <1>1, <1>2, <1>3, PTL DEF Spec

-----------------------------------------------------------------------------
(***************************************************************************)
(* Why the agent comes to rest.  It starts again only when it was told of  *)
(* a redefinition; between two of these it clears, reads and walks, in     *)
(* this order, and no step of clearing or walking goes back.               *)
(***************************************************************************)
\* What the agent may yet be told: a redefinition has its call, its return, and the
\* agent's starting again.
TellsLeft ==
    3 * (MaxRedefinitions - redefinitions)
        + (IF redefining THEN 2 ELSE 0) + (IF again THEN 1 ELSE 0)

Stage == [waiting |-> 4, clearing |-> 3, reading |-> 2, walking |-> 1, over |-> 0][job]

\* From an instruction to the next one of the code that was read, or to the end.
GoesByOne ==
    /\ job = "walking" /\ bytes' = bytes
    /\ location \in Starts[bytes]
    /\ location < location'
    /\ location' \in Starts[bytes] \cup {SizeOf(bytes)}
    /\ \A l \in Starts[bytes] : ~(location < l /\ l < location')

ClearsOne == job = "clearing" /\ set' \subseteq set /\ set' # set

AgentGetsOn ==
    \/ TellsLeft' < TellsLeft
    \/ TellsLeft' = TellsLeft /\ Stage' < Stage
    \/ /\ TellsLeft' = TellsLeft /\ job' = job
       /\ GoesByOne \/ ClearsOne \/ UNCHANGED <<bytes, location, set>>

AtRest == job = "walking" /\ ~redefining /\ ~again /\ location = SizeOf(bytes)

\* A redefinition, its return, and starting again each leave less to be told.
LEMMA TellingEnds ==
    ASSUME WalkInv, (\E new \in NewCodes : RedefineClasses(new)) \/ Redefined \/ StartAgain
    PROVE  TellsLeft' < TellsLeft
<1>1. redefinitions \in Nat /\ MaxRedefinitions \in Nat
  BY BoundIsNumber DEF WalkInv, TypeOK
<1>2. CASE \E new \in NewCodes : RedefineClasses(new)
  <2>1. ~redefining /\ redefining' /\ redefinitions' = redefinitions + 1 /\ again' = again
    BY <1>2 DEF RedefineClasses, walk
  <2> QED BY <1>1, <2>1 DEF TellsLeft
<1>3. CASE Redefined
  <2>1. redefining /\ ~redefining' /\ redefinitions' = redefinitions /\ again'
    BY <1>3 DEF Redefined
  <2> QED BY <1>1, <2>1 DEF TellsLeft
<1>4. CASE StartAgain
  <2>1. again /\ ~again' /\ redefinitions' = redefinitions /\ redefining' = redefining
    BY <1>4 DEF StartAgain, jvm
  <2> QED BY <1>1, <2>1 DEF TellsLeft
<1> QED BY <1>2, <1>3, <1>4

\* A step of the walk.
LEMMA WalkGoesByOne ==
    ASSUME WalkInv, SetBreakpoint
    PROVE  GoesByOne
<1>1. bytes \in DOMAIN Codes /\ location \in Starts[bytes] \cup {SizeOf(bytes)}
  BY SizesAreNumbers DEF WalkInv, TypeOK, AtInstruction, SetBreakpoint
<1>2. job = "walking" /\ bytes' = bytes /\ location < SizeOf(bytes)
      /\ location' = NextAfter(bytes, location)
  BY DEF SetBreakpoint, NextAfter
<1>3. /\ location \in Starts[bytes] /\ location \in 0 .. SizeOf(bytes) - 1
      /\ location' \in Starts[bytes] \cup {SizeOf(bytes)} /\ location' \in 0 .. SizeOf(bytes)
      /\ Behind(bytes, location') = Behind(bytes, location) \cup {location}
  BY <1>1, <1>2, NextInstruction
<1>4. SizeOf(bytes) \in Nat /\ Starts[bytes] \subseteq 0 .. SizeOf(bytes) - 1
  BY <1>1, LengthsLeadOn DEF WalkIsExact
<1>5. location < location'
  <2>1. location \in Behind(bytes, location')
    BY <1>3
  <2> QED BY <2>1 DEF Behind
<1>6. ASSUME NEW l \in Starts[bytes], location < l, l < location'
      PROVE  FALSE
  <2>1. l \in Behind(bytes, location')
    BY <1>6 DEF Behind
  <2>2. l \in Behind(bytes, location) \/ l = location
    BY <1>3, <2>1
  <2>3. l \in Nat /\ location \in Nat
    BY <1>3, <1>4
  <2> QED BY <1>6, <2>2, <2>3 DEF Behind
<1> QED BY <1>2, <1>3, <1>5, <1>6 DEF GoesByOne

\* A step of the clearing.
LEMMA ClearingClearsOne ==
    ASSUME WalkInv, ClearBreakpoint
    PROVE  ClearsOne
<1>1. set # {} /\ set \subseteq Nat
  BY SizesAreNumbers DEF WalkInv, TypeOK, ClearBreakpoint
<1>2. PICK n \in set : \A m \in set : n <= m
  BY <1>1, LeastNumber
<1>3. Min(set) \in set
  BY <1>2 DEF Min
<1>4. job = "clearing" /\ set' = set \ {Min(set)}
  BY DEF ClearBreakpoint
<1> QED BY <1>3, <1>4 DEF ClearsOne

LEMMA GettingOn ==
    ASSUME WalkInv, [Next]_vars
    PROVE  AgentGetsOn
<1>1. CASE (\E new \in NewCodes : RedefineClasses(new)) \/ Redefined \/ StartAgain
  BY <1>1, TellingEnds DEF AgentGetsOn
<1>2. ASSUME UNCHANGED <<redefinitions, redefining, again>>
      PROVE  TellsLeft' = TellsLeft
  BY <1>2 DEF TellsLeft
<1>3. CASE AwaitLive \/ GetBytecodes \/ Cleared \/ WrongPhase
  <2>1. TellsLeft' = TellsLeft
    BY <1>2, <1>3 DEF AwaitLive, GetBytecodes, Cleared, WrongPhase, jvm, walk
  <2>2. Stage' < Stage
    <3>1. \/ job = "waiting" /\ job' = "reading"
          \/ job = "reading" /\ job' = "walking"
          \/ job = "clearing" /\ job' = "reading"
          \/ job \in {"reading", "walking", "clearing"} /\ job' = "over"
      BY <1>3 DEF AwaitLive, GetBytecodes, Cleared, WrongPhase
    <3> QED BY <3>1 DEF Stage
  <2> QED BY <2>1, <2>2 DEF AgentGetsOn
<1>4. CASE SetBreakpoint
  <2>1. TellsLeft' = TellsLeft /\ job' = job
    BY <1>2, <1>4 DEF SetBreakpoint
  <2> QED BY <1>4, <2>1, WalkGoesByOne DEF AgentGetsOn
<1>5. CASE ClearBreakpoint
  <2>1. TellsLeft' = TellsLeft /\ job' = job
    BY <1>2, <1>5 DEF ClearBreakpoint
  <2> QED BY <1>5, <2>1, ClearingClearsOne DEF AgentGetsOn
<1>6. CASE Advance \/ Agent_OnLoad \/ (\E event \in Events : Post(event)) \/ UNCHANGED vars
  <2>1. UNCHANGED <<redefinitions, redefining, again, job, bytes, location, set>>
    BY <1>6 DEF Advance, Agent_OnLoad, Post, vars, jvm, walk
  <2> QED BY <1>2, <2>1 DEF AgentGetsOn
<1> QED BY <1>1, <1>3, <1>4, <1>5, <1>6 DEF Next, Agent

\* Every step of the agent's threads brings an end of their work nearer, for methods of any
\* length and any number of redefinitions, and at this end the code the method has
\* then has a breakpoint on each instruction and nowhere else (SetBreakpoint and
\* RedefineClasses of jvmti.h).
THEOREM AgentComesToRest ==
    Spec => [][AgentGetsOn]_vars /\ [](AtRest => breakpoints = Starts[code])
<1>1. WalkInv => (AtRest => breakpoints = Starts[code])
  <2> SUFFICES ASSUME WalkInv, AtRest PROVE breakpoints = Starts[code]
    OBVIOUS
  <2>1. bytes = code /\ breakpoints = Behind(code, location) /\ location = SizeOf(code)
    BY DEF WalkInv, UpToDate, AtRest, Behind
  <2>2. code \in DOMAIN Codes
    BY DEF WalkInv, TypeOK
  <2>3. SizeOf(code) \in Nat /\ Starts[code] \subseteq 0 .. SizeOf(code) - 1
    BY <2>2, LengthsLeadOn DEF WalkIsExact
  <2> QED BY <2>1, <2>3 DEF Behind
<1>2. WalkInv /\ [Next]_vars => [AgentGetsOn]_vars
  BY GettingOn
<1>3. Init => WalkInv
  BY WalkInit
<1>4. WalkInv /\ [Next]_vars => WalkInv'
  BY WalkStep
<1> QED BY <1>1, <1>2, <1>3, <1>4, PTL DEF Spec
=============================================================================
