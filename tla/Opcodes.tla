------------------------------ MODULE Opcodes ------------------------------
(***************************************************************************)
(* The instructions of a Java method (include/classfile_constants.h):      *)
(* their opcodes, and the table of their lengths that a tool uses to find  *)
(* where the instructions of a method start.  The table has no length for  *)
(* three instructions: wide, whose entry is 0, and the two switches, whose *)
(* entry is 99.  The tool has to compute these.                            *)
(***************************************************************************)
LOCAL INSTANCE Naturals
LOCAL INSTANCE Sequences
LOCAL INSTANCE SequencesExt

\* The mnemonics in the order of their opcodes, by the groups of the class
\* file format.
ConstantOps ==
    <<"nop", "aconst_null", "iconst_m1", "iconst_0", "iconst_1", "iconst_2",
      "iconst_3", "iconst_4", "iconst_5", "lconst_0", "lconst_1", "fconst_0",
      "fconst_1", "fconst_2", "dconst_0", "dconst_1", "bipush", "sipush",
      "ldc", "ldc_w", "ldc2_w">>

LoadOps ==
    <<"iload", "lload", "fload", "dload", "aload", "iload_0", "iload_1",
      "iload_2", "iload_3", "lload_0", "lload_1", "lload_2", "lload_3",
      "fload_0", "fload_1", "fload_2", "fload_3", "dload_0", "dload_1",
      "dload_2", "dload_3", "aload_0", "aload_1", "aload_2", "aload_3",
      "iaload", "laload", "faload", "daload", "aaload", "baload", "caload",
      "saload">>

StoreOps ==
    <<"istore", "lstore", "fstore", "dstore", "astore", "istore_0", "istore_1",
      "istore_2", "istore_3", "lstore_0", "lstore_1", "lstore_2", "lstore_3",
      "fstore_0", "fstore_1", "fstore_2", "fstore_3", "dstore_0", "dstore_1",
      "dstore_2", "dstore_3", "astore_0", "astore_1", "astore_2", "astore_3",
      "iastore", "lastore", "fastore", "dastore", "aastore", "bastore",
      "castore", "sastore">>

StackOps ==
    <<"pop", "pop2", "dup", "dup_x1", "dup_x2", "dup2", "dup2_x1", "dup2_x2",
      "swap">>

MathOps ==
    <<"iadd", "ladd", "fadd", "dadd", "isub", "lsub", "fsub", "dsub", "imul",
      "lmul", "fmul", "dmul", "idiv", "ldiv", "fdiv", "ddiv", "irem", "lrem",
      "frem", "drem", "ineg", "lneg", "fneg", "dneg", "ishl", "lshl", "ishr",
      "lshr", "iushr", "lushr", "iand", "land", "ior", "lor", "ixor", "lxor",
      "iinc">>

ConversionOps ==
    <<"i2l", "i2f", "i2d", "l2i", "l2f", "l2d", "f2i", "f2l", "f2d", "d2i",
      "d2l", "d2f", "i2b", "i2c", "i2s">>

ComparisonOps ==
    <<"lcmp", "fcmpl", "fcmpg", "dcmpl", "dcmpg", "ifeq", "ifne", "iflt",
      "ifge", "ifgt", "ifle", "if_icmpeq", "if_icmpne", "if_icmplt",
      "if_icmpge", "if_icmpgt", "if_icmple", "if_acmpeq", "if_acmpne">>

ControlOps ==
    <<"goto", "jsr", "ret", "tableswitch", "lookupswitch", "ireturn",
      "lreturn", "freturn", "dreturn", "areturn", "return">>

ReferenceOps ==
    <<"getstatic", "putstatic", "getfield", "putfield", "invokevirtual",
      "invokespecial", "invokestatic", "invokeinterface", "invokedynamic",
      "new", "newarray", "anewarray", "arraylength", "athrow", "checkcast",
      "instanceof", "monitorenter", "monitorexit">>

ExtendedOps ==
    <<"wide", "multianewarray", "ifnull", "ifnonnull", "goto_w", "jsr_w">>

Mnemonics == ConstantOps \o LoadOps \o StoreOps \o StackOps \o MathOps \o ConversionOps
                \o ComparisonOps \o ControlOps \o ReferenceOps \o ExtendedOps

JVM_OPC_MAX == 201

OpcodeOf == [op \in Range(Mnemonics) |-> CHOOSE n \in 0 .. JVM_OPC_MAX : Mnemonics[n + 1] = op]

-----------------------------------------------------------------------------
(***************************************************************************)
(* The table of lengths, by the same groups.                               *)
(***************************************************************************)
Times(length, n) == [i \in 1 .. n |-> length]

ConstantLengths   == Times(1, 16) \o <<2, 3, 2, 3, 3>>
VariableLengths   == Times(2, 5) \o Times(1, 28)      \* of LoadOps, and of StoreOps
ValueLengths      == Times(1, 45) \o <<3>> \o Times(1, 15)
ComparisonLengths == Times(1, 5) \o Times(3, 14)
ControlLengths    == <<3, 3, 2, 99, 99>> \o Times(1, 6)
ReferenceLengths  == Times(3, 7) \o <<5, 5, 3, 2, 3, 1, 1, 3, 3, 1, 1>>
ExtendedLengths   == <<0, 4, 3, 3, 5, 5>>

JVM_OPCODE_LENGTH_INITIALIZER ==
    ConstantLengths \o VariableLengths \o VariableLengths \o ValueLengths
        \o ComparisonLengths \o ControlLengths \o ReferenceLengths \o ExtendedLengths

opcode_length(opcode) == JVM_OPCODE_LENGTH_INITIALIZER[opcode + 1]

-----------------------------------------------------------------------------
(***************************************************************************)
(* Code as a class file has it: an instruction is its mnemonic, the one it *)
(* widens (wide) and the number of its entries (the switches); a method is *)
(* the bytes of its instructions.  Operands are 0, except those that tell  *)
(* the length of the instruction; a number of entries is in the first byte *)
(* of its word (and the lowest value of a tableswitch is 1).               *)
(***************************************************************************)
TypedLoadStore == {"iload", "lload", "fload", "dload", "aload",
                   "istore", "lstore", "fstore", "dstore", "astore"}
Branches == Range(ComparisonOps) \ {"lcmp", "fcmpl", "fcmpg", "dcmpl", "dcmpg"}

OperandBytes(op) ==
    CASE op \in TypedLoadStore \cup {"bipush", "ldc", "ret", "newarray"} -> 1
      [] op \in Branches \cup {"sipush", "ldc_w", "ldc2_w", "iinc", "goto", "jsr",
            "getstatic", "putstatic", "getfield", "putfield", "invokevirtual",
            "invokespecial", "invokestatic", "new", "anewarray", "checkcast",
            "instanceof", "ifnull", "ifnonnull"} -> 2
      [] op = "multianewarray" -> 3
      [] op \in {"invokeinterface", "invokedynamic", "goto_w", "jsr_w"} -> 4
      [] OTHER -> 0

\* The words of a switch are aligned to 4 bytes from the start of the method.
Padding(pc) == 3 - (pc % 4)

\* The bytes of instruction ins when it starts at pc.
Encoded(ins, pc) ==
    LET opcode == OpcodeOf[ins.op]
    IN  CASE ins.op = "wide" ->
                <<opcode, OpcodeOf[ins.of]>> \o Times(0, 2 * OperandBytes(ins.of))
          [] ins.op = "tableswitch" ->
                <<opcode>> \o Times(0, Padding(pc) + 8) \o <<ins.n>> \o Times(0, 3 + 4 * ins.n)
          [] ins.op = "lookupswitch" ->
                <<opcode>> \o Times(0, Padding(pc) + 4) \o <<ins.n>> \o Times(0, 3 + 8 * ins.n)
          [] OTHER ->
                <<opcode>> \o Times(0, OperandBytes(ins.op))

\* The instructions that exist; wide widens those with an index of a variable.
Instructions ==
    {ins \in [op : Range(Mnemonics), of : STRING, n : Nat] :
        ins.op = "wide" => ins.of \in TypedLoadStore \cup {"iinc", "ret"}}

\* The bytes of the first i instructions of a method.
AddInstruction(before, ins) == before \o Encoded(ins, Len(before))

BytesUpTo(method) ==
    LET upTo[i \in 0 .. Len(method)] ==
            IF i = 0 THEN <<>> ELSE AddInstruction(upTo[i - 1], method[i])
    IN  upTo

\* The bytes of a method, and where its instructions start.
Bytes(method) == BytesUpTo(method)[Len(method)]

StartsOf(method) == {Len(BytesUpTo(method)[i - 1]) : i \in DOMAIN method}

-----------------------------------------------------------------------------
(***************************************************************************)
(* The tool: the length of the instruction at pc, from the table and, where *)
(* it has none, from the bytes of the method.                              *)
(***************************************************************************)
ByteAt(bytes, pc) == IF pc < Len(bytes) THEN bytes[pc + 1] ELSE 0

\* A widened instruction has twice the operands, and the opcode of wide.
WideLength(bytes, pc) == 2 * opcode_length(ByteAt(bytes, pc + 1))

SwitchLength(bytes, pc) ==
    LET words == pc + 1 + Padding(pc)
    IN  IF ByteAt(bytes, pc) = OpcodeOf["tableswitch"]
        THEN 1 + Padding(pc) + 12 + 4 * ByteAt(bytes, words + 8)
        ELSE 1 + Padding(pc) + 8 + 8 * ByteAt(bytes, words + 4)

\* Variant with a bug: the entry of the table is the length of every instruction.
TableOnlyLength(bytes, pc) == opcode_length(ByteAt(bytes, pc))

InstructionLength(bytes, pc) ==
    LET length == opcode_length(ByteAt(bytes, pc))
    IN  CASE length = 0  -> WideLength(bytes, pc)
          [] length = 99 -> SwitchLength(bytes, pc)
          [] OTHER       -> length
=============================================================================
