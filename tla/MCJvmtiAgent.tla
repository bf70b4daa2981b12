---------------------------- MODULE MCJvmtiAgent ----------------------------
(* Codes for TLC: every opcode is in one of the first 21; the others have     *)
(* wide, and the switches, at every alignment and with up to two entries.     *)
EXTENDS JvmtiAgent

Plain(op) == [op |-> op, of |-> "", n |-> 0]
Wide(op) == [op |-> "wide", of |-> op, n |-> 0]
Switch(op, n) == [op |-> op, of |-> "", n |-> n]

InstructionOf(op) == IF op = "wide" THEN Wide("iload") ELSE Plain(op)
Group(ops) == [i \in DOMAIN ops |-> InstructionOf(ops[i])]

\* All opcodes in codes of up to ten instructions.
Groups == [k \in 1 .. 21 |-> Group(SubSeq(Mnemonics, 10 * k - 9, Min({10 * k, Len(Mnemonics)})))]

\* A switch after k instructions of one byte.
SwitchAfter(k, op, n) == [i \in 1 .. k |-> Plain("nop")] \o <<Switch(op, n), Plain("return")>>

Switches == [i \in 1 .. 8 |-> SwitchAfter(i % 4, "tableswitch", i % 3)]
                \o [i \in 1 .. 8 |-> SwitchAfter(i % 4, "lookupswitch", i % 3)]

NewCode == <<Wide("iinc"), Wide("ret"), Plain("goto_w"), Switch("lookupswitch", 1), Plain("return")>>

MCCodes == Groups \o Switches \o <<NewCode>>
MCNewCodes == {Len(MCCodes)}
=============================================================================
