---------------------------- MODULE DeviceAccess ----------------------------
(***************************************************************************)
(* What a device mapped into memory sees of an instruction.  To memory a   *)
(* second read, or a second write of the same value, makes no difference,  *)
(* and the instruction set knows of neither; a device that acts on being   *)
(* read or written does notice.                                            *)
(***************************************************************************)
EXTENDS CpuImplementation

VARIABLE touched    \* the accesses that the instruction in progress has made
                    \* at the address of its operand

devicevars == <<vars, boundary, touched>>

Target == InstructionSet!Effective(InstructionSet!Mode(op.def))

HasOperand ==
  op.def \in Opcode /\ InstructionSet!Mode(op.def) \in InstructionSet!MemoryModes

\* The accesses of this tick at the operand, without what they transfer.
TouchedNow ==
  LET AtOperand(a) == a.addr = Target
      there        == SelectSeq(bus', AtOperand)
  IN  [i \in DOMAIN there |-> there[i].access]

TouchedKept ==
  touched' = IF HasOperand THEN touched \o TouchedNow ELSE <<>>

-----------------------------------------------------------------------------

\* The read that waits for the carry of an index.  A read, and TAS, makes it only
\* if there is one; stores and read-modify-writes always do.
ReadBeforeCarry ==
  IF /\ InstructionSet!Operation(op.def) \in ReadFns \cup {"tas"}
     /\ ~InstructionSet!Crosses(InstructionSet!Mode(op.def))
  THEN {} ELSE {op.temp_addr}

\* The other addresses that an instruction reads on its way: itself, the
\* pointer to the operand, and the address it finds before the index carries.
ReadOnTheWay ==
  LET pc == boundary.cpu.PC
      p  == InstructionSet!Byte1
      x  == boundary.cpu.X
  IN  {pc, U16(pc + 1), U16(pc + 2)} \cup ReadBeforeCarry
      \cup (CASE InstructionSet!Mode(op.def) = "indX" ->
                   {p, U8(p + x), U8(p + x + 1)}
              [] InstructionSet!Mode(op.def) = "indY" -> {p, U8(p + 1)}
              [] InstructionSet!Mode(op.def) \in {"zpX", "zpY"} -> {p}
              [] OTHER -> {})

\* What the instruction is to do to a device.
Touches(f) ==
  CASE f \in ReadFns           -> <<"read">>
    [] f \in StoreFns          -> <<"write">>
    [] f = "tas"               -> IF InstructionSet!Crosses("absY")
                                  THEN <<"write">> ELSE <<"read", "write">>
    [] f \in {"lsr", "rol"}    -> <<"read", "write">>
    [] f \in ModifyFns \ {"lsr", "rol"} -> <<"read", "write", "write">>

\* An instruction reads its operand once or stores once, and a read-modify-
\* write reads once, before it writes; nothing is read again because an index
\* carried, nor by the cycle that waits for the carry.  TAS reads what it is
\* about to write when the index does not carry.
TouchesOperandOnce ==
  [][ Finishes /\ HasOperand /\ Target \notin ReadOnTheWay =>
        touched' = Touches(InstructionSet!Operation(op.def)) ]_devicevars

=============================================================================
