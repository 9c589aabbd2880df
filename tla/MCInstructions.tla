--------------------------- MODULE MCInstructions ---------------------------
(***************************************************************************)
(* One instruction from many states: the memory reference instructions in  *)
(* every addressing mode, and the microinstructions.                       *)
(***************************************************************************)
EXTENDS CPUTraces, CPUSafety, TLC

Start == \o200

\* The run switch is on, nothing else happens.
Running == [run |-> TRUE, step |-> FALSE, loadpc |-> FALSE, loadac |-> FALSE,
             deposit |-> FALSE, dispsel |-> 0, swreg |-> \o1234, skipFlag |-> FALSE,
             clearacc |-> FALSE, datain |-> 0]
OneInput == {Running}

RegsAt(pcs, acs, lks, mqs) ==
  {[ac |-> a, lk |-> l, ir |-> 0, mq |-> q, pc |-> p, mb |-> \o1111, ea |-> \o6666] :
     a \in acs, l \in lks, q \in mqs, p \in pcs}

\* One operation is enough: the state it leaves is a state to start in.
OneOperation == event = NoEvent

-----------------------------------------------------------------------------
\* Memory reference: direct and indirect operands on page zero and on the
\* current page, the first and last auto-index locations and their
\* neighbours, at the start of a page and in the last word of memory.

Offsets == {\o007, \o010, \o017, \o020}
MemRefs == {512 * op + 256 * ind + 128 * pg + off :
              op \in 0 .. 5, ind \in 0 .. 1, pg \in 0 .. 1, off \in Offsets}

\* JMP to page zero without indirection has a run of its own.
CleanMemRefs == {w \in MemRefs : Alike(w)}

Operands == {1, \o300, \o7777}

\* The operand locations of both pages hold v, which is also the pointer of
\* an indirect reference; what v points to holds t.
MemoryWith(w, v, t) ==
  (Start :> w) @@ (\o7777 :> w)
  @@ [a \in Offsets \cup {Start + o : o \in Offsets} |-> v]
  @@ (v :> t) @@ (Inc(v) :> t)

MemRefPrograms == {MemoryWith(w, v, t) : w \in CleanMemRefs, v \in Operands, t \in {5, \o7777}}
MemRefRegs == RegsAt({Start, \o7777}, {1, \o5252, \o7777}, {0, 1}, {\o3333})

-----------------------------------------------------------------------------
\* Groups 1 and 2: every instruction for which the two designs mean the same.
\* Some of the others have runs of their own.

Operates1 == {w \in \o7000 .. \o7377 : Alike(w)}
Operates2 == {w \in \o7400 .. \o7777 : Group2(w) /\ Alike(w)}

-----------------------------------------------------------------------------
\* Group 3, without the swap.  The word that is multiplied or divided by is
\* in both words after the instruction: the designs do not agree on which.

Group3Words == {w \in {\o7401 + 128 * c + 64 * a + 16 * l + e :
                         c \in 0 .. 1, a \in 0 .. 1, l \in 0 .. 1, e \in {0, 2, 4, 6}} : Alike(w)}

Group3Programs == {(Start :> w) @@ (Start + 1 :> d) @@ (Start + 2 :> d) :
                     w \in Group3Words, d \in {0, 3, \o4001, \o7777}}

OperatePrograms == {(Start :> w) : w \in Operates1 \cup Operates2} \cup Group3Programs
OperateRegs == RegsAt({Start}, {0, 2, \o2525, \o4000, \o7777}, {0, 1}, {0, 1, \o4000, \o7777})

\* A quotient of all ones is not compared: the divider leaves the link alone.
ComparableDivision ==
  state = "MIC_8" /\ On(reg.ir, 1) /\ reg.ac < reg.mb =>
    (reg.ac * 4096 + reg.mq) \div reg.mb # \o7777

-----------------------------------------------------------------------------
\* Both kinds.  MQ, which memory reference does not touch, tells which
\* registers go with which program.
AllPrograms == MemRefPrograms \cup OperatePrograms
AllRegs == MemRefRegs \cup OperateRegs

OwnRegs == arch.mem[Start] < \o7000 <=> arch.mq = \o3333

OneInstruction == OneOperation /\ OwnRegs /\ ComparableDivision

=============================================================================
