-------------------------- MODULE MemoryController --------------------------
(***************************************************************************)
(* memory_controller.sv: the memory array and the four-state machine that  *)
(* serves one read or write at a time.  A requester raises read_enable or  *)
(* write_enable and keeps it, with the address and the data, until         *)
(* mem_finished is high; mem_finished is high for one clock, three clocks  *)
(* after the request was seen.  The machine has no reset.                  *)
(*                                                                         *)
(* memory is a partial function: its domain is the set of locations whose  *)
(* valid flag is set.  read_data is a latch: it follows the addressed      *)
(* location while the machine is in READ and holds afterwards.             *)
(***************************************************************************)
EXTENDS Words

VARIABLES
  memState,   \* current_state: IDLE, READ, WRITE or DONE
  memory,     \* bus.memory
  readLatch   \* what bus.read_data holds outside READ

memVars == <<memState, memory, readLatch>>

MemStates == {"IDLE", "READ", "WRITE", "DONE"}

\* mem_finished, a Moore output.
MemFinished == memState = "DONE"

\* read_memory: a location never written reads as zero.  The two read types
\* return the same word.
ReadMemory(a) == IF a \in DOMAIN memory THEN memory[a] ELSE 0

\* A mutant: the word is written and its valid flag is not.
WriteMemoryFlagless(a, d) ==
  memory' = [b \in DOMAIN memory |-> IF b = a THEN d ELSE memory[b]]

\* write_memory: the location becomes valid.
WriteMemory(a, d) ==
  memory' = [b \in DOMAIN memory \cup {a} |-> IF b = a THEN d ELSE memory[b]]

\* A mutant: a default assignment where the code holds the value.
ReadDataUnheld(address) == IF memState = "READ" THEN ReadMemory(address) ELSE 0

\* The wire read_data, with `address' on the address wires.
ReadData(address) == IF memState = "READ" THEN ReadMemory(address) ELSE readLatch

-----------------------------------------------------------------------------

MemIdle(readEnable, writeEnable) ==
  /\ memState = "IDLE"
  /\ memState' = IF writeEnable THEN "WRITE" ELSE IF readEnable THEN "READ" ELSE "IDLE"
  /\ UNCHANGED <<memory, readLatch>>

\* A mutant: READ goes back to IDLE without passing through DONE.
MemReadUnanswered(address) ==
  /\ memState = "READ"
  /\ memState' = "IDLE"
  /\ readLatch' = ReadData(address)
  /\ UNCHANGED memory

MemRead(address) ==
  /\ memState = "READ"
  /\ memState' = "DONE"
  /\ readLatch' = ReadData(address)
  /\ UNCHANGED memory

\* A mutant: a memory that may take more than one clock to write.
MemWriteSlow(address, data) ==
  /\ memState = "WRITE"
  /\ memState' \in {"WRITE", "DONE"}
  /\ WriteMemory(address, data)
  /\ UNCHANGED readLatch

MemWrite(address, data) ==
  /\ memState = "WRITE"
  /\ memState' = "DONE"
  /\ WriteMemory(address, data)
  /\ UNCHANGED readLatch

MemDone ==
  /\ memState = "DONE"
  /\ memState' = "IDLE"
  /\ UNCHANGED <<memory, readLatch>>

\* One rising edge of the clock, with these values on the request wires.
MemClock(readEnable, writeEnable, address, data) ==
  \/ MemIdle(readEnable, writeEnable)
  \/ MemRead(address)
  \/ MemWrite(address, data)
  \/ MemDone

MemTypeOK ==
  /\ memState \in MemStates
  /\ DOMAIN memory \subseteq Word
  /\ \A a \in DOMAIN memory : memory[a] \in Word
  /\ readLatch \in Word

=============================================================================
