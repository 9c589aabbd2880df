----------------------------- MODULE ObjectFile -----------------------------
(***************************************************************************)
(* The object files of the pal assembler and the two C functions that read *)
(* them: fill_memory of the golden model and init_temp_mem of the          *)
(* emulator's transactor, with send_word_to_hdl, which hands out its       *)
(* words.  A file is a sequence of bytes, taken two at a time; bit 6 of    *)
(* the first makes the pair an origin, otherwise it is the word to store   *)
(* at the current address.  A last byte without a second is dropped.       *)
(*                                                                         *)
(* Addresses are counted in 16 bits.  fill_memory stores beyond the array  *)
(* when a file goes on after 7777; no file here does.                      *)
(***************************************************************************)
EXTENDS Naturals, Sequences, SequencesExt

Pairs(file) == [k \in 1 .. Len(file) \div 2 |-> <<file[2 * k - 1], file[2 * k]>>]

IsOrigin(pair) == (pair[1] \div 64) % 2 = 1
WordValue(pair) == ((pair[1] % 64) * 64) + (pair[2] % 64)

\* The partial function m with d at a.
Stored(m, a, d) == [b \in DOMAIN m \cup {a} |-> IF b = a THEN d ELSE m[b]]

\* One turn of fill_memory's loop.
FillPair(s, pair) ==
  IF IsOrigin(pair) THEN [s EXCEPT !.address = WordValue(pair)]
  ELSE [address |-> s.address + 1, memory |-> Stored(s.memory, s.address, WordValue(pair))]

fill_memory(file) ==
  FoldLeft(FillPair, [address |-> 0, memory |-> <<>>], Pairs(file)).memory

\* A mutant: the address is not counted up.
RecordPairInPlace(s, pair) ==
  IF IsOrigin(pair) THEN [s EXCEPT !.address = WordValue(pair)]
  ELSE [s EXCEPT !.cells = Append(@, [address |-> s.address, data |-> WordValue(pair)])]

\* One turn of init_temp_mem's loop.
RecordPair(s, pair) ==
  IF IsOrigin(pair) THEN [s EXCEPT !.address = WordValue(pair)]
  ELSE [address |-> (s.address + 1) % 65536,
        cells |-> Append(s.cells, [address |-> s.address, data |-> WordValue(pair)])]

\* temp_memory up to max_index.
init_temp_mem(file) ==
  FoldLeft(RecordPair, [address |-> 0, cells |-> <<>>], Pairs(file)).cells

\* The k-th answer of send_word_to_hdl.  The answer after the last word sets
\* mem_done and leaves the two outputs as they were.
send_word_to_hdl(file, k) ==
  LET cells == init_temp_mem(file)
      held  == IF k > Len(cells) THEN Len(cells) ELSE k
  IN  [address |-> IF held = 0 THEN 0 ELSE cells[held].address % 4096,
       data    |-> IF held = 0 THEN 0 ELSE cells[held].data,
       done    |-> k > Len(cells)]

=============================================================================
