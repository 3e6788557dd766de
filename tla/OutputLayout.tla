---------------------------- MODULE OutputLayout ----------------------------
(***************************************************************************)
(* The output buffer of a GPU request (tbs-kernels.cu): get_out_buffer_size*)
(* gives its size, generate_result fills it on the device and              *)
(* copy_output_to_cpu takes it apart on the host.                          *)
(*                                                                         *)
(* The buffer is a function on units of four bytes. A token takes one unit;*)
(* a size_t and a double take two.  A unit keeps the value it is a part of *)
(* and which part, so that a read that mixes two writes yields no value.   *)
(* What the kernel selected is a sequence of [tokens, logp], the best first*)
(***************************************************************************)
EXTENDS Integers, Sequences, SequencesExt

CONSTANTS
  BlockSize,      (* KERNEL_BLOCK_SIZE: threads of one block               *)
  MaxOutBeams,    (* max_num_out_beams_                                    *)
  MaxOutTokens,   (* max_num_out_tokens_                                   *)
  Garbage         (* what memory holds that nobody wrote, and a torn read  *)

ASSUME LayoutAssumption ==
  /\ BlockSize \in Nat \ {0}
  /\ MaxOutBeams \in Nat \ {0}
  /\ MaxOutTokens \in Nat
  /\ Garbage \notin Int

(* Size of a buffer: total_bytes, num_beams, logp_norm, sent_offset, sent. *)
OutUnits(beams, tokens) == 2 * 2 + 2 * beams + 2 * beams + tokens

Buffer == 0 .. OutUnits(MaxOutBeams, MaxOutTokens) - 1

BlankBuffer == [u \in Buffer |-> [of |-> Garbage, part |-> 0]]

TotalAt == 0
BeamsAt == 2
LogpAt(i) == 4 + 2 * i
OffsetAt(n, i) == 4 + 2 * n + 2 * i
TokenAt(n, i) == 4 + 4 * n + i

(* An array of values that take a word each, from unit u on, and one that  *)
(* take half a word, as what is written; a write over what was there.      *)
WordsAt(u, values) ==
  [w \in u .. u + 2 * Len(values) - 1 |->
     [of |-> values[(w - u) \div 2 + 1], part |-> ((w - u) % 2) + 1]]
HalvesAt(u, values) == [w \in u .. u + Len(values) - 1 |-> [of |-> values[w - u + 1], part |-> 0]]

Over(written, mem) ==
  [u \in DOMAIN written \cup DOMAIN mem |-> IF u \in DOMAIN written THEN written[u] ELSE mem[u]]

WordRead(mem, u) ==
  IF mem[u].part = 1 /\ mem[u + 1].part = 2 /\ mem[u].of = mem[u + 1].of THEN mem[u].of ELSE Garbage

HalfRead(mem, u) == IF mem[u].part = 0 THEN mem[u].of ELSE Garbage

(* One past the last unit that generate_result writes for n beams of so    *)
(* many tokens: the scan fills whole blocks of threads.                    *)
Rounded(n) == ((n + BlockSize - 1) \div BlockSize) * BlockSize

UnitsTouched(n, tokens) ==
  LET scanned == OffsetAt(n, Rounded(n))
  IN IF scanned > TokenAt(n, tokens) THEN scanned ELSE TokenAt(n, tokens)

(* The lengths and scores are put down in ascending order of score: beam id*)
(* of selected, the best of which is the first, goes to num_beams - 1 - id.*)
Beam(selected, outId) == selected[Len(selected) - outId]

(* The sums of the first so many of x[0], x[1], ...                        *)
SumsOf(x) == LET sum[n \in Nat] == IF n = 0 THEN 0 ELSE sum[n - 1] + x[n - 1] IN sum

(* The inclusive prefix sum of the lengths, made in place and block by     *)
(* block; threads past the last beam add nothing and write the sum so far. *)
LengthOf(selected, i) == IF i < Len(selected) THEN Len(Beam(selected, i).tokens) ELSE 0

End(selected, i) == SumsOf([k \in Nat |-> LengthOf(selected, k)])[i + 1]

(* A slip: each block of threads starts its sums anew.                     *)
ScanByBlock(selected) ==
  LET first(i) == BlockSize * (i \div BlockSize)
  IN WordsAt(OffsetAt(Len(selected), 0),
           [i \in 1 .. Rounded(Len(selected)) |-> End(selected, i - 1) - End(selected, first(i - 1) - 1)])

Scan(selected) ==
  WordsAt(OffsetAt(Len(selected), 0), [i \in 1 .. Rounded(Len(selected)) |-> End(selected, i - 1)])

Scores(selected) == WordsAt(LogpAt(0), [i \in 1 .. Len(selected) |-> Beam(selected, i - 1).logp])

(* The tokens of each beam, from its last one at the place before its      *)
(* offset back to its first.                                               *)
WriterOf(selected, at) ==
  CHOOSE i \in 0 .. Len(selected) - 1 : End(selected, i - 1) <= at /\ at < End(selected, i)

TokenWritten(selected, at) ==
  LET i   == WriterOf(selected, at)
      pos == End(selected, i) - 1 - at
  IN Beam(selected, i).tokens[LengthOf(selected, i) - pos]

Sentences(selected) ==
  HalvesAt(TokenAt(Len(selected), 0),
         [k \in 1 .. End(selected, Len(selected) - 1) |-> TokenWritten(selected, k - 1)])

(* The number of tokens is the last offset; without a beam it is the word *)
(* before the offsets, and that is the number of beams.                    *)
TokensIn(mem, n) == WordRead(mem, OffsetAt(n, n - 1))

(* What stands in the buffer when the number of tokens is read.            *)
Scanned(selected) ==
  Over(WordsAt(BeamsAt, << Len(selected) >>), Over(Scan(selected), Scores(selected)))

(* All that generate_result writes, whatever the buffer holds: the scan    *)
(* comes before the tokens, and its writes past the last beam lie where the*)
(* tokens will.                                                            *)
GenerateResult(selected) ==
  LET n     == Len(selected)
      total == WordsAt(TotalAt, << OutUnits(n, TokensIn(Scanned(selected), n)) >>)
  IN Over(total, Over(Sentences(selected), Scanned(selected)))

(* What the host gets: so many units of the device buffer, over what it    *)
(* held before.                                                            *)
CopiedBack(host, device, units) == [u \in Buffer |-> IF u < units THEN device[u] ELSE host[u]]

(* copy_output_to_cpu behind the synchronisation: the scores and sentences,*)
(* or Garbage where the number of beams is none or its last assert, that it*)
(* took apart as many units as were written, would fail.                   *)
Parsed(mem) ==
  LET n == WordRead(mem, BeamsAt)
      UpTo(i) == IF i = 0 THEN 0 ELSE WordRead(mem, OffsetAt(n, i - 1))
  IN IF n = Garbage \/ WordRead(mem, TotalAt) # OutUnits(n, TokensIn(mem, n)) THEN Garbage
     ELSE [i \in 1 .. n |->
             [ tokens |-> [k \in 1 .. UpTo(i) - UpTo(i - 1) |-> HalfRead(mem, TokenAt(n, UpTo(i - 1) + k - 1))],
               logp |-> WordRead(mem, LogpAt(i - 1)) ]]
=============================================================================
