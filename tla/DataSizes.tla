----------------------------- MODULE DataSizes -----------------------------
(***************************************************************************)
(* Sizes with a unit (include/filestorm/data_sizes.h) and the texts that   *)
(* give sizes and times on the command line.  Numbers are unbounded here:  *)
(* the 64 bits of the code hold 16 EB.                                     *)
(*                                                                         *)
(* A text is a number and the word after it: "4k" is [number |-> 4, whole  *)
(* |-> TRUE, word |-> "k"]; whole is FALSE for a decimal fraction, and     *)
(* word is "" when the text is a number only.                              *)
(***************************************************************************)
EXTENDS Integers

CONSTANT Kilo  \* the factor from one unit to the next, 1024

ASSUME KiloAssumption == Kilo \in Nat \ {0}

Bytes == [B |-> 1, KB |-> Kilo, MB |-> Kilo^2, GB |-> Kilo^3, TB |-> Kilo^4, PB |-> Kilo^5]

DataSize(value, unit, rounding) == [value |-> value, unit |-> unit, rounding |-> rounding]

\* convert() throws when the new unit is bigger and leaves a remainder, unless
\* the size allows rounding; rounding is down.  The flag that counts is the
\* size's own, whatever the caller of the converting constructor passes.
Converts(s, unit) ==
  \/ Bytes[s.unit] >= Bytes[unit]
  \/ (s.value * Bytes[s.unit]) % Bytes[unit] = 0
  \/ s.rounding

Convert(s, unit) == DataSize((s.value * Bytes[s.unit]) \div Bytes[unit], unit, s.rounding)

\* total += s keeps the flag of the total; total + s is a new size without it.
Plus(total, s) == DataSize(total.value + Convert(s, total.unit).value, total.unit, FALSE)
AddTo(total, s) == [Plus(total, s) EXCEPT !.rounding = total.rounding]

-----------------------------------------------------------------------------
UnitOf(word) ==
  CASE word \in {"k", "kb"} -> "KB" [] word \in {"m", "mb"} -> "MB"
    [] word \in {"g", "gb"} -> "GB" [] word \in {"t", "tb"} -> "TB"
    [] word \in {"p", "pb"} -> "PB" [] OTHER -> "B"

\* fromString() throws for a number without a unit, a decimal fraction, an
\* unknown unit, and a size that is not a multiple of the unit asked for.
Parses(text, unit) ==
  /\ text.whole
  /\ text.word \in {"b", "k", "kb", "m", "mb", "g", "gb", "t", "tb", "p", "pb"}
  /\ (text.number * Bytes[UnitOf(text.word)]) % Bytes[unit] = 0

\* stringToChrono() looks at the last character only: "ms" counts as seconds.
TimeParses(text) == text.word \in {"h", "m", "s", "ms"}
=============================================================================
