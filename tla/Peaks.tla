-------------------------------- MODULE Peaks --------------------------------
(***************************************************************************)
(* The buckets of peaks (rust/src/services.rs): samples are divided among  *)
(* at most 200 buckets whose bounds are truncated floating-point products. *)
(*                                                                         *)
(* A float is the integer m of a value m / 2^s: a mantissa of Precision    *)
(* bits, rounded to nearest, ties to even.  The program has 53 bits.       *)
(***************************************************************************)
EXTENDS Integers

CONSTANTS
  Points,       \* WAVEFORM_POINTS
  Precision,    \* bits of a mantissa
  MaxSamples    \* bound: sample counts checked

VARIABLE samples

Min2(a, b) == IF a < b THEN a ELSE b
Max2(a, b) == IF a > b THEN a ELSE b

\* x / y to the nearest integer, ties to even.
Nearest(x, y) ==
  LET q == x \div y  twice == 2 * (x % y)
  IN  IF twice > y \/ (twice = y /\ q % 2 = 1) THEN q + 1 ELSE q

Buckets == Min2(Points, Max2(samples, 1))

\* size = samples / buckets is Mantissa / 2^Shift.
Shift ==
  LET enough(s) == samples * 2^s >= Buckets * 2^(Precision - 1)
  IN  CHOOSE s \in 0 .. Precision : enough(s) /\ \A t \in 0 .. s - 1 : ~enough(t)

Mantissa == Nearest(samples * 2^Shift, Buckets)

\* b * size, rounded to Precision bits, truncated.
Product(b) ==
  LET exact == b * Mantissa
      bits  == CHOOSE n \in Precision .. 2 * Precision : exact < 2^n /\ (n = Precision \/ exact >= 2^(n - 1))
      drop  == bits - Precision
  IN  (Nearest(exact, 2^drop) * 2^drop) \div 2^Shift

\* Faulty variant of Bound: the bucket size is an integer.
BoundInteger(b) == b * (samples \div Buckets)

Bound(b) == IF samples = 0 THEN 0 ELSE Product(b)

Start(b) == Bound(b)
End(b)   == Min2(Bound(b + 1), samples)

Init == samples = 0

Next == samples < MaxSamples /\ samples' = samples + 1

-----------------------------------------------------------------------------
\* Every sample but possibly the last is in exactly one bucket, and no bucket is
\* empty unless there are no samples: rounding never makes a gap, an overlap, or
\* a bound outside the PCM, and costs one sample at most.
BucketsCover ==
  LET last == Buckets - 1
  IN  /\ Start(0) = 0
      /\ \A b \in 0 .. last : Start(b) < End(b) \/ samples = 0
      /\ \A b \in 0 .. last - 1 : End(b) = Start(b + 1)
      /\ End(last) \in {samples, samples - 1} \cap Nat
=============================================================================
