--------------------------- MODULE TraceSignature ---------------------------
(***************************************************************************)
(* The signature of a trace and the keep decision of a trace id: pure      *)
(* functions of crates/datadog-agent-trace-sampler/src/signature.rs.       *)
(*                                                                         *)
(* A field of a span (env, service, name, ...) is one number below 2^Width *)
(* instead of a string of bytes: the hash folds one byte where the code    *)
(* folds several.  The word is Width bits instead of 32 or 64.             *)
(***************************************************************************)
EXTENDS Naturals, Sequences, SequencesExt, Bitwise

CONSTANTS
  Width,    \* bits of a hash
  Offset,   \* OFFSET32
  Prime,    \* PRIME32
  Hasher    \* SAMPLER_HASHER, odd

\* What an absent http.status_code or error.type is.
Absent == 2^Width

Write(h, field) == ((h ^^ field) * Prime) % 2^Width

\* http.status_code and error.type are written only when the span has them.
SpanHash(span, env, withResource) ==
  LET fields == <<env, span.service, span.name, span.error>>
                \o (IF withResource THEN <<span.resource>> ELSE <<>>)
                \o SelectSeq(<<span.status, span.type>>, LAMBDA f : f # Absent)
  IN FoldLeft(Write, Offset, fields)

\* Sorted, then each hash that differs from the one before it is merged in.
Signature(spans, root, env) ==
  LET hashes == SortSeq([i \in DOMAIN spans |-> SpanHash(spans[i], env, FALSE)],
                        LAMBDA a, b : a < b)
      merge(acc, h) ==
        IF h = acc.last THEN acc ELSE [last |-> h, hash |-> acc.hash ^^ h]
  IN FoldLeft(merge,
              [last |-> hashes[1],
               hash |-> hashes[1] ^^ SpanHash(spans[root], env, TRUE)],
              Tail(hashes)).hash

\* The product wraps and the bound is truncated; a rate is <<numerator,
\* denominator>>.
SampleByRate(id, rate) ==
  rate[1] < rate[2] =>
    (id * Hasher) % 2^Width < (rate[1] * 2^Width) \div rate[2]

=============================================================================
