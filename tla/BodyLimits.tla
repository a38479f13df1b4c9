------------------------------- MODULE BodyLimits -------------------------------
(***************************************************************************)
(* What becomes of a request's body on its way to the route:                *)
(* BodySizeLimitMiddleware, then GZipRequestMiddleware.  No state is kept.  *)
(***************************************************************************)
EXTENDS Integers

CONSTANTS
  BodyLimit,        \* max_size, as main.py passes it
  MaxDecompressed,  \* settings.MAX_DECOMPRESSED_BODY_SIZE
  MaxSize,          \* bound of the model: sizes of bodies
  EnableGzip        \* settings.ENABLE_GZIP

ASSUME BodyAssumption ==
  /\ BodyLimit \in Nat \ {0}
  /\ MaxDecompressed \in Nat
  /\ MaxSize \in Nat
  /\ EnableGzip \in BOOLEAN

Sizes == 0 .. MaxSize

\* framing: a Content-Length, chunks, neither, or a Content-Length that is no
\* number; wire: bytes sent; plain: bytes meant; corrupt: gzip cannot read it.
Bodies ==
  {b \in [framing : {"length", "chunked", "none", "invalid"}, wire : Sizes, plain : Sizes,
          gzip : BOOLEAN, corrupt : BOOLEAN] :
     /\ b.framing = "none" => b.wire = 0
     /\ b.wire = 0 => b.plain = 0
     /\ ~b.gzip => b.plain = b.wire /\ ~b.corrupt}

\* BodySizeLimitMiddleware, 200 for a request that goes on.
SizeCheck(b) ==
  CASE b.framing = "chunked" -> 413
    [] b.framing = "invalid" -> 400
    [] b.framing = "length" /\ b.wire > BodyLimit -> 413
    [] OTHER -> 200

\* Mutant: f.read() without the extra byte that tells a longer body.
DecompressedExactly(b) == IF b.plain > MaxDecompressed THEN MaxDecompressed ELSE b.plain

\* f.read(MAX_DECOMPRESSED_SIZE + 1): one byte more than is allowed, if there is.
Decompressed(b) == IF b.plain > MaxDecompressed THEN MaxDecompressed + 1 ELSE b.plain

Inflates(b) == EnableGzip /\ b.gzip /\ b.wire > 0

\* GZipRequestMiddleware.
GzipCheck(b) ==
  CASE Inflates(b) /\ b.corrupt -> 400
    [] Inflates(b) /\ Decompressed(b) > MaxDecompressed -> 413
    [] OTHER -> 200

Reaches(b) == SizeCheck(b) = 200 /\ GzipCheck(b) = 200

\* The bytes that the route reads.
Seen(b) == IF Inflates(b) THEN Decompressed(b) ELSE b.wire
=============================================================================
