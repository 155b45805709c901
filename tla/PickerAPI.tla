------------------------------ MODULE PickerAPI -------------------------------
(***************************************************************************)
(* What the service decides by looking at a value: where a picker session  *)
(* is, which downloads reach the sink, which request bodies reach a row.   *)
(* A value is what these decisions look at: an item has its bytes on the   *)
(* wire and the pixels of its header (0 if no decoder reads it), a body    *)
(* its bytes, its keys and whether it parses.                              *)
(***************************************************************************)
EXTENDS Integers

CONSTANTS
  DownloadCap, MaxDecodedBytes,       \* Config
  MaxMetadataBytes, MaxMetadataKeys,  \* HandlersConfig
  MaxInt64

\* The widths matter: each cap is read one past itself.
ASSUME CapAssumption ==
  /\ MaxInt64 \in Nat
  /\ DownloadCap \in 1..(MaxInt64 - 1)
  /\ MaxMetadataBytes \in 1..(MaxInt64 - 1)
  /\ MaxDecodedBytes \in Int
  /\ MaxMetadataKeys \in Nat

Item == [bytes : Nat, pixels : Nat]
Body == {b \in [bytes : Nat, keys : Nat, parses : BOOLEAN] : b.bytes = 0 => b.keys = 0}

\* Variants: the deadline is looked at first, or never.
sessionPhaseDeadlineFirst(s) ==
  IF s.expireTime = "past" THEN "expired"
  ELSE IF s.mediaItemsSet THEN "ready" ELSE "pending"
sessionPhaseNoDeadline(s) == IF s.mediaItemsSet THEN "ready" ELSE "pending"

\* expireTime is "past", "future" or, absent or not a time, "none".
sessionPhase(s) ==
  CASE s.mediaItemsSet -> "ready"
    [] ~s.mediaItemsSet /\ s.expireTime = "past" -> "expired"
    [] OTHER -> "pending"

\* Variant: exactly the cap is read.
OneMoreForgotten(cap) == cap

\* cap + 1 in an int64.
OneMore(cap) == IF cap = MaxInt64 THEN -MaxInt64 - 1 ELSE cap + 1

\* io.ReadAll(io.LimitReader(r, limit)) of n bytes.
ReadUpTo(limit, n) == IF limit <= 0 THEN 0 ELSE IF n <= limit THEN n ELSE limit

\* downloadMediaItem: the bytes that arrive, whether they make a photo, and its
\* Size.
Arrived(i) == ReadUpTo(OneMore(DownloadCap), i.bytes)
Downloads(i) ==
  /\ Arrived(i) <= DownloadCap
  /\ MaxDecodedBytes > 0 => 4 * i.pixels <= MaxDecodedBytes

\* decodeStartImportMetadata: an empty body is none; others have to parse.
Decodes(b) ==
  LET n == ReadUpTo(OneMore(MaxMetadataBytes), b.bytes) IN
  \/ n = 0
  \/ n <= MaxMetadataBytes /\ b.parses /\ b.keys <= MaxMetadataKeys
===============================================================================
