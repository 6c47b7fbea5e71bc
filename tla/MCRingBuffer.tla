--------------------------- MODULE MCRingBuffer ----------------------------
(* Model values and bounds for checking RingBuffer with TLC. *)
EXTENDS RingBuffer

\* A requested size of 3 rounds up to 4: three usable slots, and five items
\* make head and tail wrap past the end of the array.
MCRequestedSize == 3
MCWidth == 4
=============================================================================
