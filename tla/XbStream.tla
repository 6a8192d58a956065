------------------------------ MODULE XbStream ------------------------------
(***************************************************************************)
(* sonicprobe.libs.xbstream.XBStreamRead: copies an archive from a read to *)
(* a write callback, chunk by chunk, both of which may take fewer bytes    *)
(* than they are given.                                                    *)
(*                                                                         *)
(* The archive is a sequence of chunks of which only the first `available` *)
(* bytes can be read.  Bytes are counted; what the reader finds at an      *)
(* offset is a header if a chunk begins there.                             *)
(* Operators marked "Variant" are not part of the model: each is a defect  *)
(* that a property is shown to detect.                                     *)
(***************************************************************************)
EXTENDS Integers, Sequences, FiniteSets

CONSTANTS
  Archives,    \* sequences of chunks [name, path_len, type, payload_size]
  HeaderLen, LengthsLen, ChecksumLen    \* 14, 16 and 4 bytes in the code

VARIABLES
  chunks, available,
  result,        \* "streaming" (the loop of the caller goes on), or how it ended
  start,         \* offset of the chunk in hand
  filled_size, tx_size, chunk_size,
  header,        \* the chunk whose header was verified, or NoHeader
  tx_started, chunk_tx,
  counts         \* FILE_CHUNK_COUNT

object == <<start, filled_size, tx_size, chunk_size, header, tx_started, chunk_tx>>
vars   == <<chunks, available, result, object, counts>>

NoHeader == [name |-> "", path_len |-> 0, type |-> "", payload_size |-> 0]

\* Layout of an archive: a chunk of type "E" ends after its path
Length(c) ==
  HeaderLen + c.path_len +
  (IF c.type = "E" THEN 0 ELSE LengthsLen + ChecksumLen + c.payload_size)

\* Where the first i chunks end, and where chunk i begins
End[i \in 0 .. Len(chunks)] == IF i = 0 THEN 0 ELSE End[i - 1] + Length(chunks[i])
Offset(i) == End[i - 1]

\* What the archives are made of.  A header is never empty.
Framed ==
  /\ HeaderLen \in Nat \ {0} /\ LengthsLen \in Nat /\ ChecksumLen \in Nat
  /\ Archives \subseteq
       Seq([name : STRING, path_len : Nat, type : STRING, payload_size : Nat])

Init ==
  /\ chunks \in Archives
  /\ available \in 0 .. Offset(Len(chunks) + 1)
  /\ result = "streaming"
  /\ start = 0 /\ filled_size = 0 /\ tx_size = 0 /\ chunk_size = HeaderLen
  /\ header = NoHeader
  /\ tx_started = FALSE /\ chunk_tx = FALSE
  /\ counts = [name \in {chunks[i].name : i \in DOMAIN chunks} |-> 0]

-----------------------------------------------------------------------------

\* What buffer_updated() makes of a buffer of `filled` bytes
VerifiedAt(filled) ==
  IF header = NoHeader /\ filled >= HeaderLen
  THEN chunks[CHOOSE i \in DOMAIN chunks : Offset(i) = start]
  ELSE header

\* Variant: the checksum is not counted as part of the chunk
SizeWithoutChecksum(h, filled) ==
  IF h = NoHeader THEN HeaderLen
  ELSE HeaderLen + h.path_len +
       (IF h.type = "E" THEN 0
        ELSE LengthsLen + IF filled >= HeaderLen + h.path_len + LengthsLen
                          THEN h.payload_size ELSE 0)

\* The length of the payload is known once its field has been read
SizeAt(h, filled) ==
  IF h = NoHeader THEN HeaderLen
  ELSE HeaderLen + h.path_len +
       (IF h.type = "E" THEN 0
        ELSE LengthsLen + IF filled >= HeaderLen + h.path_len + LengthsLen
                          THEN ChecksumLen + h.payload_size ELSE 0)

\* `if chunk_tx: xb_obj.__init__()`, at the top of __call__()
Fresh ==
  /\ chunk_tx
  /\ start' = start + filled_size
  /\ filled_size' = 0 /\ tx_size' = 0 /\ chunk_size' = HeaderLen
  /\ header' = NoHeader
  /\ tx_started' = FALSE /\ chunk_tx' = FALSE
  /\ UNCHANGED <<chunks, available, result, counts>>

\* read() returns n bytes of those asked for, and buffer_updated() looks at them:
\* a chunk that does not begin with the magic or is of another type is refused
Read(n) ==
  /\ result = "streaming" /\ ~chunk_tx /\ ~tx_started
  /\ n <= chunk_size - filled_size /\ start + filled_size + n <= available
  /\ LET filled == filled_size + n IN
       IF /\ header = NoHeader /\ filled >= HeaderLen
          /\ \A i \in DOMAIN chunks : Offset(i) = start => chunks[i].type \notin {"P", "E"}
       THEN result' = "refused" /\ UNCHANGED <<object, counts>>
       ELSE LET h == VerifiedAt(filled) size == SizeAt(h, filled) IN
            /\ filled_size' = filled /\ chunk_size' = size /\ header' = h
            /\ tx_started' = (filled = size)
            /\ counts' = IF filled = size THEN [counts EXCEPT ![h.name] = @ + 1] ELSE counts
            /\ UNCHANGED <<result, start, tx_size, chunk_tx>>
  /\ UNCHANGED <<chunks, available>>

ReadNothing ==
  /\ result = "streaming" /\ ~chunk_tx /\ ~tx_started
  /\ start + filled_size = available
  /\ result' = IF filled_size > 0 THEN "truncated" ELSE "ended"
  /\ UNCHANGED <<chunks, available, object, counts>>

\* Variant: what write() did not take is not written
WriteOnce(n) ==
  /\ result = "streaming" /\ tx_started /\ ~chunk_tx
  /\ n \in 1 .. chunk_size - tx_size
  /\ tx_size' = tx_size + n /\ chunk_tx' = TRUE
  /\ UNCHANGED <<chunks, available, result, start, filled_size, chunk_size, header,
                 tx_started, counts>>

\* tx() or write() takes n bytes, or claims a number that cannot be
Write(n) ==
  /\ result = "streaming" /\ tx_started /\ ~chunk_tx
  /\ IF n \in 1 .. chunk_size - tx_size
     THEN tx_size' = tx_size + n /\ chunk_tx' = (tx_size' = chunk_size) /\ UNCHANGED result
     ELSE result' = "write failed" /\ UNCHANGED <<tx_size, chunk_tx>>
  /\ UNCHANGED <<chunks, available, start, filled_size, chunk_size, header,
                 tx_started, counts>>

Progress == 0 .. Offset(Len(chunks) + 1)

Next == Fresh \/ ReadNothing \/ \E n \in Progress : (n > 0 /\ Read(n)) \/ Write(n)

Spec == Init /\ [][Next]_vars

-----------------------------------------------------------------------------
(* Properties.                                                             *)

Boundaries == {Offset(i) : i \in 1 .. Len(chunks) + 1}

\* However reads and writes are cut, chunks are copied whole and in order: the reader
\* stays in step with the archive, ends only where a chunk does, reports an archive
\* that is cut anywhere else, and never writes a byte of a chunk it has not whole.
CopiedInStep ==
  /\ start \in Boundaries
  /\ result = "ended" => available \in Boundaries /\ start = available
  /\ result = "truncated" => available \notin Boundaries /\ tx_size = 0
  /\ result = "refused" => \E i \in DOMAIN chunks :
                             Offset(i) = start /\ chunks[i].type \notin {"P", "E"}
  /\ tx_size > 0 => start + chunk_size \in Boundaries /\ start + chunk_size <= available
  /\ chunk_tx => tx_size = chunk_size

\* The chunks of a file that were handed to the callback
Handed(name) ==
  {i \in DOMAIN chunks : /\ chunks[i].name = name
                         /\ Offset(i) < start \/ (Offset(i) = start /\ tx_started)}

\* Every chunk handed to the callback is counted once, under the name of its file.
ChunksCounted == \A name \in DOMAIN counts : counts[name] = Cardinality(Handed(name))
=============================================================================
