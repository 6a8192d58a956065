-------------------------- MODULE LibraryMachines --------------------------
(***************************************************************************)
(* The two small machines of the library, file_w_tmp() and the reader of   *)
(* xbstream, and some of its functions, side by side.                      *)
(***************************************************************************)
EXTENDS AtomicFile

CONSTANTS
  Archives, HeaderLen, LengthsLen, ChecksumLen,     \* XbStream
  None, Fate,                                       \* ArgPolicy
  Variables, Blank,                                 \* Helpers
  Escape, Ipv4, Ipv6, Ipvf                          \* UriSup

VARIABLES
  input,      \* what a function is applied to, by the name of its component
  chunks, available, result, start, filled_size, tx_size, chunk_size, header, tx_started,
  chunk_tx, counts

Stream == INSTANCE XbStream
Args == INSTANCE ArgPolicy
Lib == INSTANCE Helpers
Uris == INSTANCE UriSup

ASSUME StreamAssumption == Stream!Framed
ASSUME UriAssumption == Uris!Escapable

streamVars == <<chunks, available, result, start, filled_size, tx_size, chunk_size, header,
                tx_started, chunk_tx, counts>>

\* Chunks are copied whole, in order, each counted once, however reads and writes are cut.
CopiedInStep == Stream!CopiedInStep /\ Stream!ChunksCounted

\* Policies accept the arguments and the environments that their entries describe, and no
\* other, however options, values, "--" and repetitions are interleaved.
PoliciesExact ==
  /\ input.op = "args" => Args!ArgsAsDescribed(input.args, input.allow, input.disallow)
  /\ input.op = "env" => Args!EnvAsDescribed(input.env, input.allow, input.disallow)

\* Whatever is in the parts of a tree, its URI has the same parts; and so again.
UrisExact ==
  /\ input.op = "uri" => Uris!UriComesBack(input.uri)
  /\ input.op = "tree" => Uris!TreeComesBack(input.tree, input.host)

\* Substitution goes piece by piece, and base 64 does not depend on how a stream is cut.
HelpersExact ==
  /\ input.op = "line" => Lib!SubstByPieces(input.pieces)
  /\ input.op = "base64" => Lib!Base64Whole(input.bytes, input.size, input.reads)
=============================================================================
