---------------------------- MODULE LibraryProofs ----------------------------
(***************************************************************************)
(* Proofs about the two machines of the library: XbStream, for archives of *)
(* any number of chunks, of any sizes, cut anywhere, and AtomicFile, for   *)
(* any number of calls and of lines; and about its functions: ArgPolicy,   *)
(* for every policy and any arguments, Helpers, for every line and stream, *)
(* and UriSup, for every tree and URI.                                     *)
(***************************************************************************)
EXTENDS LibraryMachines, Sequences, FiniteSetTheorems, SequenceTheorems, WellFoundedInduction, TLAPS

-----------------------------------------------------------------------------
(* Induction, from the least element of a set of numbers.                  *)

LEMMA Least ==
  ASSUME NEW T \in SUBSET Nat, T # {}
  PROVE  \E m \in T : \A k \in T : ~(k < m)
<1> DEFINE R == OpToRel(<, Nat)
<1>1. IsWellFoundedOn(R, Nat)
  BY NatLessThanWellFounded
<1>2. \A x, y \in Nat : x < y => <<x, y>> \in R
  BY DEF OpToRel
<1> HIDE DEF R
<1>3. \E m \in T : \A k \in T : ~(<<k, m>> \in R)
  BY <1>1, WFMin
<1> QED BY <1>2, <1>3

LEMMA Induction ==
  ASSUME NEW S, 0 \in S, \A n \in Nat : n \in S => n + 1 \in S
  PROVE  Nat \subseteq S
<1> DEFINE T == Nat \ S
<1> SUFFICES ASSUME T # {} PROVE FALSE
  OBVIOUS
<1>1. PICK m \in T : \A k \in T : ~(k < m)
  BY Least
<1>2. m - 1 \in Nat /\ m - 1 \in S
  BY <1>1
<1> QED BY <1>1, <1>2

\* f is what N rounds of a loop make of b
Loops(f, b, T, S, N) ==
  /\ f \in [0 .. N -> S]
  /\ \A k \in 0 .. N : f[k] = IF k = 0 THEN b ELSE T[<<f[k - 1], k>>]

\* A loop whose rounds stay in a set is a function
LEMMA Iterates ==
  ASSUME NEW S, NEW N \in Nat, NEW b \in S, NEW T \in [S \X (1 .. N) -> S]
  PROVE  \E f : Loops(f, b, T, S, N)
<1> DEFINE Loop(f, m) ==
             /\ f \in [0 .. m -> S]
             /\ \A k \in 0 .. m : f[k] = IF k = 0 THEN b ELSE T[<<f[k - 1], k>>]
           I == {m \in Nat : m <= N => \E f : Loop(f, m)}
<1>1. 0 \in I
  <2>1. Loop([k \in 0 .. 0 |-> b], 0)
    OBVIOUS
  <2> QED BY <2>1
<1>2. ASSUME NEW m \in Nat, m \in I PROVE m + 1 \in I
  <2> SUFFICES ASSUME m + 1 <= N PROVE \E f : Loop(f, m + 1)
    OBVIOUS
  <2>1. PICK f : Loop(f, m)
    BY <1>2
  <2>2. T[<<f[m], m + 1>>] \in S
    <3>1. f[m] \in S /\ m + 1 \in 1 .. N
      BY <2>1
    <3> QED BY <3>1
  <2> DEFINE g == [k \in 0 .. m + 1 |-> IF k <= m THEN f[k] ELSE T[<<f[m], m + 1>>]]
  <2>3. g \in [0 .. m + 1 -> S]
    <3> SUFFICES ASSUME NEW k \in 0 .. m + 1 PROVE g[k] \in S
      OBVIOUS
    <3>1. CASE k <= m
      BY <2>1, <3>1
    <3>2. CASE ~(k <= m)
      BY <2>2, <3>2
    <3> QED BY <3>1, <3>2
  <2>4. \A k \in 0 .. m + 1 : g[k] = IF k = 0 THEN b ELSE T[<<g[k - 1], k>>]
    <3> SUFFICES ASSUME NEW k \in 0 .. m + 1
                 PROVE  g[k] = IF k = 0 THEN b ELSE T[<<g[k - 1], k>>]
      OBVIOUS
    <3>1. CASE k = m + 1
      BY <3>1
    <3>2. CASE k <= m
      <4>1. g[k] = f[k] /\ (k # 0 => g[k - 1] = f[k - 1])
        BY <3>2
      <4>2. f[k] = IF k = 0 THEN b ELSE T[<<f[k - 1], k>>]
        BY <2>1, <3>2
      <4> HIDE DEF g
      <4> QED BY <4>1, <4>2
    <3> QED BY <3>1, <3>2
  <2> QED BY <2>3, <2>4
<1>3. N \in I
  <2> HIDE DEF I
  <2> QED BY <1>1, <1>2, Induction
<1> QED BY <1>3 DEF Loops

\* A sum of natural numbers is a function
LEMMA SumExists ==
  ASSUME NEW N \in Nat, NEW a \in [1 .. N -> Nat]
  PROVE  \E f : f = [i \in 0 .. N |-> IF i = 0 THEN 0 ELSE f[i - 1] + a[i]]
<1> DEFINE Sum(f, m) == f = [i \in 0 .. m |-> IF i = 0 THEN 0 ELSE f[i - 1] + a[i]]
           S == {m \in Nat : m <= N => \E f : Sum(f, m)}
<1>1. 0 \in S
  <2>1. Sum([i \in 0 .. 0 |-> 0], 0)
    OBVIOUS
  <2> QED BY <2>1
<1>2. ASSUME NEW m \in Nat, m \in S PROVE m + 1 \in S
  <2> SUFFICES ASSUME m + 1 <= N PROVE \E f : Sum(f, m + 1)
    OBVIOUS
  <2>1. PICK f : Sum(f, m)
    BY <1>2
  <2> DEFINE g == [i \in 0 .. m + 1 |-> IF i <= m THEN f[i] ELSE f[m] + a[m + 1]]
  <2>2. \A i \in 0 .. m : f[i] = IF i = 0 THEN 0 ELSE f[i - 1] + a[i]
    BY <2>1
  <2>3. \A i \in 0 .. m + 1 : g[i] = IF i = 0 THEN 0 ELSE g[i - 1] + a[i]
    <3> SUFFICES ASSUME NEW i \in 0 .. m + 1 PROVE g[i] = IF i = 0 THEN 0 ELSE g[i - 1] + a[i]
      OBVIOUS
    <3>1. CASE i = m + 1
      BY <3>1
    <3>2. CASE i = 0
      BY <2>2, <3>2
    <3>3. CASE i \in 1 .. m
      BY <2>2, <3>3
    <3> QED BY <3>1, <3>2, <3>3
  <2>4. Sum(g, m + 1)
    BY <2>3
  <2> QED BY <2>4
<1>3. N \in S
  BY <1>1, <1>2, Induction
<1> QED BY <1>3

-----------------------------------------------------------------------------
(* The layout of an archive.                                               *)

Archived == Stream!Framed /\ chunks \in Archives

LEMMA ChunkTypes ==
  ASSUME Archived
  PROVE  /\ Len(chunks) \in Nat /\ DOMAIN chunks = 1 .. Len(chunks)
         /\ \A i \in DOMAIN chunks : /\ Stream!Length(chunks[i]) \in Nat \ {0}
                                     /\ chunks[i].path_len \in Nat
                                     /\ chunks[i].payload_size \in Nat
                                     /\ HeaderLen <= Stream!Length(chunks[i])
<1> DEFINE Chunk == [name : STRING, path_len : Nat, type : STRING, payload_size : Nat]
<1>1. chunks \in Seq(Chunk)
  BY DEF Archived, Stream!Framed
<1>2. Len(chunks) \in Nat /\ DOMAIN chunks = 1 .. Len(chunks)
  BY <1>1
<1>3. \A i \in DOMAIN chunks : chunks[i] \in Chunk
  <2> HIDE DEF Chunk
  <2> QED BY <1>1
<1>4. \A c \in Chunk : Stream!Length(c) \in Nat \ {0} /\ HeaderLen <= Stream!Length(c)
  BY DEF Archived, Stream!Framed, Stream!Length
<1> QED BY <1>2, <1>3, <1>4

LEMMA Ends ==
  ASSUME Archived
  PROVE  Stream!End = [i \in 0 .. Len(chunks) |->
                         IF i = 0 THEN 0 ELSE Stream!End[i - 1] + Stream!Length(chunks[i])]
<1> DEFINE N == Len(chunks)
           a == [i \in 1 .. N |-> Stream!Length(chunks[i])]
<1>1. N \in Nat /\ a \in [1 .. N -> Nat]
  BY ChunkTypes
<1>2. PICK f : f = [i \in 0 .. N |-> IF i = 0 THEN 0 ELSE f[i - 1] + a[i]]
  BY <1>1, SumExists
<1>3. \A i \in 1 .. N : a[i] = Stream!Length(chunks[i])
  OBVIOUS
<1> HIDE DEF a
<1>4. f = [i \in 0 .. N |-> IF i = 0 THEN 0 ELSE f[i - 1] + Stream!Length(chunks[i])]
  BY <1>1, <1>2, <1>3
<1> QED BY <1>4 DEF Stream!End

\* Chunks follow each other
LEMMA Layout ==
  ASSUME Archived
  PROVE  /\ Stream!Offset(1) = 0
         /\ \A i \in 1 .. Len(chunks) :
              Stream!Offset(i + 1) = Stream!Offset(i) + Stream!Length(chunks[i])
         /\ \A i \in 1 .. Len(chunks) + 1 : Stream!Offset(i) \in Nat
<1> DEFINE N == Len(chunks)
           S == {m \in Nat : m <= N => Stream!End[m] \in Nat}
<1>t. N \in Nat /\ \A i \in 1 .. N : Stream!Length(chunks[i]) \in Nat
  BY ChunkTypes
<1>1. \A i \in 0 .. N :
        Stream!End[i] = IF i = 0 THEN 0 ELSE Stream!End[i - 1] + Stream!Length(chunks[i])
  BY Ends
<1>2. 0 \in S
  BY <1>t, <1>1
<1>3. \A m \in Nat : m \in S => m + 1 \in S
  BY <1>t, <1>1
<1>4. \A m \in 0 .. N : Stream!End[m] \in Nat
  <2>1. Nat \subseteq S
    <3> HIDE DEF S
    <3> QED BY <1>2, <1>3, Induction
  <2> QED BY <1>t, <2>1
<1> HIDE DEF S
<1> QED BY <1>t, <1>1, <1>4 DEF Stream!Offset

\* A chunk ends before any later one begins
LEMMA InRow ==
  ASSUME Archived, NEW i \in 1 .. Len(chunks), NEW j \in 1 .. Len(chunks) + 1, i < j
  PROVE  Stream!Offset(i) + Stream!Length(chunks[i]) <= Stream!Offset(j)
<1> DEFINE N == Len(chunks)
           S == {m \in Nat : i + 1 + m <= N + 1 => Stream!Offset(i + 1) <= Stream!Offset(i + 1 + m)}
<1>1. N \in Nat /\ i + 1 \in 1 .. N + 1
  BY ChunkTypes
<1>2. 0 \in S
  BY <1>1, Layout
<1>3. ASSUME NEW m \in Nat, m \in S PROVE m + 1 \in S
  <2> SUFFICES ASSUME i + 1 + (m + 1) <= N + 1
               PROVE  Stream!Offset(i + 1) <= Stream!Offset(i + 1 + (m + 1))
    OBVIOUS
  <2> DEFINE k == i + 1 + m
  <2>1. k \in 1 .. N /\ k + 1 \in 1 .. N + 1 /\ k + 1 = i + 1 + (m + 1)
    BY <1>1
  <2>2. Stream!Offset(i + 1) <= Stream!Offset(k)
    BY <1>1, <1>3, <2>1
  <2>3. /\ Stream!Offset(k + 1) = Stream!Offset(k) + Stream!Length(chunks[k])
        /\ Stream!Length(chunks[k]) \in Nat
    BY <2>1, Layout, ChunkTypes
  <2>4. Stream!Offset(i + 1) \in Nat /\ Stream!Offset(k) \in Nat /\ Stream!Offset(k + 1) \in Nat
    BY <1>1, <2>1, Layout
  <2>5. Stream!Offset(i + 1) <= Stream!Offset(k + 1)
    BY <2>2, <2>3, <2>4
  <2> QED BY <2>1, <2>5
<1>4. j - (i + 1) \in S
  <2>1. j - (i + 1) \in Nat
    BY <1>1
  <2> HIDE DEF S
  <2> QED BY <1>2, <1>3, <2>1, Induction
<1>5. Stream!Offset(i + 1) <= Stream!Offset(j)
  <2>1. i + 1 + (j - (i + 1)) = j
    BY <1>1
  <2> QED BY <1>1, <1>4, <2>1
<1> QED BY <1>5, Layout

\* so that an offset is that of one chunk, in the order of the chunks
LEMMA Ordered ==
  ASSUME Archived, NEW i \in 1 .. Len(chunks) + 1, NEW j \in 1 .. Len(chunks) + 1
  PROVE  Stream!Offset(i) < Stream!Offset(j) <=> i < j
<1>1. Len(chunks) \in Nat /\ \A k \in 1 .. Len(chunks) : Stream!Length(chunks[k]) \in Nat \ {0}
  BY ChunkTypes
<1>2. Stream!Offset(i) \in Nat /\ Stream!Offset(j) \in Nat
  BY Layout
<1>3. CASE i < j
  <2>1. i \in 1 .. Len(chunks)
    BY <1>1, <1>3
  <2>2. Stream!Offset(i) + Stream!Length(chunks[i]) <= Stream!Offset(j)
    BY <1>3, <2>1, InRow
  <2> QED BY <1>1, <1>2, <1>3, <2>1, <2>2
<1>4. CASE i = j
  BY <1>2, <1>4
<1>5. CASE j < i
  <2>1. j \in 1 .. Len(chunks)
    BY <1>1, <1>5
  <2>2. Stream!Offset(j) + Stream!Length(chunks[j]) <= Stream!Offset(i)
    BY <1>5, <2>1, InRow
  <2> QED BY <1>1, <1>2, <1>5, <2>1, <2>2
<1> QED BY <1>1, <1>3, <1>4, <1>5

-----------------------------------------------------------------------------
(* The reader is in one chunk, of which it has not read past what it knows *)
(* the size of, and writes it when it has all of it.                       *)

StreamTypes ==
  /\ result \in {"streaming", "ended", "truncated", "refused", "write failed"}
  /\ available \in 0 .. Stream!Offset(Len(chunks) + 1)
  /\ start \in Nat /\ filled_size \in Nat /\ tx_size \in Nat /\ chunk_size \in Nat
  /\ tx_started \in BOOLEAN /\ chunk_tx \in BOOLEAN
  /\ counts \in [{chunks[i].name : i \in DOMAIN chunks} -> Nat]

InChunk(i) ==
  /\ start = Stream!Offset(i) /\ start + filled_size <= available
  /\ header = Stream!NoHeader => filled_size < HeaderLen /\ chunk_size = HeaderLen
  /\ header # Stream!NoHeader =>
       /\ i \in DOMAIN chunks /\ header = chunks[i] /\ header.type \in {"P", "E"}
       /\ HeaderLen <= filled_size /\ chunk_size = Stream!SizeAt(header, filled_size)
  /\ filled_size <= chunk_size /\ (tx_started <=> filled_size = chunk_size)

Copying ==
  /\ ~tx_started => tx_size = 0
  /\ tx_size <= chunk_size /\ (chunk_tx <=> tx_started /\ tx_size = chunk_size)
  /\ result # "streaming" => ~chunk_tx

Ended ==
  /\ result = "ended" => available \in Stream!Boundaries /\ start = available
  /\ result = "truncated" => available \notin Stream!Boundaries /\ tx_size = 0
  /\ result = "refused" => \E i \in DOMAIN chunks :
                             Stream!Offset(i) = start /\ chunks[i].type \notin {"P", "E"}

StreamIInv ==
  /\ chunks \in Archives /\ StreamTypes
  /\ \E i \in 1 .. Len(chunks) + 1 : InChunk(i)
  /\ Copying /\ Ended /\ Stream!ChunksCounted

\* A chunk is as long as it says once its sizes are read, and no longer before
LEMMA Sizes ==
  ASSUME Stream!Framed, NEW c, c.path_len \in Nat, c.payload_size \in Nat, c.type \in {"P", "E"},
         NEW f \in Nat, HeaderLen <= f
  PROVE  /\ c # Stream!NoHeader
         /\ Stream!SizeAt(c, f) \in Nat /\ HeaderLen <= Stream!SizeAt(c, f)
         /\ Stream!SizeAt(c, f) <= Stream!Length(c)
         /\ f = Stream!SizeAt(c, f) => f = Stream!Length(c)
         /\ \A g \in Nat : f <= g => Stream!SizeAt(c, f) <= Stream!SizeAt(c, g)
<1>1. c # Stream!NoHeader
  <2>1. Stream!NoHeader.type = ""
    BY DEF Stream!NoHeader
  <2> QED BY <2>1
<1>2. CASE c.type = "E"
  BY <1>1, <1>2 DEF Stream!Framed, Stream!SizeAt, Stream!Length
<1>3. CASE c.type = "P"
  <2> DEFINE part == HeaderLen + c.path_len + LengthsLen
             all  == part + ChecksumLen + c.payload_size
  <2>f. HeaderLen \in Nat /\ LengthsLen \in Nat /\ ChecksumLen \in Nat
    BY DEF Stream!Framed
  <2>1. /\ HeaderLen \in Nat /\ part \in Nat /\ all \in Nat
        /\ HeaderLen <= part /\ part <= all
    BY <2>f
  <2>2. Stream!Length(c) = all
    BY <1>3 DEF Stream!Framed, Stream!Length
  <2>3. \A g \in Nat : Stream!SizeAt(c, g) = IF g >= part THEN all ELSE part
    BY <1>1, <1>3 DEF Stream!Framed, Stream!SizeAt
  <2> HIDE DEF part, all
  <2> QED BY <1>1, <2>1, <2>2, <2>3
<1> QED BY <1>1, <1>2, <1>3

\* What a reader in chunk i knows of the chunk
LEMMA InHand ==
  ASSUME StreamIInv, Stream!Framed, NEW i \in 1 .. Len(chunks) + 1, InChunk(i)
  PROVE  /\ header # Stream!NoHeader =>
              /\ i \in DOMAIN chunks /\ chunk_size <= Stream!Length(chunks[i])
              /\ HeaderLen <= chunk_size
         /\ tx_started => /\ header # Stream!NoHeader /\ i + 1 \in 1 .. Len(chunks) + 1
                          /\ chunk_size = Stream!Length(chunks[i])
                          /\ start + chunk_size = Stream!Offset(i + 1)
         /\ filled_size > 0 => i \in DOMAIN chunks /\ chunk_size <= Stream!Length(chunks[i])
<1>a. Archived
  BY DEF StreamIInv, Archived
<1>t. /\ Len(chunks) \in Nat /\ DOMAIN chunks = 1 .. Len(chunks)
      /\ HeaderLen \in Nat \ {0} /\ filled_size \in Nat /\ chunk_size \in Nat
      /\ tx_started \in BOOLEAN /\ start \in Nat
      /\ available \in 0 .. Stream!Offset(Len(chunks) + 1)
  BY <1>a, ChunkTypes DEF StreamIInv, StreamTypes, Stream!Framed
<1>1. ASSUME header # Stream!NoHeader
      PROVE  /\ i \in DOMAIN chunks /\ chunk_size <= Stream!Length(chunks[i])
             /\ HeaderLen <= chunk_size
             /\ filled_size = chunk_size => chunk_size = Stream!Length(chunks[i])
  <2>1. /\ i \in DOMAIN chunks /\ header = chunks[i] /\ header.type \in {"P", "E"}
        /\ HeaderLen <= filled_size /\ chunk_size = Stream!SizeAt(header, filled_size)
    BY <1>1 DEF InChunk
  <2>2. header.path_len \in Nat /\ header.payload_size \in Nat
    BY <1>a, <2>1, ChunkTypes
  <2> QED BY <1>t, <2>1, <2>2, Sizes
<1>2. ASSUME tx_started
      PROVE  /\ header # Stream!NoHeader /\ i + 1 \in 1 .. Len(chunks) + 1
             /\ chunk_size = Stream!Length(chunks[i])
             /\ start + chunk_size = Stream!Offset(i + 1)
  <2>1. filled_size = chunk_size /\ start = Stream!Offset(i) /\ header # Stream!NoHeader
    BY <1>2, <1>t DEF InChunk
  <2>2. i \in 1 .. Len(chunks) /\ chunk_size = Stream!Length(chunks[i])
    BY <1>1, <1>t, <2>1
  <2>3. Stream!Offset(i + 1) = Stream!Offset(i) + Stream!Length(chunks[i])
    BY <1>a, <2>2, Layout
  <2> QED BY <1>t, <2>1, <2>2, <2>3
<1>3. ASSUME filled_size > 0
      PROVE  i \in DOMAIN chunks /\ chunk_size <= Stream!Length(chunks[i])
  <2>1. CASE header # Stream!NoHeader
    BY <1>1, <2>1
  <2>2. CASE header = Stream!NoHeader
    <3>1. chunk_size = HeaderLen /\ start = Stream!Offset(i) /\ start + filled_size <= available
      BY <2>2 DEF InChunk
    <3>2. Stream!Offset(i) \in Nat /\ Stream!Offset(Len(chunks) + 1) \in Nat
      BY <1>a, <1>t, Layout
    <3>3. Stream!Offset(i) < Stream!Offset(Len(chunks) + 1)
      BY <1>t, <1>3, <3>1, <3>2
    <3>4. i \in DOMAIN chunks
      BY <1>a, <1>t, <3>3, Ordered
    <3>5. HeaderLen <= Stream!Length(chunks[i])
      BY <1>a, <3>4, ChunkTypes
    <3> QED BY <3>1, <3>4, <3>5
  <2> QED BY <2>1, <2>2
<1> QED BY <1>1, <1>2, <1>3

\* Offsets are those of the archive, which nothing changes
LEMMA SameArchive ==
  ASSUME UNCHANGED chunks
  PROVE  /\ \A i : Stream!Offset(i)' = Stream!Offset(i)
         /\ Stream!Boundaries' = Stream!Boundaries
BY DEF Stream!Offset, Stream!End, Stream!Boundaries

\* The instance has operators of FiniteSets of its own
LEMMA StreamCardinality == ASSUME NEW S PROVE Stream!Cardinality(S) = Cardinality(S)
BY DEF Stream!Cardinality, Cardinality

LEMMA SameHanded ==
  ASSUME UNCHANGED <<chunks, counts>>, Stream!ChunksCounted,
         \A j \in DOMAIN chunks :
           Stream!Offset(j)' < start' \/ (Stream!Offset(j)' = start' /\ tx_started')
           <=> Stream!Offset(j) < start \/ (Stream!Offset(j) = start /\ tx_started)
  PROVE  Stream!ChunksCounted'
<1>1. ASSUME NEW file PROVE Stream!Handed(file)' = Stream!Handed(file)
  BY DEF Stream!Handed
<1> QED BY <1>1 DEF Stream!ChunksCounted

LEMMA StreamBegins == Stream!Framed /\ Stream!Init => StreamIInv
<1> SUFFICES ASSUME Stream!Framed, Stream!Init PROVE StreamIInv
  OBVIOUS
<1>a. Archived
  BY DEF Stream!Init, Archived
<1>t. /\ Len(chunks) \in Nat /\ DOMAIN chunks = 1 .. Len(chunks)
      /\ HeaderLen \in Nat \ {0}
  BY <1>a, ChunkTypes DEF Stream!Framed
<1>l. Stream!Offset(1) = 0 /\ \A i \in 1 .. Len(chunks) + 1 : Stream!Offset(i) \in Nat
  BY <1>a, Layout
<1>1. StreamTypes
  BY <1>t, <1>l DEF Stream!Init, StreamTypes
<1>2. 1 \in 1 .. Len(chunks) + 1 /\ InChunk(1)
  BY <1>t, <1>l DEF Stream!Init, InChunk
<1>3. Copying /\ Ended
  BY <1>t DEF Stream!Init, Copying, Ended
<1>4. Stream!ChunksCounted
  <2> SUFFICES ASSUME NEW file \in DOMAIN counts
               PROVE  counts[file] = Cardinality(Stream!Handed(file))
    BY StreamCardinality DEF Stream!ChunksCounted
  <2>1. \A i \in DOMAIN chunks :
          ~(Stream!Offset(i) < start \/ (Stream!Offset(i) = start /\ tx_started))
    BY <1>t, <1>l DEF Stream!Init
  <2>2. Stream!Handed(file) = {}
    BY <2>1 DEF Stream!Handed
  <2>3. counts[file] = 0
    BY DEF Stream!Init
  <2> QED BY <2>2, <2>3, FS_EmptySet
<1> QED BY <1>1, <1>2, <1>3, <1>4 DEF StreamIInv, Stream!Init

\* A step that leaves the object alone ends the copy
LEMMA NothingInStep ==
  ASSUME StreamIInv, Stream!Framed, Stream!ReadNothing
  PROVE  StreamIInv'
<1>a. Archived
  BY DEF StreamIInv, Archived
<1>0. /\ chunks' = chunks /\ available' = available /\ counts' = counts
      /\ start' = start /\ filled_size' = filled_size /\ tx_size' = tx_size
      /\ chunk_size' = chunk_size /\ header' = header
      /\ tx_started' = tx_started /\ chunk_tx' = chunk_tx
  BY DEF Stream!ReadNothing, Stream!object
<1>s. (\A i : Stream!Offset(i)' = Stream!Offset(i)) /\ Stream!Boundaries' = Stream!Boundaries
  BY <1>0, SameArchive
<1>r. /\ ~chunk_tx /\ ~tx_started /\ start + filled_size = available
      /\ result' = IF filled_size > 0 THEN "truncated" ELSE "ended"
  BY DEF Stream!ReadNothing
<1>t. StreamTypes /\ Copying /\ Stream!ChunksCounted
  BY DEF StreamIInv
<1>1. PICK i \in 1 .. Len(chunks) + 1 : InChunk(i)
  BY DEF StreamIInv
<1>n. /\ start \in Nat /\ filled_size \in Nat /\ chunk_size \in Nat /\ Stream!Offset(i) \in Nat
      /\ Len(chunks) \in Nat /\ DOMAIN chunks = 1 .. Len(chunks)
  BY <1>a, <1>t, Layout, ChunkTypes DEF StreamTypes
<1>2. StreamTypes'
  BY <1>0, <1>s, <1>r, <1>t DEF StreamTypes
<1>3. InChunk(i)'
  BY <1>0, <1>s, <1>1 DEF InChunk, Stream!SizeAt
<1>4. Copying'
  BY <1>0, <1>r, <1>t DEF Copying
<1>5. Stream!ChunksCounted'
  BY <1>0, <1>s, <1>t, SameHanded
<1>6. start \in Stream!Boundaries
  BY <1>1 DEF Stream!Boundaries, InChunk
<1>7. filled_size > 0 => available \notin Stream!Boundaries
  <2> SUFFICES ASSUME filled_size > 0, NEW j \in 1 .. Len(chunks) + 1, available = Stream!Offset(j)
               PROVE  FALSE
    BY DEF Stream!Boundaries
  <2>1. i \in DOMAIN chunks /\ chunk_size <= Stream!Length(chunks[i]) /\ start = Stream!Offset(i)
    BY <1>1, InHand DEF InChunk
  <2>2. filled_size < chunk_size
    BY <1>1, <1>r, <1>n DEF InChunk
  <2>3. i < j
    BY <1>a, <1>r, <1>n, <2>1, Ordered
  <2>4. Stream!Offset(i) + Stream!Length(chunks[i]) <= Stream!Offset(j)
    BY <1>a, <1>n, <2>1, <2>3, InRow
  <2>5. Stream!Length(chunks[i]) \in Nat
    BY <1>a, <2>1, ChunkTypes
  <2> QED BY <1>n, <1>r, <2>1, <2>2, <2>4, <2>5
<1>8. filled_size \notin {0} => filled_size > 0
  BY <1>n
<1>9. Ended'
  <2>1. tx_size = 0
    BY <1>r, <1>t DEF Copying
  <2>2. CASE filled_size > 0
    BY <1>0, <1>s, <1>r, <1>7, <2>1, <2>2 DEF Ended
  <2>3. CASE ~(filled_size > 0)
    <3>1. start = available
      BY <1>n, <1>r, <2>3
    <3> QED BY <1>0, <1>s, <1>r, <1>6, <2>3, <3>1 DEF Ended
  <2> QED BY <2>2, <2>3
<1>c. chunks' \in Archives
  BY <1>0 DEF StreamIInv
<1>i. \E j \in 1 .. Len(chunks') + 1 : InChunk(j)'
  BY <1>0, <1>3
<1> QED BY <1>c, <1>i, <1>2, <1>4, <1>5, <1>9 DEF StreamIInv

\* The object is made anew where the next chunk begins
LEMMA FreshInStep ==
  ASSUME StreamIInv, Stream!Framed, Stream!Fresh
  PROVE  StreamIInv'
<1>a. Archived
  BY DEF StreamIInv, Archived
<1>0. /\ chunk_tx /\ chunks' = chunks /\ available' = available /\ counts' = counts
      /\ result' = result /\ start' = start + filled_size
      /\ filled_size' = 0 /\ tx_size' = 0 /\ chunk_size' = HeaderLen
      /\ header' = Stream!NoHeader /\ tx_started' = FALSE /\ chunk_tx' = FALSE
  BY DEF Stream!Fresh
<1>s. (\A i : Stream!Offset(i)' = Stream!Offset(i)) /\ Stream!Boundaries' = Stream!Boundaries
  BY <1>0, SameArchive
<1>t. StreamTypes /\ Copying /\ Ended /\ Stream!ChunksCounted
  BY DEF StreamIInv
<1>1. PICK i \in 1 .. Len(chunks) + 1 : InChunk(i)
  BY DEF StreamIInv
<1>2. /\ tx_started /\ tx_size = chunk_size /\ result = "streaming"
      /\ filled_size = chunk_size
  BY <1>0, <1>1, <1>t DEF Copying, InChunk, StreamTypes
<1>3. /\ i + 1 \in 1 .. Len(chunks) + 1 /\ start = Stream!Offset(i)
      /\ start + chunk_size = Stream!Offset(i + 1) /\ start + filled_size <= available
      /\ i \in DOMAIN chunks
  BY <1>1, <1>2, InHand DEF InChunk
<1>n. /\ start \in Nat /\ filled_size \in Nat /\ HeaderLen \in Nat \ {0}
      /\ Len(chunks) \in Nat /\ DOMAIN chunks = 1 .. Len(chunks)
  BY <1>a, <1>t, ChunkTypes DEF StreamTypes, Stream!Framed
<1>4. StreamTypes'
  <2>1. start' \in Nat
    BY <1>0, <1>n
  <2>2. filled_size' \in Nat /\ tx_size' \in Nat
    BY <1>0
  <2>3. chunk_size' \in Nat
    BY <1>0, <1>n
  <2>4. tx_started' \in BOOLEAN /\ chunk_tx' \in BOOLEAN
    BY <1>0
  <2>5. available' \in 0 .. Stream!Offset(Len(chunks) + 1)'
    BY <1>0, <1>s, <1>t DEF StreamTypes
  <2> QED BY <1>0, <1>t, <2>1, <2>2, <2>3, <2>4, <2>5 DEF StreamTypes
<1>5. \E j \in 1 .. Len(chunks') + 1 : InChunk(j)'
  <2>1. InChunk(i + 1)'
    BY <1>0, <1>s, <1>2, <1>3, <1>n DEF InChunk
  <2> QED BY <1>0, <1>3, <2>1
<1>6. Copying'
  BY <1>0, <1>2, <1>n DEF Copying
<1>7. Ended'
  BY <1>0, <1>2 DEF Ended
<1>8. Stream!ChunksCounted'
  <2>1. ASSUME NEW j \in DOMAIN chunks
        PROVE  (Stream!Offset(j) < start \/ (Stream!Offset(j) = start /\ tx_started))
               <=> (Stream!Offset(j)' < start' \/ (Stream!Offset(j)' = start' /\ tx_started'))
    <3>1. Stream!Offset(j) < Stream!Offset(i + 1) <=> j < i + 1
      BY <1>a, <1>3, <1>n, Ordered
    <3>2. Stream!Offset(j) < Stream!Offset(i) <=> j < i
      BY <1>a, <1>3, <1>n, Ordered
    <3>3. Stream!Offset(j) = Stream!Offset(i) <=> j = i
      <4>1. Stream!Offset(i) < Stream!Offset(j) <=> i < j
        BY <1>a, <1>3, <1>n, Ordered
      <4>2. Stream!Offset(i) \in Nat /\ Stream!Offset(j) \in Nat
        BY <1>a, <1>3, <1>n, Layout
      <4> QED BY <1>n, <3>2, <4>1, <4>2
    <3>4. Stream!Offset(j)' = Stream!Offset(j) /\ start' = Stream!Offset(i + 1)
      BY <1>0, <1>s, <1>2, <1>3
    <3> QED BY <1>0, <1>2, <1>3, <1>n, <3>1, <3>2, <3>3, <3>4
  <2> QED BY <1>0, <1>t, <2>1, SameHanded
<1>c. chunks' \in Archives
  BY <1>0 DEF StreamIInv
<1> QED BY <1>c, <1>4, <1>5, <1>6, <1>7, <1>8 DEF StreamIInv

LEMMA WriteInStep ==
  ASSUME StreamIInv, Stream!Framed, NEW n \in Nat, Stream!Write(n)
  PROVE  StreamIInv'
<1>a. Archived
  BY DEF StreamIInv, Archived
<1>0. /\ chunks' = chunks /\ available' = available /\ counts' = counts
      /\ start' = start /\ filled_size' = filled_size
      /\ chunk_size' = chunk_size /\ header' = header /\ tx_started' = tx_started
      /\ result = "streaming" /\ tx_started /\ ~chunk_tx
  BY DEF Stream!Write
<1>s. (\A i : Stream!Offset(i)' = Stream!Offset(i)) /\ Stream!Boundaries' = Stream!Boundaries
  BY <1>0, SameArchive
<1>t. StreamTypes /\ Copying /\ Ended /\ Stream!ChunksCounted
  BY DEF StreamIInv
<1>n. tx_size \in Nat /\ chunk_size \in Nat
  BY <1>t DEF StreamTypes
<1>1. \/ /\ tx_size' \in Nat /\ tx_size' <= chunk_size /\ result' = result
         /\ chunk_tx' \in BOOLEAN /\ (chunk_tx' <=> tx_size' = chunk_size)
      \/ tx_size' = tx_size /\ result' = "write failed" /\ chunk_tx' = chunk_tx
  <2>1. CASE n \in 1 .. chunk_size - tx_size
    <3>1. tx_size' = tx_size + n /\ chunk_tx' = (tx_size' = chunk_size) /\ result' = result
      BY <2>1 DEF Stream!Write
    <3>2. tx_size' \in Nat /\ tx_size' <= chunk_size
      BY <1>n, <2>1, <3>1
    <3> QED BY <3>1, <3>2
  <2>2. CASE n \notin 1 .. chunk_size - tx_size
    BY <2>2 DEF Stream!Write
  <2> QED BY <2>1, <2>2
<1>2. StreamTypes'
  BY <1>0, <1>s, <1>t, <1>1 DEF StreamTypes
<1>3. \E j \in 1 .. Len(chunks') + 1 : InChunk(j)'
  <2>1. PICK i \in 1 .. Len(chunks) + 1 : InChunk(i)
    BY DEF StreamIInv
  <2>2. InChunk(i)'
    BY <1>0, <1>s, <2>1 DEF InChunk, Stream!SizeAt
  <2> QED BY <1>0, <2>2
<1>4. Copying'
  <2>1. tx_size <= chunk_size /\ tx_started \in BOOLEAN
    BY <1>t DEF Copying, StreamTypes
  <2>2. tx_size' <= chunk_size' /\ tx_started'
    BY <1>0, <1>1, <2>1
  <2>3. tx_size # chunk_size
    BY <1>0, <1>t DEF Copying
  <2>4. CASE /\ tx_size' \in Nat /\ tx_size' <= chunk_size /\ result' = result
             /\ chunk_tx' \in BOOLEAN /\ (chunk_tx' <=> tx_size' = chunk_size)
    <3>1. chunk_tx' <=> tx_started' /\ tx_size' = chunk_size'
      BY <1>0, <2>2, <2>4
    <3>2. result' = "streaming"
      BY <1>0, <2>4
    <3> QED BY <2>2, <3>1, <3>2 DEF Copying
  <2>5. CASE tx_size' = tx_size /\ result' = "write failed" /\ chunk_tx' = chunk_tx
    <3>1. ~chunk_tx' /\ tx_size' # chunk_size'
      BY <1>0, <2>3, <2>5
    <3> QED BY <2>2, <3>1 DEF Copying
  <2> QED BY <1>1, <2>4, <2>5
<1>5. Ended'
  BY <1>0, <1>1 DEF Ended
<1>6. Stream!ChunksCounted'
  BY <1>0, <1>s, <1>t, SameHanded
<1>c. chunks' \in Archives
  BY <1>0 DEF StreamIInv
<1> QED BY <1>c, <1>2, <1>3, <1>4, <1>5, <1>6 DEF StreamIInv

\* buffer_updated(): the header is that of the chunk that begins at start
LEMMA HeaderFound ==
  ASSUME StreamIInv, Stream!Framed, NEW i \in 1 .. Len(chunks) + 1, InChunk(i), NEW n \in Nat,
         n > 0, n <= chunk_size - filled_size, start + filled_size + n <= available,
         header = Stream!NoHeader, filled_size + n >= HeaderLen
  PROVE  i \in DOMAIN chunks /\ Stream!VerifiedAt(filled_size + n) = chunks[i]
<1>a. Archived
  BY DEF StreamIInv, Archived
<1>n. /\ start \in Nat /\ filled_size \in Nat /\ HeaderLen \in Nat \ {0}
      /\ Len(chunks) \in Nat /\ DOMAIN chunks = 1 .. Len(chunks)
      /\ available \in 0 .. Stream!Offset(Len(chunks) + 1) /\ Stream!Offset(Len(chunks) + 1) \in Nat
      /\ start = Stream!Offset(i)
  <2>1. HeaderLen \in Nat \ {0}
    BY DEF Stream!Framed
  <2>2. Len(chunks) \in Nat /\ DOMAIN chunks = 1 .. Len(chunks)
    BY <1>a, ChunkTypes
  <2>3. Stream!Offset(Len(chunks) + 1) \in Nat
    BY <1>a, <2>2, Layout
  <2>4. start \in Nat /\ filled_size \in Nat /\ available \in 0 .. Stream!Offset(Len(chunks) + 1)
    BY DEF StreamIInv, StreamTypes
  <2> QED BY <2>1, <2>2, <2>3, <2>4 DEF InChunk
<1>1. Stream!Offset(i) < Stream!Offset(Len(chunks) + 1)
  BY <1>n
<1>2. i \in DOMAIN chunks
  BY <1>a, <1>n, <1>1, Ordered
<1>3. \A j \in DOMAIN chunks : Stream!Offset(j) = start => j = i
  <2> SUFFICES ASSUME NEW j \in DOMAIN chunks, Stream!Offset(j) = start PROVE j = i
    OBVIOUS
  <2>1. /\ (Stream!Offset(i) < Stream!Offset(j) <=> i < j)
        /\ (Stream!Offset(j) < Stream!Offset(i) <=> j < i)
    BY <1>a, <1>n, <1>2, Ordered
  <2>2. Stream!Offset(i) \in Nat
    BY <1>a, Layout
  <2> QED BY <1>n, <2>1, <2>2
<1>4. (CHOOSE j \in DOMAIN chunks : Stream!Offset(j) = start) = i
  BY <1>n, <1>2, <1>3
<1> QED BY <1>2, <1>4 DEF Stream!VerifiedAt

LEMMA ReadInStep ==
  ASSUME StreamIInv, Stream!Framed, NEW n \in Nat, n > 0, Stream!Read(n)
  PROVE  StreamIInv'
<1> DEFINE filled == filled_size + n
           h == Stream!VerifiedAt(filled)
           size == Stream!SizeAt(h, filled)
<1>a. Archived
  BY DEF StreamIInv, Archived
<1>0. /\ chunks' = chunks /\ available' = available
      /\ result = "streaming" /\ ~chunk_tx /\ ~tx_started
      /\ n <= chunk_size - filled_size /\ start + filled_size + n <= available
  BY DEF Stream!Read
<1>s. (\A i : Stream!Offset(i)' = Stream!Offset(i)) /\ Stream!Boundaries' = Stream!Boundaries
  BY <1>0, SameArchive
<1>t. StreamTypes /\ Copying /\ Ended /\ Stream!ChunksCounted
  BY DEF StreamIInv
<1>n. /\ start \in Nat /\ filled_size \in Nat /\ chunk_size \in Nat /\ filled \in Nat
      /\ HeaderLen \in Nat \ {0} /\ Len(chunks) \in Nat /\ DOMAIN chunks = 1 .. Len(chunks)
  <2>1. start \in Nat /\ filled_size \in Nat /\ chunk_size \in Nat
    BY <1>t DEF StreamTypes
  <2>2. HeaderLen \in Nat \ {0}
    BY DEF Stream!Framed
  <2>3. Len(chunks) \in Nat /\ DOMAIN chunks = 1 .. Len(chunks)
    BY <1>a, ChunkTypes
  <2> QED BY <2>1, <2>2, <2>3
<1>1. PICK i \in 1 .. Len(chunks) + 1 : InChunk(i)
  BY DEF StreamIInv
<1>c. chunks' \in Archives
  BY <1>0 DEF StreamIInv
<1>2. CASE /\ header = Stream!NoHeader /\ filled >= HeaderLen
           /\ \A j \in DOMAIN chunks : Stream!Offset(j) = start => chunks[j].type \notin {"P", "E"}
  <2>1. /\ result' = "refused" /\ counts' = counts /\ start' = start
        /\ filled_size' = filled_size /\ tx_size' = tx_size /\ chunk_size' = chunk_size
        /\ header' = header /\ tx_started' = tx_started /\ chunk_tx' = chunk_tx
    BY <1>2 DEF Stream!Read, Stream!object
  <2>2. i \in DOMAIN chunks /\ Stream!Offset(i) = start
    BY <1>0, <1>1, <1>2, HeaderFound DEF InChunk
  <2>3. chunks[i].type \notin {"P", "E"}
    BY <1>2, <2>2
  <2>4. StreamTypes'
    BY <1>0, <1>s, <1>t, <2>1 DEF StreamTypes
  <2>5. InChunk(i)'
    BY <1>0, <1>s, <1>1, <2>1 DEF InChunk, Stream!SizeAt
  <2>6. Copying'
    BY <1>0, <1>t, <2>1 DEF Copying
  <2>7. Ended'
    BY <1>0, <1>s, <2>1, <2>2, <2>3 DEF Ended
  <2>8. Stream!ChunksCounted'
    BY <1>0, <1>s, <1>t, <2>1, SameHanded
  <2>9. \E j \in 1 .. Len(chunks') + 1 : InChunk(j)'
    BY <1>0, <2>5
  <2> QED BY <1>c, <2>4, <2>6, <2>7, <2>8, <2>9 DEF StreamIInv
<1>3. CASE ~(/\ header = Stream!NoHeader /\ filled >= HeaderLen
             /\ \A j \in DOMAIN chunks :
                  Stream!Offset(j) = start => chunks[j].type \notin {"P", "E"})
  <2>1. /\ filled_size' = filled /\ chunk_size' = size /\ header' = h
        /\ tx_started' = (filled = size)
        /\ counts' = IF filled = size THEN [counts EXCEPT ![h.name] = counts[h.name] + 1]
                     ELSE counts
        /\ result' = result /\ start' = start /\ tx_size' = tx_size /\ chunk_tx' = chunk_tx
    BY <1>3 DEF Stream!Read
  <2>2. \/ h = Stream!NoHeader /\ filled < HeaderLen /\ size = HeaderLen
        \/ /\ i \in DOMAIN chunks /\ h = chunks[i] /\ h.type \in {"P", "E"}
           /\ HeaderLen <= filled
    <3>1. CASE header # Stream!NoHeader
      <4>1. h = header
        BY <3>1 DEF Stream!VerifiedAt
      <4> QED BY <1>1, <1>n, <3>1, <4>1 DEF InChunk
    <3>2. CASE header = Stream!NoHeader /\ filled < HeaderLen
      <4>1. h = Stream!NoHeader
        BY <1>n, <3>2 DEF Stream!VerifiedAt
      <4> QED BY <3>2, <4>1 DEF Stream!SizeAt
    <3>3. CASE header = Stream!NoHeader /\ filled >= HeaderLen
      <4>1. i \in DOMAIN chunks /\ h = chunks[i]
        BY <1>0, <1>1, <3>3, HeaderFound
      <4>2. PICK j \in DOMAIN chunks : Stream!Offset(j) = start /\ chunks[j].type \in {"P", "E"}
        BY <1>3, <3>3
      <4>3. /\ (Stream!Offset(i) < Stream!Offset(j) <=> i < j)
            /\ (Stream!Offset(j) < Stream!Offset(i) <=> j < i)
        BY <1>a, <1>n, <4>1, Ordered
      <4>4. j = i
        BY <1>1, <1>n, <4>1, <4>2, <4>3 DEF InChunk
      <4> QED BY <1>n, <3>3, <4>1, <4>2, <4>4
    <3> QED BY <1>n, <3>1, <3>2, <3>3
  <2>3. h # Stream!NoHeader =>
          /\ i \in DOMAIN chunks /\ h = chunks[i] /\ h.type \in {"P", "E"}
          /\ HeaderLen <= filled /\ h.path_len \in Nat /\ h.payload_size \in Nat
    BY <1>a, <2>2, ChunkTypes
  <2>u. h = Stream!NoHeader => filled < HeaderLen /\ size = HeaderLen
    <3>1. Stream!NoHeader.type = ""
      BY DEF Stream!NoHeader
    <3> HIDE DEF filled, h, size
    <3> QED BY <2>2, <3>1
  <2>4. size \in Nat /\ filled <= size /\ HeaderLen <= size
    <3>1. CASE h = Stream!NoHeader
      <4> HIDE DEF filled, h, size
      <4> QED BY <1>n, <2>u, <3>1
    <3>2. CASE h # Stream!NoHeader
      <4>1. size \in Nat /\ HeaderLen <= size
        BY <1>n, <2>3, <3>2, Sizes
      <4>2. CASE header = Stream!NoHeader
        <5>1. filled <= HeaderLen
          BY <1>0, <1>1, <1>n, <4>2 DEF InChunk
        <5> QED BY <1>n, <4>1, <5>1
      <4>3. CASE header # Stream!NoHeader
        <5>1. h = header /\ chunk_size = Stream!SizeAt(h, filled_size) /\ HeaderLen <= filled_size
          BY <1>1, <4>3 DEF InChunk, Stream!VerifiedAt
        <5>2. chunk_size <= size
          BY <1>n, <2>3, <3>2, <5>1, Sizes
        <5> QED BY <1>0, <1>n, <4>1, <5>2
      <4> QED BY <4>2, <4>3
    <3> QED BY <3>1, <3>2
  <2>5. filled = size => i \in DOMAIN chunks /\ h = chunks[i] /\ h.name \in DOMAIN counts
    <3> SUFFICES ASSUME filled = size
                 PROVE  i \in DOMAIN chunks /\ h = chunks[i] /\ h.name \in DOMAIN counts
      OBVIOUS
    <3>1. i \in DOMAIN chunks /\ h = chunks[i]
      BY <1>n, <2>2
    <3> QED BY <1>t, <3>1 DEF StreamTypes
  <2> HIDE DEF filled, h, size
  <2>6. StreamTypes'
    <3>1. counts' \in [{chunks[j].name : j \in DOMAIN chunks} -> Nat]
      <4>1. counts \in [{chunks[j].name : j \in DOMAIN chunks} -> Nat]
        BY <1>t DEF StreamTypes
      <4> QED BY <2>1, <2>5, <4>1
    <3> QED BY <1>0, <1>s, <1>t, <1>n, <2>1, <2>4, <3>1 DEF StreamTypes
  <2>7. InChunk(i)'
    <3>1. start' + filled_size' <= available'
      BY <1>0, <1>n, <2>1 DEF filled
    <3>2. start' = Stream!Offset(i)'
      BY <1>s, <1>1, <2>1 DEF InChunk
    <3>3. header' = Stream!NoHeader => filled_size' < HeaderLen /\ chunk_size' = HeaderLen
      BY <2>1, <2>u
    <3>4. header' # Stream!NoHeader =>
            /\ i \in DOMAIN chunks' /\ header' = chunks'[i] /\ header'.type \in {"P", "E"}
            /\ HeaderLen <= filled_size' /\ chunk_size' = Stream!SizeAt(header', filled_size')
      BY <1>0, <2>1, <2>3 DEF size
    <3>5. filled_size' <= chunk_size' /\ (tx_started' <=> filled_size' = chunk_size')
      BY <2>1, <2>4
    <3> QED BY <3>1, <3>2, <3>3, <3>4, <3>5 DEF InChunk, Stream!SizeAt
  <2>8. Copying'
    <3>1. tx_size = 0
      BY <1>0, <1>t DEF Copying
    <3> QED BY <1>0, <1>n, <2>1, <2>4, <3>1 DEF Copying
  <2>9. Ended'
    BY <1>0, <2>1 DEF Ended
  <2>10. Stream!ChunksCounted'
    <3>1. CASE filled # size
      <4>1. counts' = counts /\ ~tx_started'
        BY <2>1, <3>1
      <4> QED BY <1>0, <1>s, <1>t, <2>1, <4>1, SameHanded
    <3>2. CASE filled = size
      <4>1. i \in DOMAIN chunks /\ h = chunks[i] /\ Stream!Offset(i) = start
        BY <1>1, <2>5, <3>2 DEF InChunk
      <4>2. \A j \in DOMAIN chunks : Stream!Offset(j) = start => j = i
        <5> SUFFICES ASSUME NEW j \in DOMAIN chunks, Stream!Offset(j) = start PROVE j = i
          OBVIOUS
        <5>1. /\ (Stream!Offset(i) < Stream!Offset(j) <=> i < j)
              /\ (Stream!Offset(j) < Stream!Offset(i) <=> j < i)
          BY <1>a, <1>n, <4>1, Ordered
        <5> QED BY <1>n, <4>1, <5>1
      <4>3. ASSUME NEW file \in DOMAIN counts
            PROVE  /\ counts[file] = Cardinality(Stream!Handed(file))
                   /\ IsFiniteSet(Stream!Handed(file)) /\ Cardinality(Stream!Handed(file)) \in Nat
        <5>1. IsFiniteSet(DOMAIN chunks) /\ Stream!Handed(file) \subseteq DOMAIN chunks
          BY <1>n, FS_Interval DEF Stream!Handed
        <5>2. IsFiniteSet(Stream!Handed(file)) /\ Cardinality(Stream!Handed(file)) \in Nat
          BY <5>1, FS_Subset, FS_CardinalityType
        <5> QED BY <1>t, <5>2, StreamCardinality DEF Stream!ChunksCounted
      <4>4. DOMAIN counts' = DOMAIN counts /\ tx_started'
        BY <2>1, <3>2
      <4>5. ASSUME NEW file \in DOMAIN counts
            PROVE  counts'[file] = Cardinality(Stream!Handed(file)')
        <5>1. Stream!Handed(file)' =
                IF file = h.name THEN Stream!Handed(file) \cup {i} ELSE Stream!Handed(file)
          <6>1. \A j \in DOMAIN chunks :
                  Stream!Offset(j)' < start' \/ (Stream!Offset(j)' = start' /\ tx_started')
                  <=> Stream!Offset(j) < start \/ (Stream!Offset(j) = start /\ tx_started) \/ j = i
            BY <1>0, <1>s, <2>1, <4>1, <4>2, <4>4
          <6> QED BY <1>0, <4>1, <6>1 DEF Stream!Handed
        <5>2. i \notin Stream!Handed(file)
          BY <1>0, <1>n, <4>1 DEF Stream!Handed
        <5>3. CASE file = h.name
          <6>1. counts'[file] = counts[file] + 1
            BY <2>1, <3>2, <5>3
          <6>2. Cardinality(Stream!Handed(file) \cup {i}) = Cardinality(Stream!Handed(file)) + 1
            BY <4>3, <5>2, FS_AddElement
          <6> QED BY <4>3, <5>1, <5>3, <6>1, <6>2
        <5>4. CASE file # h.name
          <6>1. counts'[file] = counts[file]
            BY <2>1, <3>2, <5>4
          <6> QED BY <4>3, <5>1, <5>4, <6>1
        <5> QED BY <5>3, <5>4
      <4>6. \A file \in DOMAIN counts' : counts'[file] = Stream!Cardinality(Stream!Handed(file)')
        BY <4>4, <4>5, StreamCardinality
      <4> QED BY <4>6 DEF Stream!ChunksCounted
    <3> QED BY <3>1, <3>2
  <2>11. \E j \in 1 .. Len(chunks') + 1 : InChunk(j)'
    BY <1>0, <2>7
  <2> QED BY <1>c, <2>6, <2>8, <2>9, <2>10, <2>11 DEF StreamIInv
<1> QED BY <1>2, <1>3

LEMMA StepInStep == StreamIInv /\ Stream!Framed /\ [Stream!Next]_(Stream!vars) => StreamIInv'
<1> SUFFICES ASSUME StreamIInv, Stream!Framed, [Stream!Next]_(Stream!vars) PROVE StreamIInv'
  OBVIOUS
<1>a. Archived
  BY DEF StreamIInv, Archived
<1>n. Stream!Progress \subseteq Nat
  <2>1. Stream!Offset(Len(chunks) + 1) \in Nat
    <3>1. Len(chunks) \in Nat
      BY <1>a, ChunkTypes
    <3>2. Len(chunks) + 1 \in 1 .. Len(chunks) + 1
      BY <3>1
    <3> QED BY <1>a, <3>2, Layout
  <2> QED BY <2>1 DEF Stream!Progress
<1>1. CASE Stream!Fresh
  BY <1>1, FreshInStep
<1>2. CASE Stream!ReadNothing
  BY <1>2, NothingInStep
<1>3. ASSUME NEW n \in Stream!Progress, n > 0, Stream!Read(n) PROVE StreamIInv'
  BY <1>n, <1>3, ReadInStep
<1>4. ASSUME NEW n \in Stream!Progress, Stream!Write(n) PROVE StreamIInv'
  BY <1>n, <1>4, WriteInStep
<1>5. CASE UNCHANGED Stream!vars
  <2>0. /\ chunks' = chunks /\ available' = available /\ counts' = counts
        /\ result' = result /\ start' = start /\ filled_size' = filled_size
        /\ tx_size' = tx_size /\ chunk_size' = chunk_size /\ header' = header
        /\ tx_started' = tx_started /\ chunk_tx' = chunk_tx
    BY <1>5 DEF Stream!vars, Stream!object
  <2>s. (\A i : Stream!Offset(i)' = Stream!Offset(i)) /\ Stream!Boundaries' = Stream!Boundaries
    BY <2>0, SameArchive
  <2>1. StreamTypes'
    BY <2>0, <2>s DEF StreamIInv, StreamTypes
  <2>2. \E j \in 1 .. Len(chunks') + 1 : InChunk(j)'
    <3>1. PICK i \in 1 .. Len(chunks) + 1 : InChunk(i)
      BY DEF StreamIInv
    <3>2. InChunk(i)'
      BY <2>0, <2>s, <3>1 DEF InChunk, Stream!SizeAt
    <3> QED BY <2>0, <3>2
  <2>3. Copying'
    BY <2>0 DEF StreamIInv, Copying
  <2>4. Ended'
    BY <2>0, <2>s DEF StreamIInv, Ended
  <2>5. Stream!ChunksCounted'
    BY <2>0, <2>s, SameHanded DEF StreamIInv
  <2>6. chunks' \in Archives
    BY <2>0 DEF StreamIInv
  <2> QED BY <2>1, <2>2, <2>3, <2>4, <2>5, <2>6 DEF StreamIInv
<1> QED BY <1>1, <1>2, <1>3, <1>4, <1>5 DEF Stream!Next

\* The reader keeps step with every archive, in chunks of every length, however its
\* reads and its writes are cut: it ends where a chunk ends, says that the archive is cut
\* exactly where it is, writes no byte of a chunk that it has not read whole, and counts
\* each chunk when it hands it over, and only then.
THEOREM CopiesInStep == Stream!Spec => []CopiedInStep
<1>1. StreamIInv => CopiedInStep
  <2> SUFFICES ASSUME StreamIInv PROVE CopiedInStep
    OBVIOUS
  <2>1. PICK i \in 1 .. Len(chunks) + 1 : InChunk(i)
    BY DEF StreamIInv
  <2>2. start \in Stream!Boundaries
    BY <2>1 DEF InChunk, Stream!Boundaries
  <2>3. tx_size > 0 => start + chunk_size \in Stream!Boundaries /\ start + chunk_size <= available
    <3> SUFFICES ASSUME tx_size > 0
                 PROVE  start + chunk_size \in Stream!Boundaries /\ start + chunk_size <= available
      OBVIOUS
    <3>1. tx_started
      <4>1. tx_size # 0
        OBVIOUS
      <4> QED BY <4>1 DEF StreamIInv, Copying
    <3>2. i + 1 \in 1 .. Len(chunks) + 1 /\ start + chunk_size = Stream!Offset(i + 1)
      BY <2>1, <3>1, StreamAssumption, InHand
    <3>3. start + filled_size <= available /\ filled_size = chunk_size
      BY <2>1, <3>1 DEF InChunk
    <3> QED BY <3>2, <3>3 DEF Stream!Boundaries
  <2>4. chunk_tx => tx_size = chunk_size
    BY DEF StreamIInv, Copying
  <2> QED BY <2>2, <2>3, <2>4 DEF CopiedInStep, Stream!CopiedInStep, StreamIInv, Ended
<1> QED BY <1>1, StreamAssumption, StreamBegins, StepInStep, PTL DEF Stream!Spec

-----------------------------------------------------------------------------
(* file_w_tmp(): only what is whole is published, and it stays.            *)

Labels == {"start", "create", "write", "sync", "publish", "return", "unlink", "unstage", "done",
           "dead"}

FileTypes ==
  /\ pc \in [Writers -> Labels] /\ raised \in [Writers -> BOOLEAN]
  /\ written \in [Writers -> 0..Size] /\ synced \in [Writers -> 0..Size]
  /\ name \in [Writers -> {"none", "temporary", "staging", "published"}]
  /\ target \in Writers \cup {Old} /\ staging \subseteq Writers \cap Adding
  /\ cut \subseteq Writers /\ durable \in BOOLEAN

\* Only what is whole, on the disk too, is ever published
Safe ==
  \A w \in Writers : name[w] = "published" => written[w] = Size /\ synced[w] = Size

\* Where the file of a call is, and how much of it there is, while the call runs
Whereabouts(w) ==
  /\ pc[w] \in {"start", "create"} => name[w] = "none" /\ ~raised[w]
  /\ pc[w] = "start" => w \notin staging
  /\ pc[w] = "create" => w \in Adding
  /\ pc[w] \in {"write", "sync", "publish"} =>
       ~raised[w] /\ name[w] = IF w \in Adding THEN "staging" ELSE "temporary"
  /\ pc[w] \in {"sync", "publish"} => written[w] = Size
  /\ pc[w] = "publish" => synced[w] = Size
  /\ pc[w] = "return" => ~raised[w] /\ name[w] = "published"
  /\ pc[w] = "unlink" => raised[w] /\ name[w] = IF w \in Adding THEN "staging" ELSE "temporary"
  /\ pc[w] = "unstage" =>
       /\ w \in Adding
       /\ raised[w] /\ w \notin cut => name[w] \in {"none", "staging"}
       /\ ~raised[w] => name[w] = "published"
  /\ pc[w] = "done" =>
       IF raised[w] THEN w \notin cut => name[w] = "none" /\ w \notin staging
       ELSE name[w] = "published" /\ w \notin staging

Published ==
  /\ target = Old \/ name[target] = "published"
  /\ \A w \in Writers \ Adding : (pc[w] \in {"return", "done"} /\ ~raised[w]) => target # Old

FileIInv == FileTypes /\ Safe /\ (\A w \in Writers : Whereabouts(w)) /\ Published

-----------------------------------------------------------------------------

LEMMA FileBegins == Init => FileIInv
BY AtomicFileAssumption DEF Init, FileIInv, FileTypes, Labels, Safe, Whereabouts, Published

\* A step of one writer leaves the others where they are, and what is published published.
LEMMA FileKept == FileIInv /\ [Next]_vars => FileIInv'
<1> SUFFICES ASSUME FileIInv, [Next]_vars PROVE FileIInv'
  OBVIOUS
<1> USE AtomicFileAssumption DEF FileIInv, FileTypes, Labels, Safe, Whereabouts,
      Published, Goto
<1>1. CASE UNCHANGED vars
  BY <1>1 DEF vars
<1>2. CASE PowerOff
  BY <1>2 DEF PowerOff
<1>3. ASSUME NEW w \in Writers, Stage(w) PROVE FileIInv'
  BY <1>3 DEF Stage
<1>4. ASSUME NEW w \in Writers, Create(w) PROVE FileIInv'
  BY <1>4 DEF Create
<1>5. ASSUME NEW w \in Writers, Write(w) PROVE FileIInv'
  <2>1. CASE written[w] < Size
    BY <1>5, <2>1 DEF Write
  <2>2. CASE ~(written[w] < Size)
    <3>1. written[w] = Size
      BY <2>2
    <3> QED BY <1>5, <2>2, <3>1 DEF Write
  <2> QED BY <2>1, <2>2
<1>6. ASSUME NEW w \in Writers, Sync(w) PROVE FileIInv'
  BY <1>6 DEF Sync
<1>7. ASSUME NEW w \in Writers, Publish(w) PROVE FileIInv'
  BY <1>7 DEF Publish
<1>8. ASSUME NEW w \in Writers, Raise(w) PROVE FileIInv'
  BY <1>8 DEF Raise
<1>9. ASSUME NEW w \in Writers, Unlink(w) PROVE FileIInv'
  BY <1>9 DEF Unlink
<1>10. ASSUME NEW w \in Writers, Unstage(w) PROVE FileIInv'
  <2>1. CASE staging' = staging \ {w} /\ UNCHANGED <<raised, cut>>
    BY <1>10, <2>1 DEF Unstage
  <2>2. CASE UNCHANGED staging /\ raised' = [raised EXCEPT ![w] = TRUE] /\ cut' = cut \cup {w}
    <3>1. /\ pc[w] = "unstage" /\ pc' = [pc EXCEPT ![w] = "done"]
          /\ UNCHANGED <<written, synced, target, durable>>
      BY <1>10 DEF Unstage
    <3>2. /\ name' \in [Writers -> {"none", "temporary", "staging", "published"}]
          /\ \A v \in Writers : name'[v] = "published" <=> name[v] = "published"
          /\ \A v \in Writers \ {w} : name'[v] = name[v]
      BY <1>10 DEF Unstage
    <3> QED BY <2>2, <3>1, <3>2
  <2> QED BY <1>10, <2>1, <2>2 DEF Unstage
<1>11. ASSUME NEW w \in Writers, Die(w) PROVE FileIInv'
  BY <1>11 DEF Die
<1>12. ASSUME NEW w \in Writers, Return(w) PROVE FileIInv'
  BY <1>12 DEF Return
<1>13. ASSUME NEW w \in Writers, Interrupt(w) PROVE FileIInv'
  BY <1>13 DEF Interrupt
<1> QED
  BY <1>1, <1>2, <1>3, <1>4, <1>5, <1>6, <1>7, <1>8, <1>9, <1>10, <1>11, <1>12, <1>13 DEF Next

\* file_w_tmp(): whenever a process or the machine stops, whoever looks finds the old file
\* or all of a new one; a call that returned has left nothing else, and one that raised
\* nothing at all, unless its cleanup failed or an interrupt came where none follows it.
THEOREM WholeWhateverHappens == Spec => []FileIsWhole
<1>1. FileIInv => FileIsWhole
  BY AtomicFileAssumption DEF FileIInv, FileTypes, Safe, Whereabouts, Published, FileIsWhole
<1>2. Init => FileIInv
  BY FileBegins
<1>3. FileIInv /\ [Next]_vars => FileIInv'
  BY FileKept
<1> QED BY <1>1, <1>2, <1>3, PTL DEF Spec
-----------------------------------------------------------------------------
(* argpolicy: what a policy accepts is what its entries describe.          *)

\* The entries of a policy that compiles are a function of the names
LEMMA EntryOfName ==
  ASSUME NEW Entry, NEW spec \in Seq(Entry), NEW options, Args!EntriesOk(spec, options),
         NEW i \in DOMAIN spec
  PROVE  /\ Args!Normalize(spec[i][1], options) \in DOMAIN Args!Entries(spec, options)
         /\ Args!Entries(spec, options)[Args!Normalize(spec[i][1], options)] = spec[i][2]
<1> DEFINE option == Args!Normalize(spec[i][1], options)
           j == CHOOSE j \in DOMAIN spec : Args!Normalize(spec[j][1], options) = option
<1>1. j \in DOMAIN spec /\ Args!Normalize(spec[j][1], options) = option
  OBVIOUS
<1>2. j = i
  BY <1>1 DEF Args!EntriesOk, Args!IsInjective
<1> HIDE DEF j
<1>3. Args!Entries(spec, options)[option] = spec[j][2]
  BY DEF Args!Entries, j
<1> QED BY <1>2, <1>3 DEF Args!Entries

LEMMA DeniedIsExcluded ==
  ASSUME NEW policy, NEW file, NEW options
  PROVE  Args!Denied(file, policy, options) <=> Args!Excluded(file, policy, options)
<1>1. file \in DOMAIN Args!Entries(policy.entries, options)
      <=> Args!EntriesFor(file, policy, options) # {}
  BY DEF Args!Entries, Args!EntriesFor
<1> QED BY <1>1 DEF Args!Denied, Args!Excluded

\* The inner loop stops at an option, at the end, or when its option has what it takes.
LEMMA Stops ==
  ASSUME NEW Token, NEW args \in Seq(Token), NEW i \in 1 .. Len(args) + 1,
         NEW attached \in Nat, NEW nargs \in Nat \X BOOLEAN
  PROVE  LET n == Args!Taken(args, i, attached, nargs) IN
         /\ n \in Nat /\ i + n <= Len(args) + 1
         /\ \A j \in i .. i + n - 1 : ~Args!Option(args[j])
         /\ nargs[2] => n = 0 \/ attached + n <= nargs[1]
         /\ i + n <= Len(args) =>
              Args!Option(args[i + n]) \/ (nargs[2] /\ attached + n >= nargs[1])
<1> DEFINE L == Len(args)
           Goes(n) == /\ nargs[2] => attached + n < nargs[1]
                      /\ i + n <= L /\ ~Args!Option(args[i + n])
           T == [p \in Nat \X (1 .. L) |-> IF Goes(p[1]) THEN p[1] + 1 ELSE p[1]]
<1>t. L \in Nat /\ nargs[1] \in Nat /\ nargs[2] \in BOOLEAN
  OBVIOUS
<1>1. T \in [Nat \X (1 .. L) -> Nat]
  OBVIOUS
<1>2. \A n \in Nat, k \in 1 .. L : T[<<n, k>>] = IF Goes(n) THEN n + 1 ELSE n
  OBVIOUS
<1>3. PICK f \in [0 .. L -> Nat] :
        \A k \in 0 .. L : f[k] = IF k = 0 THEN 0 ELSE LET n == f[k - 1] IN
                                                    IF Goes(n) THEN n + 1 ELSE n
  <2> HIDE DEF T, L
  <2>1. PICK f : Loops(f, 0, T, Nat, L)
    BY <1>t, <1>1, Iterates
  <2> HIDE DEF Goes
  <2>2. ASSUME NEW k \in 1 .. L
        PROVE  T[<<f[k - 1], k>>] = IF Goes(f[k - 1]) THEN f[k - 1] + 1 ELSE f[k - 1]
    <3>1. f[k - 1] \in Nat
      BY <1>t, <2>1 DEF Loops
    <3> QED BY <1>2, <3>1
  <2>3. ASSUME NEW k \in 0 .. L
        PROVE  f[k] = IF k = 0 THEN 0 ELSE LET n == f[k - 1] IN IF Goes(n) THEN n + 1 ELSE n
    <3>1. CASE k = 0
      BY <2>1, <3>1 DEF Loops
    <3>2. CASE k \in 1 .. L
      BY <2>1, <2>2, <3>2 DEF Loops
    <3> QED BY <1>t, <3>1, <3>2
  <2> QED BY <2>1, <2>3 DEF Loops
<1>4. f = [k \in 0 .. Len(args) |->
             IF k = 0 THEN 0
             ELSE LET n == f[k - 1] IN
                  IF /\ nargs[2] => attached + n < nargs[1]
                     /\ i + n <= Len(args) /\ ~Args!Option(args[i + n])
                  THEN n + 1 ELSE n]
  BY <1>3
<1> HIDE DEF T
<1>5. PICK g : /\ g = [k \in 0 .. Len(args) |->
                    IF k = 0 THEN 0
                    ELSE LET n == g[k - 1] IN
                         IF /\ nargs[2] => attached + n < nargs[1]
                            /\ i + n <= Len(args) /\ ~Args!Option(args[i + n])
                         THEN n + 1 ELSE n]
               /\ Args!Taken(args, i, attached, nargs) = g[Len(args)]
  BY <1>4 DEF Args!Taken
<1> DEFINE Ok(n, k) == /\ n \in Nat /\ i + n <= L + 1
                       /\ \A j \in i .. i + n - 1 : ~Args!Option(args[j])
                       /\ nargs[2] => n = 0 \/ attached + n <= nargs[1]
                       /\ Goes(n) => n = k
           I == {k \in Nat : k <= L => Ok(g[k], k)}
<1>6. 0 \in I
  <2>1. g[0] = 0
    BY <1>t, <1>5
  <2> QED BY <1>t, <2>1
<1>7. ASSUME NEW k \in Nat, k \in I PROVE k + 1 \in I
  <2> SUFFICES ASSUME k + 1 <= L PROVE Ok(g[k + 1], k + 1)
    OBVIOUS
  <2>1. g[k + 1] = IF Goes(g[k]) THEN g[k] + 1 ELSE g[k]
    BY <1>t, <1>5
  <2>2. Ok(g[k], k)
    BY <1>7, <1>t
  <2>3. CASE Goes(g[k])
    <3>1. g[k + 1] = k + 1 /\ g[k] = k
      BY <2>1, <2>2, <2>3
    <3>2. \A j \in i .. i + (k + 1) - 1 : ~Args!Option(args[j])
      <4> SUFFICES ASSUME NEW j \in i .. i + (k + 1) - 1 PROVE ~Args!Option(args[j])
        OBVIOUS
      <4>1. CASE j = i + k
        BY <2>3, <3>1, <4>1
      <4>2. CASE j \in i .. i + k - 1
        <5>1. \A m \in i .. i + g[k] - 1 : ~Args!Option(args[m])
          BY <2>2
        <5>2. i + k - 1 = i + g[k] - 1
          BY <3>1
        <5> QED BY <4>2, <5>1, <5>2
      <4>3. j = i + k \/ j \in i .. i + k - 1
        OBVIOUS
      <4> QED BY ONLY <4>1, <4>2, <4>3
    <3> QED BY <1>t, <2>3, <3>1, <3>2
  <2>4. CASE ~Goes(g[k])
    BY <2>1, <2>2, <2>4
  <2> QED BY <2>3, <2>4
<1>8. Ok(g[L], L)
  <2>1. Nat \subseteq I
    <3> HIDE DEF I
    <3> QED BY <1>6, <1>7, Induction
  <2> QED BY <1>t, <2>1
<1>9. i + g[L] <= L => Args!Option(args[i + g[L]]) \/ (nargs[2] /\ attached + g[L] >= nargs[1])
  <2> SUFFICES ASSUME i + g[L] <= L, ~Args!Option(args[i + g[L]]),
                      ~(nargs[2] /\ attached + g[L] >= nargs[1])
               PROVE  FALSE
    OBVIOUS
  <2>1. Goes(g[L])
    BY <1>t, <1>8
  <2>2. g[L] = L
    BY <1>8, <2>1
  <2> QED BY <1>t, <2>2
<1> QED BY <1>5, <1>8, <1>9

LEMMA Scanned ==
  ASSUME NEW Token, NEW args \in Seq(Token), NEW disallow
  PROVE  Args!Scan(args, disallow) # "forbidden" <=> Args!Undenied(args, disallow)
<1> DEFINE L == Len(args)
           Bad(i) == /\ Args!Option(args[i])
                     /\ \/ Args!Denied(args[i].name, disallow, TRUE)
                        \/ Args!Excepts(disallow) /\ args[i].kind = "cluster"
           Look(s, i) == IF s # "scanning" THEN s
                         ELSE IF args[i].kind = "end" THEN "done"
                         ELSE IF Bad(i) THEN "forbidden" ELSE "scanning"
           S == {"scanning", "done", "forbidden"}
           T == [p \in S \X (1 .. L) |-> Look(p[1], p[2])]
<1>t. L \in Nat /\ DOMAIN args = 1 .. L
  OBVIOUS
<1>1. T \in [S \X (1 .. L) -> S]
  <2> HIDE DEF Bad
  <2> QED OBVIOUS
<1>2. \A s \in S, i \in 1 .. L : T[<<s, i>>] = Look(s, i)
  OBVIOUS
<1>3. PICK f : Loops(f, "scanning", T, S, L)
  <2>1. "scanning" \in S
    OBVIOUS
  <2> HIDE DEF T, L, S
  <2> QED BY <1>t, <1>1, <2>1, Iterates
<1> HIDE DEF T, Bad
<1>4. /\ f \in [0 .. L -> S]
      /\ \A k \in 0 .. L : f[k] = IF k = 0 THEN "scanning" ELSE Look(f[k - 1], k)
  <2>1. f \in [0 .. L -> S]
    BY <1>3 DEF Loops
  <2>2. ASSUME NEW k \in 1 .. L PROVE f[k] = Look(f[k - 1], k)
    <3>1. f[k - 1] \in S
      BY <1>t, <2>1
    <3>2. f[k] = T[<<f[k - 1], k>>]
      <4>1. k \in 0 .. L /\ k # 0
        BY <1>t
      <4> HIDE DEF L, S, Look
      <4> QED BY <4>1, <1>3 DEF Loops
    <3> HIDE DEF S, Look
    <3> QED BY <1>2, <3>1, <3>2
  <2>3. f[0] = "scanning"
    <3>1. 0 \in 0 .. L
      BY <1>t
    <3> HIDE DEF L, S, Look
    <3> QED BY <3>1, <1>3 DEF Loops
  <2> HIDE DEF Look
  <2> QED BY <1>t, <2>1, <2>2, <2>3
<1>5. PICK g : /\ g = [k \in 0 .. Len(args) |->
                         IF k = 0 THEN "scanning"
                         ELSE IF g[k - 1] # "scanning" THEN g[k - 1]
                         ELSE IF args[k].kind = "end" THEN "done"
                         ELSE IF /\ Args!Option(args[k])
                                 /\ \/ Args!Denied(args[k].name, disallow, TRUE)
                                    \/ Args!Excepts(disallow) /\ args[k].kind = "cluster"
                              THEN "forbidden" ELSE "scanning"]
               /\ Args!Scan(args, disallow) = g[Len(args)]
  <2>1. f = [k \in 0 .. Len(args) |->
                         IF k = 0 THEN "scanning"
                         ELSE IF f[k - 1] # "scanning" THEN f[k - 1]
                         ELSE IF args[k].kind = "end" THEN "done"
                         ELSE IF /\ Args!Option(args[k])
                                 /\ \/ Args!Denied(args[k].name, disallow, TRUE)
                                    \/ Args!Excepts(disallow) /\ args[k].kind = "cluster"
                              THEN "forbidden" ELSE "scanning"]
    BY <1>4 DEF Bad
  <2> QED BY <2>1 DEF Args!Scan
<1>6. \A k \in 0 .. L : g[k] = IF k = 0 THEN "scanning" ELSE Look(g[k - 1], k)
  BY <1>5 DEF Bad
<1> DEFINE Open(i) == \A j \in 1 .. i : args[j].kind # "end"
           Seen(s, k) ==
             \/ s = "scanning" /\ Open(k) /\ \A i \in 1 .. k : ~Bad(i)
             \/ /\ s = "done"
                /\ \E e \in 1 .. k : args[e].kind = "end" /\ \A i \in 1 .. e - 1 : ~Bad(i)
             \/ s = "forbidden" /\ \E i \in 1 .. k : Bad(i) /\ Open(i)
           I == {k \in Nat : k <= L => Seen(g[k], k)}
<1>7. 0 \in I
  <2>1. g[0] = "scanning"
    BY <1>t, <1>6
  <2> QED BY <2>1
<1>8. ASSUME NEW k \in Nat, k \in I PROVE k + 1 \in I
  <2> SUFFICES ASSUME k + 1 <= L PROVE Seen(g[k + 1], k + 1)
    OBVIOUS
  <2>1. g[k + 1] = Look(g[k], k + 1)
    BY <1>t, <1>6
  <2>2. Seen(g[k], k)
    BY <1>8, <1>t
  <2>3. CASE g[k] # "scanning"
    <3>1. g[k + 1] = g[k]
      BY <2>1, <2>3
    <3> QED BY <2>2, <2>3, <3>1
  <2>4. CASE g[k] = "scanning"
    <3>1. Open(k) /\ \A i \in 1 .. k : ~Bad(i)
      BY <2>2, <2>4
    <3>2. CASE args[k + 1].kind = "end"
      <4>1. g[k + 1] = "done"
        BY <2>1, <2>4, <3>2
      <4> QED BY <3>1, <3>2, <4>1
    <3>3. CASE args[k + 1].kind # "end" /\ Bad(k + 1)
      <4>1. g[k + 1] = "forbidden"
        BY <2>1, <2>4, <3>3
      <4>2. Open(k + 1)
        BY <3>1, <3>3
      <4> QED BY <3>3, <4>1, <4>2
    <3>4. CASE args[k + 1].kind # "end" /\ ~Bad(k + 1)
      <4>1. g[k + 1] = "scanning"
        BY <2>1, <2>4, <3>4
      <4>2. Open(k + 1) /\ \A i \in 1 .. k + 1 : ~Bad(i)
        BY <3>1, <3>4
      <4> QED BY <4>1, <4>2
    <3> QED BY <3>2, <3>3, <3>4
  <2> QED BY <2>3, <2>4
<1>9. Seen(g[L], L)
  <2>1. Nat \subseteq I
    <3> HIDE DEF I
    <3> QED BY <1>7, <1>8, Induction
  <2> QED BY <1>t, <2>1
<1>10. Args!Undenied(args, disallow) <=> ~\E i \in 1 .. L : Bad(i) /\ Open(i)
  BY <1>t, DeniedIsExcluded DEF Args!Undenied, Bad
<1>11. g[L] # "forbidden" <=> ~\E i \in 1 .. L : Bad(i) /\ Open(i)
  <2>1. CASE g[L] = "scanning"
    BY <1>9, <2>1
  <2>2. CASE g[L] = "done"
    <3>1. PICK e \in 1 .. L : args[e].kind = "end" /\ \A i \in 1 .. e - 1 : ~Bad(i)
      BY <1>9, <2>2
    <3>2. ASSUME NEW i \in 1 .. L, Bad(i), Open(i) PROVE FALSE
      <4>1. CASE i < e
        BY <3>1, <3>2, <4>1
      <4>2. CASE e <= i
        BY <1>t, <3>1, <3>2, <4>2
      <4> QED BY <1>t, <4>1, <4>2
    <3> QED BY <2>2, <3>2
  <2>3. CASE g[L] = "forbidden"
    BY <1>9, <2>3
  <2> QED BY <1>9, <2>1, <2>2, <2>3
<1> QED BY <1>5, <1>10, <1>11

LEMMA SameCount == ASSUME NEW S PROVE Args!Cardinality(S) = Cardinality(S)
BY DEF Args!Cardinality, Cardinality

\* A group is what follows its option up to the next one
LEMMA GroupIs ==
  ASSUME NEW Token, NEW args \in Seq(Token), NEW i \in DOMAIN args, NEW n \in Nat,
         i + n <= Len(args), \A j \in i + 1 .. i + n : ~Args!Option(args[j])
  PROVE  LET count == Args!Cardinality(Args!Group(args, i)) IN
         /\ count \in Nat
         /\ i + n = Len(args) => count = n
         /\ i + n < Len(args) /\ Args!Option(args[i + n + 1]) => count = n
         /\ i + n < Len(args) /\ ~Args!Option(args[i + n + 1]) => count > n
<1> DEFINE G == Args!Group(args, i)
           L == Len(args)
<1>t. L \in Nat /\ DOMAIN args = 1 .. L /\ i \in 1 .. L
  OBVIOUS
<1>1. G = {j \in 1 .. L : j > i /\ \A k \in i + 1 .. j : ~Args!Option(args[k])}
  BY <1>t DEF Args!Group
<1>2. G \subseteq i + 1 .. L
  BY <1>1, <1>t
<1>3. ASSUME NEW m \in Nat PROVE IsFiniteSet(i + 1 .. i + m) /\ Cardinality(i + 1 .. i + m) = m
  <2>1. i + 1 \in Int /\ i + m \in Int
    BY <1>t
  <2>2. IsFiniteSet(i + 1 .. i + m)
        /\ Cardinality(i + 1 .. i + m) = IF i + 1 > i + m THEN 0 ELSE (i + m) - (i + 1) + 1
    BY <2>1, FS_Interval
  <2> QED BY <2>2, <1>t
<1>4. IsFiniteSet(G) /\ Cardinality(G) \in Nat
  <2>1. L - i \in Nat /\ i + (L - i) = L
    BY <1>t
  <2>2. IsFiniteSet(i + 1 .. L)
    BY <2>1, <1>3
  <2>3. IsFiniteSet(G)
    BY <1>2, <2>2, FS_Subset
  <2> QED BY <2>3, FS_CardinalityType
<1>5. ASSUME NEW m \in Nat, i + m <= L, \A j \in i + 1 .. i + m : ~Args!Option(args[j])
      PROVE  i + 1 .. i + m \subseteq G
  BY <1>1, <1>5, <1>t
<1>6. ASSUME i + n = L \/ (i + n < L /\ Args!Option(args[i + n + 1])) PROVE G = i + 1 .. i + n
  <2>1. i + 1 .. i + n \subseteq G
    BY <1>5
  <2>2. ASSUME NEW j \in G PROVE j <= i + n
    <3>1. j \in 1 .. L /\ j > i /\ \A k \in i + 1 .. j : ~Args!Option(args[k])
      BY <1>1
    <3>2. SUFFICES ASSUME j > i + n PROVE FALSE
      BY <3>1, <1>t
    <3>3. i + n + 1 \in i + 1 .. j
      BY <3>1, <3>2, <1>t
    <3> QED BY <1>6, <3>1, <3>2, <3>3, <1>t
  <2>3. G \subseteq i + 1 .. i + n
    <3> SUFFICES ASSUME NEW j \in G PROVE j \in i + 1 .. i + n
      OBVIOUS
    <3>1. j \in i + 1 .. L /\ j <= i + n
      BY <1>2, <2>2
    <3> HIDE DEF G, L
    <3> QED BY <3>1, <1>t
  <2> HIDE DEF G
  <2> QED BY <2>1, <2>3
<1>7. ASSUME i + n < L, ~Args!Option(args[i + n + 1]) PROVE Cardinality(G) > n
  <2>1. i + 1 .. i + (n + 1) \subseteq G
    <3>1. \A j \in i + 1 .. i + (n + 1) : ~Args!Option(args[j])
      <4> SUFFICES ASSUME NEW j \in i + 1 .. i + (n + 1) PROVE ~Args!Option(args[j])
        OBVIOUS
      <4>1. j \in i + 1 .. i + n \/ j = i + n + 1
        BY <1>t
      <4> QED BY <4>1, <1>7
    <3> HIDE DEF G
    <3> QED BY <3>1, <1>5, <1>7, <1>t
  <2>2. Cardinality(i + 1 .. i + (n + 1)) <= Cardinality(G)
    BY <1>4, <2>1, FS_Subset
  <2>3. Cardinality(i + 1 .. i + (n + 1)) = n + 1
    BY <1>3
  <2> HIDE DEF G
  <2> QED BY <1>4, <2>2, <2>3
<1> HIDE DEF G, L
<1>8. Args!Cardinality(G) = Cardinality(G)
  BY SameCount
<1>9. i + n = L \/ (i + n < L /\ Args!Option(args[i + n + 1])) => Cardinality(G) = n
  BY <1>6, <1>3
<1> QED BY <1>4, <1>7, <1>8, <1>9 DEF G, L

\* The rules of a policy that compiles
LEMMA RuleTyped ==
  ASSUME NEW Entry, NEW allow, allow.entries \in Seq(Entry), NEW disallow, NEW options,
         Args!Compiles(allow, disallow, options),
         NEW file \in DOMAIN Args!Entries(allow.entries, options)
  PROVE  LET rule == Args!Entries(allow.entries, options)[file] IN
         /\ Args!RuleOk(rule, options)
         /\ Args!Nargs(rule) \in Nat \X BOOLEAN
<1> DEFINE rules == Args!Entries(allow.entries, options)
<1>1. PICK e \in DOMAIN allow.entries : Args!Normalize(allow.entries[e][1], options) = file
  BY DEF Args!Entries
<1>2. Args!EntriesOk(allow.entries, options)
  BY DEF Args!Compiles
<1>3. rules[file] = allow.entries[e][2]
  <2> HIDE DEF rules
  <2> QED BY <1>1, <1>2, EntryOfName DEF rules
<1>4. Args!RuleOk(rules[file], options)
  BY <1>3 DEF Args!Compiles
<1>5. Args!Nargs(rules[file]) \in ((0 .. Args!MaxRules) \X {TRUE}) \cup {<<0, FALSE>>, <<1, FALSE>>}
  BY <1>4 DEF Args!RuleOk
<1>6. Args!MaxRules \in Nat
  BY DEF Args!MaxRules
<1>7. Args!Nargs(rules[file]) \in Nat \X BOOLEAN
  <2> HIDE DEF rules
  <2>1. \A m \in 0 .. Args!MaxRules : m \in Nat
    BY <1>6
  <2>2. CASE Args!Nargs(rules[file]) \in (0 .. Args!MaxRules) \X {TRUE}
    BY <2>1, <2>2
  <2>3. CASE Args!Nargs(rules[file]) \in {<<0, FALSE>>, <<1, FALSE>>}
    <3>1. <<0, FALSE>> \in Nat \X BOOLEAN /\ <<1, FALSE>> \in Nat \X BOOLEAN
      OBVIOUS
    <3> QED BY <2>3, <3>1, Zenon
  <2> QED BY <1>5, <2>2, <2>3
<1> QED BY <1>4, <1>7

LEMMA ValuesLength ==
  ASSUME NEW args, NEW i, NEW n \in Nat
  PROVE  LET attached == Len(Args!Attached(args[i])) IN
         attached \in {0, 1} /\ Len(Args!Values(args, i, n)) = attached + n
<1>1. Len(Args!Attached(args[i])) \in {0, 1} /\ Args!Attached(args[i]) \in Seq({args[i].value})
  <2>1. CASE args[i].value = None
    <3>1. Args!Attached(args[i]) = <<>>
      BY <2>1 DEF Args!Attached
    <3> QED BY <3>1
  <2>2. CASE args[i].value # None
    <3>1. Args!Attached(args[i]) = <<args[i].value>>
      BY <2>2 DEF Args!Attached
    <3> QED BY <3>1
  <2> QED BY <2>1, <2>2
<1>2. [j \in 1 .. n |-> args[i + j].value] \in Seq({args[i + j].value : j \in 1 .. n})
      /\ Len([j \in 1 .. n |-> args[i + j].value]) = n
  OBVIOUS
<1> QED BY <1>1, <1>2 DEF Args!Values

\* An option stands where its rule allows it, among the others
LEMMA StandsIs ==
  ASSUME NEW Entry, NEW allow, allow.entries \in Seq(Entry), NEW disallow,
         Args!Compiles(allow, disallow, TRUE), NEW args, NEW i,
         Args!Cardinality(Args!Group(args, i)) \in Nat
  PROVE  LET rules == Args!Entries(allow.entries, TRUE)
             n == Args!Cardinality(Args!Group(args, i))
         IN Args!Stands(args, i, allow, disallow) <=>
              /\ Args!Allowed(args, i, n, {}, rules, disallow)
              /\ Args!Repeatable(rules[args[i].name])
                 \/ \A j \in DOMAIN args \ {i} :
                      Args!Option(args[j]) => args[j].name # args[i].name
<1> DEFINE rules == Args!Entries(allow.entries, TRUE)
           n == Args!Cardinality(Args!Group(args, i))
           option == args[i].name
           values == Args!Values(args, i, n)
           Alone == \A j \in DOMAIN args \ {i} : Args!Option(args[j]) => args[j].name # option
<1>1. Args!EntriesOk(allow.entries, TRUE)
  BY DEF Args!Compiles
<1>2. ASSUME NEW e \in Args!EntriesFor(option, allow, TRUE)
      PROVE  option \in DOMAIN rules /\ rules[option] = allow.entries[e][2]
  <2>1. e \in DOMAIN allow.entries /\ Args!Normalize(allow.entries[e][1], TRUE) = option
    BY <1>2 DEF Args!EntriesFor
  <2> HIDE DEF rules, option
  <2> QED BY <1>1, <2>1, EntryOfName DEF rules
<1>3. option \in DOMAIN rules => \E e \in Args!EntriesFor(option, allow, TRUE) : TRUE
  BY DEF Args!Entries, Args!EntriesFor
<1>4. Len(values) \in Nat
  <2> HIDE DEF n
  <2>1. n \in Nat
    BY DEF n
  <2> QED BY <2>1, ValuesLength
<1>5. option \in DOMAIN rules => Args!Nargs(rules[option]) \in Nat \X BOOLEAN
  <2> HIDE DEF option
  <2> QED BY RuleTyped
<1>6. Args!Excluded(option, disallow, TRUE) <=> Args!Denied(option, disallow, TRUE)
  BY DeniedIsExcluded
<1> DEFINE R == rules[option]
           Fit == /\ \/ Len(values) = Args!Nargs(R)[1]
                     \/ Len(values) > Args!Nargs(R)[1] /\ ~Args!Nargs(R)[2]
                  /\ \A j \in DOMAIN values : Args!ValueOk(R, values[j])
<1>7. Args!Stands(args, i, allow, disallow) <=>
        /\ ~Args!Denied(option, disallow, TRUE)
        /\ option \in DOMAIN rules /\ Fit
        /\ Args!Repeatable(R) \/ Alone
  <2>1. Args!Stands(args, i, allow, disallow) <=>
          /\ ~Args!Denied(option, disallow, TRUE)
          /\ \E e \in Args!EntriesFor(option, allow, TRUE) :
               /\ Args!Fits(allow.entries[e], values)
               /\ Args!Repeatable(allow.entries[e][2]) \/ Alone
    BY <1>6 DEF Args!Stands
  <2>2. ASSUME NEW e \in Args!EntriesFor(option, allow, TRUE)
        PROVE  /\ option \in DOMAIN rules
               /\ Args!Fits(allow.entries[e], values) <=> Fit
               /\ Args!Repeatable(allow.entries[e][2]) <=> Args!Repeatable(R)
    <3>1. option \in DOMAIN rules /\ R = allow.entries[e][2]
      BY <1>2, <2>2
    <3> HIDE DEF R, values, rules, option
    <3> QED BY <3>1 DEF Args!Fits
  <2> HIDE DEF R, values, rules, option, Alone, Fit
  <2> QED BY <1>3, <2>1, <2>2
<1>8. option \in DOMAIN rules =>
        (Fit <=> /\ Len(values) >= Args!Nargs(R)[1]
                 /\ Args!Nargs(R)[2] => Len(values) = Args!Nargs(R)[1]
                 /\ \A j \in DOMAIN values : Args!ValueOk(R, values[j]))
  <2>1. SUFFICES ASSUME option \in DOMAIN rules
                 PROVE  \/ Len(values) = Args!Nargs(R)[1]
                        \/ Len(values) > Args!Nargs(R)[1] /\ ~Args!Nargs(R)[2]
                        <=> /\ Len(values) >= Args!Nargs(R)[1]
                            /\ Args!Nargs(R)[2] => Len(values) = Args!Nargs(R)[1]
    OBVIOUS
  <2>2. Args!Nargs(R)[1] \in Nat /\ Args!Nargs(R)[2] \in BOOLEAN
    BY <1>5, <2>1
  <2> HIDE DEF R, values
  <2> QED BY <1>4, <2>2
<1>9. Args!Allowed(args, i, n, {}, rules, disallow) <=>
        /\ option \in DOMAIN rules /\ ~Args!Denied(option, disallow, TRUE)
        /\ Len(values) >= Args!Nargs(R)[1]
        /\ Args!Nargs(R)[2] => Len(values) = Args!Nargs(R)[1]
        /\ \A j \in DOMAIN values : Args!ValueOk(R, values[j])
  BY DEF Args!Allowed
<1> HIDE DEF R, values, Alone, Fit
<1> QED BY <1>7, <1>8, <1>9 DEF R, Alone

\* The loops of ArgsPolicy._parse() accept the arguments that stand where the entries say
LEMMA ParseIsLegal ==
  ASSUME NEW Token, NEW args \in Seq(Token), \A a \in Token : a.kind = "plain" => a.name[1] = 0,
         NEW Entry, NEW allow, allow.entries \in Seq(Entry), NEW disallow,
         Args!Compiles(allow, disallow, TRUE)
  PROVE  Args!Parse(args, Args!Entries(allow.entries, TRUE), disallow)
           <=> Args!Legal(args, allow, disallow)
<1> DEFINE L == Len(args)
           rules == Args!Entries(allow.entries, TRUE)
           Legal == Args!Legal(args, allow, disallow)
           Opt(i) == Args!Option(args[i])
           Word(i) == args[i].name
           Good(i) ==
             Args!Allowed(args, i, Args!Cardinality(Args!Group(args, i)), {}, rules, disallow)
           Again(i) == Args!Repeatable(rules[Word(i)])
           S == [index : 1 .. L + 1, seen : SUBSET DOMAIN rules, ok : BOOLEAN]
           After(s) == Args!Round(s, args, rules, disallow)
           T == [p \in S \X (1 .. L) |-> After(p[1])]
           Start == [index |-> 1, seen |-> {}, ok |-> TRUE]
<1>t. L \in Nat /\ DOMAIN args = 1 .. L
  OBVIOUS
<1> HIDE DEF Legal, Opt, Word, Good, Again, rules, L
\* A plain argument is no option of a policy
<1>1. ASSUME NEW i \in 1 .. L, ~Opt(i) PROVE Word(i) \notin DOMAIN rules
  <2>1. args[i].name[1] = 0
    BY <1>t, <1>1 DEF Opt, Args!Option, L
  <2>2. ASSUME NEW e \in DOMAIN allow.entries
        PROVE  Args!Normalize(allow.entries[e][1], TRUE)[1] # 0
    <3>1. CASE allow.entries[e][1][1] = 0
      BY <3>1 DEF Args!Normalize
    <3>2. CASE allow.entries[e][1][1] # 0
      BY <3>2 DEF Args!Normalize
    <3> QED BY <3>1, <3>2
  <2>3. \A file \in DOMAIN rules : file[1] # 0
    BY <2>2 DEF rules, Args!Entries
  <2> QED BY <2>1, <2>3 DEF Word
<1>2. ASSUME NEW i \in 1 .. L, Opt(i), Legal
      PROVE  Good(i) /\ (Again(i) \/ \A j \in 1 .. L : Opt(j) /\ Word(j) = Word(i) => j = i)
  <2>1. Args!Stands(args, i, allow, disallow)
    BY <1>t, <1>2 DEF Legal, Args!Legal, Opt
  <2>2. Args!Cardinality(Args!Group(args, i)) \in Nat
    <3>1. /\ i \in DOMAIN args /\ 0 \in Nat /\ i + 0 <= Len(args)
          /\ \A j \in i + 1 .. i + 0 : ~Args!Option(args[j])
      BY <1>t DEF L
    <3> QED BY <3>1, GroupIs
  <2>3. Good(i) /\ (Again(i) \/ \A j \in DOMAIN args \ {i} :
                                  Args!Option(args[j]) => args[j].name # args[i].name)
    BY <2>1, <2>2, StandsIs DEF Good, Again, rules, Word
  <2> QED BY <1>t, <2>3 DEF Opt, Word
<1>3. ASSUME L > 0 => Opt(1),
             \A i \in 1 .. L : Opt(i) =>
               Good(i) /\ (Again(i) \/ \A j \in 1 .. L : Opt(j) /\ Word(j) = Word(i) => j = i)
      PROVE  Legal
  <2>1. args # <<>> => Args!Option(args[1])
    BY <1>3, <1>t DEF Opt, L
  <2>2. ASSUME NEW i \in DOMAIN args, Args!Option(args[i])
        PROVE  Args!Stands(args, i, allow, disallow)
    <3>1. Args!Cardinality(Args!Group(args, i)) \in Nat
      <4>1. 0 \in Nat /\ i + 0 <= Len(args) /\ \A j \in i + 1 .. i + 0 : ~Args!Option(args[j])
        BY <1>t DEF L
      <4> QED BY <4>1, GroupIs
    <3>2. Good(i) /\ (Again(i) \/ \A j \in 1 .. L : Opt(j) /\ Word(j) = Word(i) => j = i)
      BY <1>t, <1>3, <2>2 DEF Opt
    <3>3. \/ Again(i)
          \/ \A j \in DOMAIN args \ {i} : Args!Option(args[j]) => args[j].name # args[i].name
      BY <1>t, <3>2 DEF Opt, Word
    <3> QED BY <3>1, <3>2, <3>3, StandsIs DEF Good, Again, rules, Word
  <2> QED BY <2>1, <2>2 DEF Legal, Args!Legal
\* What one round of the outer loop does
<1> DEFINE Count(i) == Args!TakenAt(args, i, rules)
           Here(s) == Args!Allowed(args, s.index, Count(s.index), s.seen, rules, disallow)
<1>4. ASSUME NEW i \in 1 .. L, Word(i) \in DOMAIN rules
      PROVE  LET n == Count(i) nargs == Args!Nargs(rules[Word(i)])
                 attached == Len(Args!Attached(args[i])) IN
             /\ n \in Nat /\ i + n <= L /\ nargs \in Nat \X BOOLEAN /\ attached \in Nat
             /\ \A j \in i + 1 .. i + n : ~Opt(j)
             /\ i + n < L => Opt(i + n + 1) \/ (nargs[2] /\ attached + n >= nargs[1])
  <2> DEFINE nargs == Args!Nargs(rules[Word(i)])
             attached == Len(Args!Attached(args[i]))
             n == Args!Taken(args, i + 1, attached, nargs)
  <2>1. nargs \in Nat \X BOOLEAN
    BY <1>4, RuleTyped DEF rules
  <2>2. attached \in Nat
    BY ValuesLength
  <2>3. i + 1 \in 1 .. Len(args) + 1
    BY <1>t DEF L
  <2>4. Count(i) = n
    BY <1>4 DEF Word, Args!TakenAt
  <2> HIDE DEF nargs, attached, Count
  <2>5. /\ n \in Nat /\ i + 1 + n <= Len(args) + 1
        /\ \A j \in i + 1 .. i + 1 + n - 1 : ~Args!Option(args[j])
        /\ i + 1 + n <= Len(args) =>
             Args!Option(args[i + 1 + n]) \/ (nargs[2] /\ attached + n >= nargs[1])
    BY <2>1, <2>2, <2>3, Stops
  <2> HIDE DEF n
  <2>6. /\ i + n <= L /\ i + 1 + n = i + n + 1 /\ i + 1 + n - 1 = i + n
        /\ i + n < L => i + 1 + n <= Len(args)
    BY <1>t, <2>5 DEF L
  <2>7. /\ \A j \in i + 1 .. i + n : ~Opt(j)
        /\ i + n < L => Opt(i + n + 1) \/ (nargs[2] /\ attached + n >= nargs[1])
    BY <2>5, <2>6 DEF Opt
  <2> QED BY <2>1, <2>2, <2>4, <2>5, <2>6, <2>7 DEF nargs, attached
<1> HIDE DEF Count
<1>5. ASSUME NEW s \in S PROVE After(s) \in S
  <2>1. CASE ~s.ok \/ s.index > L
    <3>1. After(s) = s
      BY <2>1 DEF Args!Round, L
    <3> QED BY <3>1
  <2>2. CASE s.ok /\ s.index <= L /\ Here(s)
    <3>1. After(s) = [index |-> s.index + 1 + Count(s.index),
                      seen |-> s.seen \cup {Word(s.index)}, ok |-> TRUE]
      BY <2>2 DEF Args!Round, Count, Word, L
    <3>2. s.index \in 1 .. L /\ Word(s.index) \in DOMAIN rules
      BY <1>t, <2>2 DEF Args!Allowed, Word
    <3>3. Count(s.index) \in Nat /\ s.index + Count(s.index) <= L
      BY <1>4, <3>2
    <3>4. s.index + 1 + Count(s.index) \in 1 .. L + 1
      BY <1>t, <3>2, <3>3
    <3> QED BY <3>1, <3>2, <3>4
  <2>3. CASE s.ok /\ s.index <= L /\ ~Here(s)
    <3>1. After(s) = [s EXCEPT !.ok = FALSE]
      BY <2>3 DEF Args!Round, Count, L
    <3> QED BY <3>1
  <2> QED BY <1>t, <2>1, <2>2, <2>3
<1> DEFINE Facts(s) ==
             /\ s.index > 1 => Opt(1)
             /\ s.seen = {Word(j) : j \in {j \in 1 .. s.index - 1 : Opt(j)}}
             /\ \A i \in 1 .. s.index - 1 : Opt(i) =>
                  Good(i) /\ (Again(i) \/ \A j \in 1 .. i - 1 : Opt(j) => Word(j) # Word(i))
           Parsed(s, k) ==
             IF s.ok
             THEN /\ s.index > k
                  /\ IF s.index <= L /\ ~Opt(s.index) THEN ~Legal ELSE Facts(s)
             ELSE ~Legal
<1>6. ASSUME NEW s \in S, NEW k \in Nat, k + 1 <= L, Parsed(s, k)
      PROVE  Parsed(After(s), k + 1)
  <2> DEFINE i == s.index
             n == Count(i)
  <2>t. i \in 1 .. L + 1 /\ s.ok \in BOOLEAN
    OBVIOUS
  <2>1. CASE ~s.ok
    <3>1. After(s) = s
      BY <2>1 DEF Args!Round
    <3> QED BY <1>6, <2>1, <3>1
  <2>2. CASE s.ok /\ i > L
    <3>1. After(s) = s
      BY <2>2 DEF Args!Round, L
    <3>2. i > k + 1
      BY <1>t, <1>6, <2>t, <2>2
    <3> HIDE DEF Facts
    <3> QED BY <1>6, <2>2, <3>1, <3>2
  <2>3. CASE s.ok /\ i <= L
    <3>t. i \in 1 .. L
      BY <1>t, <2>t, <2>3
    <3>1. Here(s) => After(s) = [index |-> i + 1 + n, seen |-> s.seen \cup {Word(i)}, ok |-> TRUE]
      BY <2>3 DEF Args!Round, Count, Word, L
    <3>2. ~Here(s) => After(s).ok = FALSE
      BY <2>3 DEF Args!Round, Count, L
    <3>3. Here(s) => Word(i) \in DOMAIN rules
      BY DEF Args!Allowed, Word
    <3> HIDE DEF Here, After, n
    <3>4. ASSUME ~Legal, Here(s) => i + n + 1 <= L /\ ~Opt(i + n + 1)
          PROVE  Parsed(After(s), k + 1)
      <4>1. CASE Here(s)
        <5>1. n \in Nat
          BY <1>4, <3>t, <3>3, <4>1 DEF n
        <5>2. After(s).ok = TRUE /\ After(s).index = i + n + 1
          BY <3>1, <3>t, <4>1, <5>1
        <5>3. i + n + 1 > k + 1
          BY <1>6, <2>3, <5>1, <2>t
        <5> HIDE DEF Facts, i
        <5> QED BY <3>4, <4>1, <5>2, <5>3
      <4>2. CASE ~Here(s)
        BY <3>2, <3>4, <4>2
      <4> QED BY <4>1, <4>2
    <3>5. CASE ~Opt(i)
      <4>1. ~Legal
        BY <1>6, <2>3, <3>5
      <4>2. ~Here(s)
        BY <1>1, <3>t, <3>3, <3>5
      <4> QED BY <3>4, <4>1, <4>2
    <3>6. CASE Opt(i) /\ Word(i) \notin DOMAIN rules
      <4>1. ~Good(i)
        BY <3>6 DEF Good, Args!Allowed, Word
      <4>2. ~Legal
        BY <1>2, <3>t, <3>6, <4>1
      <4> QED BY <3>3, <3>4, <3>6, <4>2
    <3>7. CASE Opt(i) /\ Word(i) \in DOMAIN rules
      <4> DEFINE rule == rules[Word(i)]
                 nargs == Args!Nargs(rule)
                 attached == Len(Args!Attached(args[i]))
                 count == Args!Cardinality(Args!Group(args, i))
      <4>1. /\ n \in Nat /\ i + n <= L /\ nargs \in Nat \X BOOLEAN /\ attached \in Nat
            /\ \A j \in i + 1 .. i + n : ~Opt(j)
            /\ i + n < L => Opt(i + n + 1) \/ (nargs[2] /\ attached + n >= nargs[1])
        <5> HIDE DEF i
        <5> QED BY <1>4, <3>t, <3>7 DEF n
      <4>f. Facts(s)
        BY <1>6, <2>3, <3>7
      <4>2. /\ count \in Nat
            /\ i + n = L => count = n
            /\ i + n < L /\ Opt(i + n + 1) => count = n
            /\ i + n < L /\ ~Opt(i + n + 1) => count > n
        <5>1. i \in DOMAIN args /\ n \in Nat /\ i + n <= Len(args)
              /\ \A j \in i + 1 .. i + n : ~Args!Option(args[j])
          BY <1>t, <3>t, <4>1 DEF Opt, L
        <5> HIDE DEF i, count
        <5> QED BY <5>1, GroupIs DEF count, Opt, L
      <4> HIDE DEF count, attached, nargs
      <4>3. CASE i + n < L /\ ~Opt(i + n + 1)
        <5>1. Len(Args!Values(args, i, count)) = attached + count
          <6> HIDE DEF i
          <6> QED BY <4>2, ValuesLength DEF attached
        <5>2. nargs[2] /\ attached + count > nargs[1]
          <6>1. nargs[1] \in Nat
            BY <4>1
          <6> HIDE DEF i
          <6> QED BY <4>1, <4>2, <4>3, <6>1
        <5>3. ~Good(i)
          <6>1. SUFFICES ASSUME Good(i) PROVE FALSE
            OBVIOUS
          <6>2. nargs[2] => attached + count = nargs[1]
            <7> HIDE DEF i
            <7> QED BY <5>1, <6>1 DEF Good, Args!Allowed, Word, nargs, rule, count
          <6>3. nargs[1] \in Nat
            BY <4>1
          <6> HIDE DEF i
          <6> QED BY <4>1, <4>2, <5>2, <6>2, <6>3
        <5>4. ~Legal
          BY <1>2, <3>t, <3>7, <5>3
        <5>5. i + n + 1 <= L
          BY <1>t, <3>t, <4>1, <4>3
        <5> QED BY <3>4, <4>3, <5>4, <5>5
      <4>4. CASE i + n = L \/ (i + n < L /\ Opt(i + n + 1))
        <5>1. count = n
          BY <4>2, <4>4
        <5>2. Here(s) <=> Good(i) /\ (Word(i) \in s.seen => Again(i))
          <6>1. n = Count(s.index)
            BY DEF n
          <6> QED BY <5>1, <6>1 DEF Here, Good, Again, Args!Allowed, Word, count
        <5>3. CASE ~Here(s)
          <6>1. ASSUME Legal PROVE FALSE
            <7>1. Good(i) /\ (Again(i) \/ \A j \in 1 .. L : Opt(j) /\ Word(j) = Word(i) => j = i)
              BY <1>2, <3>t, <3>7, <6>1
            <7>2. Word(i) \in s.seen /\ ~Again(i)
              BY <5>2, <5>3, <7>1
            <7>3. PICK j \in 1 .. i - 1 : Opt(j) /\ Word(j) = Word(i)
              BY <4>f, <7>2
            <7>4. j \in 1 .. L /\ j # i
              BY <1>t, <3>t, <7>3
            <7> QED BY <7>1, <7>2, <7>3, <7>4
          <6> QED BY <3>4, <5>3, <6>1
        <5>4. CASE Here(s)
          <6> DEFINE u == After(s)
          <6>1. u.ok = TRUE /\ u.index = i + n + 1 /\ u.seen = s.seen \cup {Word(i)}
            BY <3>1, <3>t, <4>1, <5>4
          <6> HIDE DEF u
          <6>2. u.index > k + 1
            BY <1>6, <2>3, <2>t, <4>1, <6>1
          <6>3. ~(u.index <= L /\ ~Opt(u.index))
            <7> HIDE DEF i
            <7> QED BY <1>t, <3>t, <4>4, <6>1
          <6>4. \A j \in 1 .. u.index - 1 : Opt(j) => j \in 1 .. i - 1 \/ j = i
            <7> SUFFICES ASSUME NEW j \in 1 .. u.index - 1, Opt(j) PROVE j \in 1 .. i - 1 \/ j = i
              OBVIOUS
            <7>1. j \in 1 .. i + n
              BY <6>1, <4>1, <3>t
            <7>2. j \notin i + 1 .. i + n
              BY <4>1
            <7> QED BY <7>1, <7>2, <3>t, <4>1
          <6>5. Opt(1)
            <7>1. CASE i = 1
              BY <3>7, <7>1
            <7>2. CASE i > 1
              BY <4>f, <7>2
            <7> QED BY <3>t, <7>1, <7>2
          <6>6. u.seen = {Word(j) : j \in {j \in 1 .. u.index - 1 : Opt(j)}}
            <7>1. {j \in 1 .. u.index - 1 : Opt(j)} = {j \in 1 .. i - 1 : Opt(j)} \cup {i}
              <8>1. \A j \in 1 .. i - 1 : j \in 1 .. u.index - 1
                BY <6>1, <4>1, <3>t
              <8>2. i \in 1 .. u.index - 1
                BY <6>1, <4>1, <3>t
              <8> HIDE DEF i
              <8> QED BY <3>7, <6>4, <8>1, <8>2
            <7>2. s.seen = {Word(j) : j \in {j \in 1 .. i - 1 : Opt(j)}}
              BY <4>f
            <7> HIDE DEF i
            <7> QED BY <6>1, <7>1, <7>2
          <6>7. \A j \in 1 .. u.index - 1 : Opt(j) =>
                  Good(j) /\ (Again(j) \/ \A m \in 1 .. j - 1 : Opt(m) => Word(m) # Word(j))
            <7> SUFFICES ASSUME NEW j \in 1 .. u.index - 1, Opt(j)
                         PROVE  /\ Good(j)
                                /\ Again(j) \/ \A m \in 1 .. j - 1 : Opt(m) => Word(m) # Word(j)
              OBVIOUS
            <7>1. CASE j \in 1 .. i - 1
              BY <4>f, <7>1
            <7>2. CASE j = i
              <8>1. Good(i) /\ (Word(i) \in s.seen => Again(i))
                BY <5>2, <5>4
              <8>2. Word(i) \notin s.seen => \A m \in 1 .. i - 1 : Opt(m) => Word(m) # Word(i)
                BY <4>f
              <8> QED BY <7>2, <8>1, <8>2
            <7> QED BY <6>4, <7>1, <7>2
          <6>8. Facts(u)
            BY <6>5, <6>6, <6>7
          <6> HIDE DEF Facts
          <6> QED BY <6>1, <6>2, <6>3, <6>8 DEF u
        <5> QED BY <5>3, <5>4
      <4> QED
        <5> HIDE DEF i, Parsed
        <5> QED BY <1>t, <3>t, <4>1, <4>3, <4>4
    <3> QED BY <3>5, <3>6, <3>7
  <2> QED BY <1>t, <2>t, <2>1, <2>2, <2>3
<1> HIDE DEF After, Here, S
<1>7. Start \in S
  BY <1>t DEF S
<1>8. T \in [S \X (1 .. L) -> S] /\ \A s \in S, k \in 1 .. L : T[<<s, k>>] = After(s)
  BY <1>5
<1>9. PICK f : Loops(f, Start, T, S, L)
  <2> HIDE DEF T, Start
  <2> QED BY <1>t, <1>7, <1>8, Iterates
<1> HIDE DEF T
<1>10. f \in [0 .. L -> S] /\ \A k \in 0 .. L : f[k] = IF k = 0 THEN Start ELSE After(f[k - 1])
  <2> HIDE DEF Start
  <2>1. f \in [0 .. L -> S]
    BY <1>9 DEF Loops
  <2>2. ASSUME NEW k \in 0 .. L, k # 0 PROVE f[k] = After(f[k - 1])
    <3>1. f[k - 1] \in S /\ k \in 1 .. L
      BY <1>t, <2>1, <2>2
    <3>2. f[k] = T[<<f[k - 1], k>>]
      BY <1>9, <2>2 DEF Loops
    <3> QED BY <1>8, <3>1, <3>2
  <2>3. ASSUME NEW k \in 0 .. L, k = 0 PROVE f[k] = Start
    BY <1>9, <2>3 DEF Loops
  <2> QED BY <2>1, <2>2, <2>3
<1>11. PICK g : /\ g = [k \in 0 .. L |-> IF k = 0 THEN Start ELSE After(g[k - 1])]
                /\ Args!Parse(args, rules, disallow) = g[L].ok
  <2>1. f = [k \in 0 .. L |-> IF k = 0 THEN Start ELSE After(f[k - 1])]
    BY <1>10
  <2> QED BY <2>1 DEF Args!Parse, L, Start, After
<1>12. g[0] = Start /\ \A k \in 1 .. L : g[k] = After(g[k - 1])
  <2> HIDE DEF Start
  <2>1. \A k \in 1 .. L : k \in 0 .. L /\ k # 0
    BY <1>t
  <2>2. 0 \in 0 .. L
    BY <1>t
  <2> QED BY <1>11, <2>1, <2>2
<1> DEFINE I == {k \in Nat : k <= L => g[k] \in S /\ Parsed(g[k], k)}
<1>13. 0 \in I
  <2>1. Parsed(Start, 0)
    <3>1. CASE L > 0 /\ ~Opt(1)
      <4>1. ~Legal
        BY <1>t, <3>1 DEF Legal, Args!Legal, Opt, L
      <4> QED BY <4>1, <3>1
    <3>2. CASE ~(L > 0 /\ ~Opt(1))
      BY <1>t, <3>2
    <3> QED BY <3>1, <3>2
  <2> HIDE DEF Start, Parsed
  <2> QED BY <1>7, <1>12, <2>1
<1>14. ASSUME NEW k \in Nat, k \in I PROVE k + 1 \in I
  <2> SUFFICES ASSUME k + 1 <= L PROVE g[k + 1] \in S /\ Parsed(g[k + 1], k + 1)
    OBVIOUS
  <2> HIDE DEF Parsed
  <2>1. g[k] \in S /\ Parsed(g[k], k)
    BY <1>14, <1>t
  <2>2. g[k + 1] = After(g[k])
    <3>1. k + 1 \in 1 .. L /\ k + 1 - 1 = k
      BY <1>t
    <3> QED BY <1>12, <3>1
  <2> QED BY <1>5, <1>6, <2>1, <2>2
<1>15. g[L] \in S /\ Parsed(g[L], L)
  <2>1. Nat \subseteq I
    <3> HIDE DEF I
    <3> QED BY <1>13, <1>14, Induction
  <2> HIDE DEF Parsed
  <2> QED BY <1>t, <2>1
<1>16. g[L].ok <=> Legal
  <2>1. CASE ~g[L].ok
    BY <1>15, <2>1
  <2>2. CASE g[L].ok
    <3>1. g[L].index \in 1 .. L + 1 /\ g[L].index > L
      BY <1>15, <2>2 DEF S
    <3>2. g[L].index = L + 1
      BY <1>t, <3>1
    <3>3. Facts(g[L])
      BY <1>t, <1>15, <2>2, <3>2
    <3>4. \A i \in 1 .. L : Opt(i) =>
             Good(i) /\ (Again(i) \/ \A j \in 1 .. i - 1 : Opt(j) => Word(j) # Word(i))
      BY <1>t, <3>2, <3>3
    <3>5. ASSUME NEW i \in 1 .. L, Opt(i), ~Again(i), NEW j \in 1 .. L, Opt(j), Word(j) = Word(i)
          PROVE  j = i
      <4>1. ~Again(j)
        BY <3>5 DEF Again
      <4>2. CASE j < i
        <5>1. j \in 1 .. i - 1
          BY <1>t, <4>2
        <5> QED BY <3>4, <3>5, <5>1
      <4>3. CASE i < j
        <5>1. i \in 1 .. j - 1
          BY <1>t, <4>3
        <5> QED BY <3>4, <3>5, <4>1, <5>1
      <4> QED BY <1>t, <4>2, <4>3
    <3>6. L > 0 => Opt(1)
      BY <1>t, <3>2, <3>3
    <3>7. Legal
      BY <1>3, <3>4, <3>5, <3>6
    <3> QED BY <2>2, <3>7
  <2> QED BY <2>1, <2>2
<1> QED BY <1>11, <1>16 DEF rules, Legal

\* In an environment a rule names one value
LEMMA EnvIsExact ==
  ASSUME NEW Entry, NEW allow, allow.entries \in Seq(Entry), NEW disallow, NEW env
  PROVE  Args!EnvAsDescribed(env, allow, disallow)
<1> DEFINE rules == Args!Entries(allow.entries, FALSE)
<1>1. SUFFICES ASSUME Args!Compiles(allow, disallow, FALSE), NEW file \in DOMAIN env,
                      allow.kind = "list"
               PROVE  (file \in DOMAIN rules /\ Args!ValueOk(rules[file], env[file])) <=>
                        \E e \in Args!EntriesFor(file, allow, FALSE) :
                          Args!Fits(allow.entries[e], <<env[file]>>)
  <2> HIDE DEF rules
  <2> QED BY DeniedIsExcluded DEF Args!EnvAsDescribed, Args!ValidateEnv, Args!Listed, rules
<1>2. Args!EntriesOk(allow.entries, FALSE)
  BY <1>1 DEF Args!Compiles
<1>3. ASSUME NEW e \in Args!EntriesFor(file, allow, FALSE)
      PROVE  /\ file \in DOMAIN rules
             /\ Args!Fits(allow.entries[e], <<env[file]>>) <=> Args!ValueOk(rules[file], env[file])
  <2>1. e \in DOMAIN allow.entries /\ Args!Normalize(allow.entries[e][1], FALSE) = file
    BY <1>3 DEF Args!EntriesFor
  <2> HIDE DEF rules
  <2>2. file \in DOMAIN rules /\ rules[file] = allow.entries[e][2]
    BY <1>2, <2>1, EntryOfName DEF rules
  <2>3. Args!RuleOk(rules[file], FALSE)
    BY <1>1, <2>2, RuleTyped DEF rules
  <2>4. Args!Nargs(rules[file]) = <<1, TRUE>>
    <3>1. "nargs" \notin DOMAIN rules[file]
      BY <2>3 DEF Args!RuleOk
    <3> QED BY <3>1 DEF Args!Nargs, Args!Field
  <2>5. Args!Fits(allow.entries[e], <<env[file]>>) <=> Args!ValueOk(rules[file], env[file])
    BY <2>2, <2>4 DEF Args!Fits
  <2> QED BY <2>2, <2>5
<1>4. file \in DOMAIN rules => \E e \in Args!EntriesFor(file, allow, FALSE) : TRUE
  BY DEF Args!Entries, Args!EntriesFor
<1> HIDE DEF rules
<1> QED BY <1>3, <1>4

LEMMA ArgsAreExact ==
  ASSUME NEW Token, NEW args \in Seq(Token), \A a \in Token : a.kind = "plain" => a.name[1] = 0,
         NEW Entry, NEW allow, allow.entries \in Seq(Entry), allow.kind \in {"all", "none", "list"},
         NEW disallow
  PROVE  Args!ArgsAsDescribed(args, allow, disallow)
<1> DEFINE rules == Args!Entries(allow.entries, TRUE)
<1> DEFINE Described ==
             \/ args = <<>>
             \/ allow.kind = "all" /\ disallow.kind # "all" /\ Args!Undenied(args, disallow)
             \/ Args!Listed(allow) /\ disallow.kind # "all" /\ Args!Legal(args, allow, disallow)
<1>1. SUFFICES ASSUME Args!Compiles(allow, disallow, TRUE)
               PROVE  Args!ValidateArgs(args, allow, disallow) <=> Described
  BY DEF Args!ArgsAsDescribed
<1>2. Args!Scan(args, disallow) # "forbidden" <=> Args!Undenied(args, disallow)
  BY Scanned
<1>3. Args!Parse(args, rules, disallow) <=> Args!Legal(args, allow, disallow)
  BY <1>1, ParseIsLegal
<1>4. args = <<>> => Args!Undenied(args, disallow) /\ Args!Legal(args, allow, disallow)
  BY DEF Args!Undenied, Args!Legal
<1>5. Args!ValidateArgs(args, allow, disallow) <=>
        /\ args # <<>> => allow.kind # "none" /\ disallow.kind # "all"
        /\ allow.kind = "all" => Args!Undenied(args, disallow)
        /\ Args!Listed(allow) => Args!Legal(args, allow, disallow)
  BY <1>2, <1>3 DEF Args!ValidateArgs
<1> QED BY <1>4, <1>5 DEF Args!Listed

\* Policies accept the arguments and the environments that their entries describe and no
\* other: ArgsPolicy and EnvPolicy, for every policy that compiles, arguments of every
\* length, rules with every count, and whatever the engine makes of the values.
THEOREM PoliciesAreExact ==
  ASSUME NEW Token, \A a \in Token : a.kind = "plain" => a.name[1] = 0, NEW Entry,
         input.op \in {"args", "env"} =>
           input.allow.entries \in Seq(Entry) /\ input.allow.kind \in {"all", "none", "list"},
         input.op = "args" => input.args \in Seq(Token)
  PROVE  PoliciesExact
<1>1. input.op = "args" => Args!ArgsAsDescribed(input.args, input.allow, input.disallow)
  BY ArgsAreExact
<1>2. input.op = "env" => Args!EnvAsDescribed(input.env, input.allow, input.disallow)
  BY EnvIsExact
<1> QED BY <1>1, <1>2 DEF PoliciesExact

-----------------------------------------------------------------------------
(* Loops over sequences, and what they make of a sequence and one element  *)
(* more.                                                                   *)

LEMMA SeqInduction ==
  ASSUME NEW E, NEW P, <<>> \in P, \A s \in Seq(E), x \in E : s \in P => Append(s, x) \in P
  PROVE  Seq(E) \subseteq P
<1> DEFINE I == {n \in Nat : \A s \in Seq(E) : Len(s) = n => s \in P}
<1>1. 0 \in I
  OBVIOUS
<1>2. ASSUME NEW n \in Nat, n \in I PROVE n + 1 \in I
  <2> SUFFICES ASSUME NEW s \in Seq(E), Len(s) = n + 1 PROVE s \in P
    OBVIOUS
  <2> DEFINE r == SubSeq(s, 1, n)
             x == s[n + 1]
  <2>1. r \in Seq(E) /\ Len(r) = n /\ x \in E
    OBVIOUS
  <2>2. s = Append(r, x)
    OBVIOUS
  <2>3. r \in P
    BY <1>2, <2>1
  <2> HIDE DEF r, x
  <2> QED BY <2>1, <2>2, <2>3
<1>3. Nat \subseteq I
  <2> HIDE DEF I
  <2> QED BY <1>1, <1>2, Induction
<1> QED
  <2> SUFFICES ASSUME NEW s \in Seq(E) PROVE s \in P
    OBVIOUS
  <2>1. Len(s) \in I
    BY <1>3
  <2> QED BY <2>1

\* f is what a loop over the elements of l makes of b
Folds(f, b, T, l) == f[0] = b /\ \A k \in 1 .. Len(l) : f[k] = T[<<f[k - 1], l[k]>>]

LEMMA FoldExists ==
  ASSUME NEW S, NEW E, NEW T \in [S \X E -> S], NEW b \in S, NEW l \in Seq(E)
  PROVE  \E f \in [0 .. Len(l) -> S] : Folds(f, b, T, l)
<1> DEFINE N == Len(l)
           U == [p \in S \X (1 .. N) |-> T[<<p[1], l[p[2]]>>]]
<1>1. N \in Nat /\ \A k \in 1 .. N : l[k] \in E
  OBVIOUS
<1>2. U \in [S \X (1 .. N) -> S]
  BY <1>1
<1>3. \A s \in S, k \in 1 .. N : U[<<s, k>>] = T[<<s, l[k]>>]
  OBVIOUS
<1> HIDE DEF U, N
<1>4. PICK f : Loops(f, b, U, S, N)
  BY <1>1, <1>2, Iterates
<1>5. f \in [0 .. N -> S]
  BY <1>4 DEF Loops
<1>6. ASSUME NEW k \in 1 .. N PROVE f[k] = T[<<f[k - 1], l[k]>>]
  <2>1. k \in 0 .. N /\ k # 0 /\ k - 1 \in 0 .. N
    BY <1>1
  <2>2. f[k] = U[<<f[k - 1], k>>] /\ f[k - 1] \in S
    BY <1>4, <1>5, <2>1 DEF Loops
  <2> QED BY <1>3, <2>2
<1>7. f[0] = b
  <2>1. 0 \in 0 .. N
    BY <1>1
  <2> QED BY <1>4, <2>1 DEF Loops
<1> QED BY <1>5, <1>6, <1>7 DEF Folds, N

\* l and m have the same first n elements
Agree(l, m, n) == /\ Len(l) \in Nat /\ Len(m) \in Nat /\ n \in Nat /\ n <= Len(l) /\ n <= Len(m)
                  /\ \A k \in 1 .. n : l[k] = m[k]

LEMMA FoldOnce ==
  ASSUME NEW b, NEW T, NEW l, NEW m, NEW f, NEW g, NEW n,
         Folds(f, b, T, l), Folds(g, b, T, m), Agree(l, m, n)
  PROVE  f[n] = g[n]
<1> DEFINE I == {k \in Nat : k <= n => f[k] = g[k]}
<1>1. 0 \in I
  BY DEF Folds
<1>2. ASSUME NEW k \in Nat, k \in I PROVE k + 1 \in I
  <2> SUFFICES ASSUME k + 1 <= n PROVE f[k + 1] = g[k + 1]
    OBVIOUS
  <2>1. k + 1 \in 1 .. n /\ k + 1 \in 1 .. Len(l) /\ k + 1 \in 1 .. Len(m) /\ (k + 1) - 1 = k
    BY DEF Agree
  <2>2. f[k] = g[k]
    BY <1>2, <2>1 DEF Agree
  <2>3. /\ f[k + 1] = T[<<f[(k + 1) - 1], l[k + 1]>>]
        /\ g[k + 1] = T[<<g[(k + 1) - 1], m[k + 1]>>]
    BY <2>1 DEF Folds
  <2>4. l[k + 1] = m[k + 1]
    BY <2>1 DEF Agree
  <2> QED BY <2>1, <2>2, <2>3, <2>4
<1> HIDE DEF I
<1>3. Nat \subseteq I
  BY <1>1, <1>2, Induction
<1> QED BY <1>3 DEF I, Agree

LEMMA FoldAppend ==
  ASSUME NEW b, NEW T, NEW E, NEW l \in Seq(E), NEW x \in E, NEW f, NEW g,
         Folds(f, b, T, l), Folds(g, b, T, Append(l, x))
  PROVE  g[Len(l) + 1] = T[<<f[Len(l)], x>>]
<1> DEFINE n == Len(l)
           m == Append(l, x)
<1>1. n \in Nat /\ Len(m) = n + 1 /\ m[n + 1] = x /\ \A k \in 1 .. n : l[k] = m[k]
  OBVIOUS
<1>2. Folds(g, b, T, m)
  OBVIOUS
<1>3. Agree(l, m, n)
  <2> HIDE DEF m
  <2> QED BY <1>1 DEF Agree
<1> HIDE DEF m, n
<1>4. f[n] = g[n]
  BY <1>2, <1>3, FoldOnce
<1>5. n + 1 \in 1 .. Len(m) /\ (n + 1) - 1 = n
  BY <1>1
<1>6. g[n + 1] = T[<<g[(n + 1) - 1], m[n + 1]>>]
  BY <1>2, <1>5 DEF Folds
<1> QED BY <1>1, <1>4, <1>5, <1>6 DEF n

\* g goes as a loop does while it is in S
Stays(g, b, T, l, S) ==
  g[0] = b /\ \A k \in 1 .. Len(l) : g[k - 1] \in S => g[k] = T[<<g[k - 1], l[k]>>]

\* A loop that stays in a set
LEMMA FoldTyped ==
  ASSUME NEW S, NEW E, NEW T \in [S \X E -> S], NEW b \in S, NEW l \in Seq(E), NEW g,
         Stays(g, b, T, l, S)
  PROVE  Folds(g, b, T, l) /\ g[Len(l)] \in S
<1> DEFINE I == {k \in Nat : k <= Len(l) => g[k] \in S}
<1>1. 0 \in I
  BY DEF Stays
<1>2. ASSUME NEW k \in Nat, k \in I PROVE k + 1 \in I
  <2> SUFFICES ASSUME k + 1 <= Len(l) PROVE g[k + 1] \in S
    OBVIOUS
  <2>1. k + 1 \in 1 .. Len(l) /\ (k + 1) - 1 = k /\ g[k] \in S /\ l[k + 1] \in E
    BY <1>2
  <2>2. g[k + 1] = T[<<g[k], l[k + 1]>>]
    BY <2>1 DEF Stays
  <2> QED BY <2>1, <2>2
<1> HIDE DEF I
<1>3. Nat \subseteq I
  BY <1>1, <1>2, Induction
<1>4. ASSUME NEW k \in 1 .. Len(l) PROVE g[k] = T[<<g[k - 1], l[k]>>]
  <2>1. k - 1 \in Nat /\ k - 1 <= Len(l)
    OBVIOUS
  <2> QED BY <1>3, <2>1 DEF I, Stays
<1> QED BY <1>3, <1>4 DEF I, Folds, Stays

\* What FlattenSeq() makes of sequences is what a loop that joins them makes
Joins(E) == [p \in Seq(E) \X Seq(E) |-> p[1] \o p[2]]

LEMMA JoinsTyped ==
  ASSUME NEW E
  PROVE  /\ Joins(E) \in [Seq(E) \X Seq(E) -> Seq(E)]
         /\ \A a, b \in Seq(E) : Joins(E)[<<a, b>>] = a \o b
<1>1. \A p \in Seq(E) \X Seq(E) : p[1] \o p[2] \in Seq(E)
  OBVIOUS
<1>2. \A a, b \in Seq(E) : Joins(E)[<<a, b>>] = a \o b
  BY DEF Joins
<1> QED BY <1>1, <1>2 DEF Joins

LEMMA FlattenFolds ==
  ASSUME NEW E, NEW s \in Seq(Seq(E))
  PROVE  /\ Lib!FlattenSeq(s) \in Seq(E)
         /\ \E f : Folds(f, <<>>, Joins(E), s) /\ Lib!FlattenSeq(s) = f[Len(s)]
<1> DEFINE N == Len(s)
<1>1. /\ Joins(E) \in [Seq(E) \X Seq(E) -> Seq(E)]
      /\ \A a, b \in Seq(E) : Joins(E)[<<a, b>>] = a \o b
  BY JoinsTyped
<1>t. <<>> \in Seq(E) /\ N \in Nat /\ \A k \in 1 .. N : s[k] \in Seq(E)
  OBVIOUS
<1>2. CASE N = 0
  <2>1. Lib!FlattenSeq(s) = <<>>
    BY <1>2 DEF Lib!FlattenSeq
  <2> DEFINE f == [k \in {0} |-> <<>>]
  <2>2. f[0] = <<>>
    OBVIOUS
  <2> HIDE DEF f
  <2>3. Folds(f, <<>>, Joins(E), s)
    BY <1>2, <2>2 DEF Folds
  <2>4. Lib!FlattenSeq(s) = f[Len(s)]
    BY <1>2, <2>1, <2>2
  <2> QED BY <1>t, <2>1, <2>3, <2>4
<1>3. CASE N # 0
  <2>t. N \in Nat \ {0} /\ 0 \in 0 .. N /\ N \in 1 .. N /\ \A k \in 1 .. N : k \in 0 .. N
        /\ k - 1 \in 0 .. N
    BY <1>t, <1>3
  <2>1. PICK h \in [0 .. N -> Seq(E)] : Folds(h, <<>>, Joins(E), s)
    BY <1>t, <1>1, FoldExists
  <2>0. h[0] = <<>> /\ \A k \in 1 .. N : h[k] = Joins(E)[<<h[k - 1], s[k]>>]
    BY <2>1 DEF Folds
  <2> HIDE DEF N
  <2>2. ASSUME NEW k \in 1 .. N PROVE h[k] = IF k = 1 THEN s[k] ELSE h[k - 1] \o s[k]
    <3>1. h[k - 1] \in Seq(E) /\ s[k] \in Seq(E)
      BY <1>t, <2>t
    <3>2. h[k] = h[k - 1] \o s[k]
      BY <1>1, <2>0, <3>1
    <3>3. k = 1 => h[k - 1] = <<>>
      BY <2>0
    <3>4. <<>> \o s[k] = s[k]
      BY <3>1
    <3> QED BY <3>2, <3>3, <3>4
  <2> DEFINE r == [k \in 1 .. N |-> h[k]]
  <2>3. r = [k \in 1 .. N |-> IF k = 1 THEN s[k] ELSE r[k - 1] \o s[k]]
    <3>1. ASSUME NEW k \in 1 .. N PROVE r[k] = IF k = 1 THEN s[k] ELSE r[k - 1] \o s[k]
      <4>1. r[k] = h[k]
        OBVIOUS
      <4>2. k # 1 => r[k - 1] = h[k - 1]
        BY <2>t
      <4> HIDE DEF r
      <4> QED BY <2>2, <4>1, <4>2
    <3>2. r = [k \in 1 .. N |-> r[k]]
      OBVIOUS
    <3> HIDE DEF r
    <3> QED BY <3>1, <3>2
  <2> HIDE DEF r
  <2>4. PICK g : /\ g = [k \in 1 .. N |-> IF k = 1 THEN s[k] ELSE g[k - 1] \o s[k]]
                 /\ Lib!FlattenSeq(s) = g[N]
    BY <1>3, <2>3 DEF Lib!FlattenSeq, N
  <2> DEFINE f == [k \in 0 .. N |-> IF k = 0 THEN <<>> ELSE g[k]]
  <2>5. f[0] = <<>> /\ f[N] = g[N] /\ \A k \in 1 .. N : f[k] = g[k]
        /\ (k # 1 => f[k - 1] = g[k - 1])
    BY <2>t
  <2>6. \A k \in 1 .. N : g[k] = IF k = 1 THEN s[k] ELSE g[k - 1] \o s[k]
    BY <2>4
  <2> HIDE DEF f
  <2>7. ASSUME NEW k \in 1 .. N, f[k - 1] \in Seq(E) PROVE f[k] = Joins(E)[<<f[k - 1], s[k]>>]
    <3>1. s[k] \in Seq(E)
      BY <1>t
    <3>2. f[k] = f[k - 1] \o s[k]
      <4>1. CASE k = 1
        <5>1. f[k] = s[k] /\ f[k - 1] = <<>>
          BY <2>5, <2>6, <4>1
        <5>2. <<>> \o s[k] = s[k]
          BY <3>1
        <5> QED BY <5>1, <5>2
      <4>2. CASE k # 1
        BY <2>5, <2>6, <4>2
      <4> QED BY <4>1, <4>2
    <3> QED BY <1>1, <2>7, <3>1, <3>2
  <2>8. Folds(f, <<>>, Joins(E), s) /\ f[N] \in Seq(E)
    <3>1. Stays(f, <<>>, Joins(E), s, Seq(E))
      BY <2>5, <2>7 DEF N, Stays
    <3> QED BY <1>1, <1>t, <3>1, FoldTyped DEF N
  <2> QED BY <2>4, <2>5, <2>8 DEF N
<1> QED BY <1>2, <1>3

LEMMA FlattenEmpty == Lib!FlattenSeq(<<>>) = <<>>
BY DEF Lib!FlattenSeq

LEMMA FlattenAppend ==
  ASSUME NEW E, NEW s \in Seq(Seq(E)), NEW x \in Seq(E)
  PROVE  Lib!FlattenSeq(s) \in Seq(E) /\ Lib!FlattenSeq(Append(s, x)) = Lib!FlattenSeq(s) \o x
<1> DEFINE m == Append(s, x)
<1>1. m \in Seq(Seq(E)) /\ Len(m) = Len(s) + 1
  OBVIOUS
<1>2. PICK f : Folds(f, <<>>, Joins(E), s) /\ Lib!FlattenSeq(s) = f[Len(s)]
  BY FlattenFolds
<1>3. PICK g : Folds(g, <<>>, Joins(E), m) /\ Lib!FlattenSeq(m) = g[Len(m)]
  <2> HIDE DEF m
  <2> QED BY <1>1, FlattenFolds
<1>4. Lib!FlattenSeq(s) \in Seq(E)
  BY FlattenFolds
<1>5. Joins(E)[<<Lib!FlattenSeq(s), x>>] = Lib!FlattenSeq(s) \o x
  BY <1>4, JoinsTyped
<1>6. g[Len(s) + 1] = Joins(E)[<<f[Len(s)], x>>]
  BY <1>2, <1>3, FoldAppend
<1> QED BY <1>1, <1>2, <1>3, <1>4, <1>5, <1>6

LEMMA FlattenConcat ==
  ASSUME NEW E, NEW s \in Seq(Seq(E)), NEW t \in Seq(Seq(E))
  PROVE  Lib!FlattenSeq(s \o t) = Lib!FlattenSeq(s) \o Lib!FlattenSeq(t)
<1> DEFINE F(x) == Lib!FlattenSeq(x)
           P == {x \in Seq(Seq(E)) : F(s \o x) = F(s) \o F(x)}
<1>1. \A x \in Seq(Seq(E)) : F(x) \in Seq(E)
  BY FlattenFolds
<1>2. <<>> \in P
  <2>1. s \o <<>> = s
    OBVIOUS
  <2>2. F(<<>>) = <<>>
    BY FlattenEmpty
  <2> HIDE DEF F
  <2> QED BY <1>1, <2>1, <2>2
<1>3. ASSUME NEW x \in Seq(Seq(E)), NEW y \in Seq(E), x \in P PROVE Append(x, y) \in P
  <2>1. s \o Append(x, y) = Append(s \o x, y) /\ s \o x \in Seq(Seq(E))
        /\ Append(x, y) \in Seq(Seq(E))
    OBVIOUS
  <2>2. F(Append(s \o x, y)) = F(s \o x) \o y /\ F(Append(x, y)) = F(x) \o y
    <3> HIDE DEF P
    <3> QED BY <2>1, FlattenAppend
  <2>3. (F(s) \o F(x)) \o y = F(s) \o (F(x) \o y)
    <3>1. F(s) \in Seq(E) /\ F(x) \in Seq(E)
      BY <1>1
    <3> HIDE DEF F, P
    <3> QED BY <3>1, ConcatAssociative
  <2> HIDE DEF F
  <2> QED BY <1>3, <2>1, <2>2, <2>3
<1>4. Seq(Seq(E)) \subseteq P
  <2> HIDE DEF P
  <2> QED BY <1>2, <1>3, SeqInduction
<1> QED BY <1>4

-----------------------------------------------------------------------------
(* linesubst(): what the machine makes of a line that is written piece by  *)
(* piece.                                                                  *)

LeftBrace == "{"
RightBrace == "}"

\* Characters, of which the values of variables are
Signs(Sign) ==
  /\ {LeftBrace, RightBrace, Lib!Backslash} \subseteq Sign
  /\ \A n \in DOMAIN Variables : Variables[n] \in Seq(Sign)

In(st, out, curvar) == [st |-> st, out |-> out, curvar |-> curvar]
LineStates(Sign) ==
  [st : {"NORM", "LIT", "ONE", "TWO", "TLIT", "TERM"}, out : Seq(Sign), curvar : Seq(Sign)]

\* Each state of the machine
LEMMA CharNorm ==
  ASSUME NEW o, NEW v, NEW c
  PROVE  /\ c = LeftBrace => Lib!Char(In("NORM", o, v), c) = In("ONE", o, v)
         /\ c = Lib!Backslash => Lib!Char(In("NORM", o, v), c) = In("LIT", o, v)
         /\ c \notin {LeftBrace, Lib!Backslash}
              => Lib!Char(In("NORM", o, v), c) = In("NORM", o \o <<c>>, v)
<1> DEFINE s == In("NORM", o, v)
<1>1. s.st = "NORM" /\ s.curvar = v /\ Lib!Backslash # LeftBrace /\ Lib!Backslash # RightBrace
  BY DEF In, Lib!Backslash, LeftBrace, RightBrace
<1>2. /\ c = LeftBrace => Lib!Char(s, c) = Lib!To(s, "ONE")
      /\ c = Lib!Backslash => Lib!Char(s, c) = Lib!To(s, "LIT")
      /\ c \notin {LeftBrace, Lib!Backslash} => Lib!Char(s, c) = Lib!Out(s, <<c>>)
  <2> HIDE DEF s
  <2> QED BY <1>1 DEF Lib!Char, LeftBrace, RightBrace
<1> QED BY <1>2 DEF In, Lib!To, Lib!Out, Lib!Name, LeftBrace, RightBrace

LEMMA CharLit ==
  ASSUME NEW o, NEW v, NEW c
  PROVE  Lib!Char(In("LIT", o, v), c) = In("NORM", o \o <<c>>, v)
<1> DEFINE s == In("LIT", o, v)
<1>1. s.st = "LIT" /\ s.curvar = v /\ Lib!Backslash # LeftBrace /\ Lib!Backslash # RightBrace
  BY DEF In, Lib!Backslash, LeftBrace, RightBrace
<1>2. Lib!Char(s, c) = Lib!Out(s, <<c>>)
  <2> HIDE DEF s
  <2> QED BY <1>1 DEF Lib!Char, LeftBrace, RightBrace
<1> QED BY <1>2 DEF In, Lib!To, Lib!Out, Lib!Name, LeftBrace, RightBrace

LEMMA CharOne ==
  ASSUME NEW o, NEW v, NEW c
  PROVE  /\ c = LeftBrace => Lib!Char(In("ONE", o, v), c) = In("TWO", o, v)
         /\ c = Lib!Backslash => Lib!Char(In("ONE", o, v), c) = In("LIT", o \o <<LeftBrace>>, v)
         /\ c \notin {LeftBrace, Lib!Backslash}
              => Lib!Char(In("ONE", o, v), c) = In("NORM", o \o <<LeftBrace, c>>, v)
<1> DEFINE s == In("ONE", o, v)
<1>1. s.st = "ONE" /\ s.curvar = v /\ Lib!Backslash # LeftBrace /\ Lib!Backslash # RightBrace
  BY DEF In, Lib!Backslash, LeftBrace, RightBrace
<1>2. /\ c = LeftBrace => Lib!Char(s, c) = Lib!To(s, "TWO")
      /\ c = Lib!Backslash => Lib!Char(s, c) = Lib!To(Lib!Out(s, <<LeftBrace>>), "LIT")
      /\ c \notin {LeftBrace, Lib!Backslash} => Lib!Char(s, c) = Lib!Out(s, <<LeftBrace, c>>)
  <2> HIDE DEF s
  <2> QED BY <1>1 DEF Lib!Char, LeftBrace, RightBrace
<1> QED BY <1>2 DEF In, Lib!To, Lib!Out, Lib!Name, LeftBrace, RightBrace

LEMMA CharTwo ==
  ASSUME NEW o, NEW v, NEW c
  PROVE  /\ c = Lib!Backslash => Lib!Char(In("TWO", o, v), c) = In("TLIT", o, v)
         /\ c = RightBrace => Lib!Char(In("TWO", o, v), c) = In("TERM", o, v)
         /\ c \notin {RightBrace, Lib!Backslash}
              => Lib!Char(In("TWO", o, v), c) = In("TWO", o, v \o <<c>>)
<1> DEFINE s == In("TWO", o, v)
<1>1. s.st = "TWO" /\ s.curvar = v /\ Lib!Backslash # LeftBrace /\ Lib!Backslash # RightBrace
  BY DEF In, Lib!Backslash, LeftBrace, RightBrace
<1>2. /\ c = Lib!Backslash => Lib!Char(s, c) = Lib!To(s, "TLIT")
      /\ c = RightBrace => Lib!Char(s, c) = Lib!To(s, "TERM")
      /\ c \notin {RightBrace, Lib!Backslash} => Lib!Char(s, c) = Lib!Name(s, <<c>>)
  <2> HIDE DEF s
  <2> QED BY <1>1 DEF Lib!Char, LeftBrace, RightBrace
<1> QED BY <1>2 DEF In, Lib!To, Lib!Out, Lib!Name, LeftBrace, RightBrace

LEMMA CharTlit ==
  ASSUME NEW o, NEW v, NEW c
  PROVE  Lib!Char(In("TLIT", o, v), c) = In("TWO", o, v \o <<c>>)
<1> DEFINE s == In("TLIT", o, v)
<1>1. s.st = "TLIT" /\ s.curvar = v /\ Lib!Backslash # LeftBrace /\ Lib!Backslash # RightBrace
  BY DEF In, Lib!Backslash, LeftBrace, RightBrace
<1>2. Lib!Char(s, c) = Lib!Name(s, <<c>>)
  <2> HIDE DEF s
  <2> QED BY <1>1 DEF Lib!Char, LeftBrace, RightBrace
<1> QED BY <1>2 DEF In, Lib!To, Lib!Out, Lib!Name, LeftBrace, RightBrace

LEMMA CharTerm ==
  ASSUME NEW o, NEW v, NEW c
  PROVE  /\ c = RightBrace => Lib!Char(In("TERM", o, v), c) = In("NORM", o \o Lib!Value(v), <<>>)
         /\ c = Lib!Backslash => Lib!Char(In("TERM", o, v), c) = In("TLIT", o, v \o <<RightBrace>>)
         /\ c \notin {RightBrace, Lib!Backslash}
              => Lib!Char(In("TERM", o, v), c) = In("TWO", o, v \o <<RightBrace, c>>)
<1> DEFINE s == In("TERM", o, v)
<1>1. s.st = "TERM" /\ s.curvar = v /\ Lib!Backslash # LeftBrace /\ Lib!Backslash # RightBrace
  BY DEF In, Lib!Backslash, LeftBrace, RightBrace
<1>2. /\ c = RightBrace => Lib!Char(s, c) = [Lib!Out(s, Lib!Value(v)) EXCEPT !.curvar = <<>>]
      /\ c = Lib!Backslash => Lib!Char(s, c) = Lib!To(Lib!Name(s, <<RightBrace>>), "TLIT")
      /\ c \notin {RightBrace, Lib!Backslash} => Lib!Char(s, c) = Lib!Name(s, <<RightBrace, c>>)
  <2> HIDE DEF s
  <2> QED BY <1>1 DEF Lib!Char, LeftBrace, RightBrace
<1> QED BY <1>2 DEF In, Lib!To, Lib!Out, Lib!Name, LeftBrace, RightBrace

LEMMA ValueTyped == ASSUME NEW Sign, Signs(Sign), NEW v PROVE Lib!Value(v) \in Seq(Sign)
<1>1. CASE v \in DOMAIN Variables
  BY <1>1 DEF Signs, Lib!Value
<1>2. CASE v \notin DOMAIN Variables
  BY <1>2 DEF Lib!Value
<1> QED BY <1>1, <1>2

LEMMA CharStays ==
  ASSUME NEW Sign, Signs(Sign), NEW s \in LineStates(Sign), NEW c \in Sign
  PROVE  Lib!Char(s, c) \in LineStates(Sign)
<1> DEFINE o == s.out  v == s.curvar
<1>1. o \in Seq(Sign) /\ v \in Seq(Sign) /\ s = In(s.st, o, v)
      /\ s.st \in {"NORM", "LIT", "ONE", "TWO", "TLIT", "TERM"}
  BY DEF LineStates, In
<1>2. /\ <<c>> \in Seq(Sign) /\ <<LeftBrace, c>> \in Seq(Sign) /\ <<RightBrace, c>> \in Seq(Sign)
      /\ <<LeftBrace>> \in Seq(Sign) /\ <<RightBrace>> \in Seq(Sign) /\ <<>> \in Seq(Sign)
  <2>1. LeftBrace \in Sign /\ RightBrace \in Sign
    BY DEF Signs
  <2>2. \A x \in Sign : <<x>> \in Seq(Sign)
    OBVIOUS
  <2>3. \A x, y \in Sign : <<x, y>> \in Seq(Sign)
    OBVIOUS
  <2>4. <<>> \in Seq(Sign)
    OBVIOUS
  <2> QED BY <2>1, <2>2, <2>3, <2>4
<1> HIDE DEF o, v
<1>3. Lib!Value(v) \in Seq(Sign)
  BY ValueTyped
<1>4. \A t \in Seq(Sign) : o \o t \in Seq(Sign) /\ v \o t \in Seq(Sign)
  BY <1>1
<1>c. /\ o \o <<c>> \in Seq(Sign) /\ o \o <<LeftBrace>> \in Seq(Sign)
           /\ o \o <<LeftBrace, c>> \in Seq(Sign)
      /\ o \o Lib!Value(v) \in Seq(Sign)
      /\ v \o <<c>> \in Seq(Sign) /\ v \o <<RightBrace>> \in Seq(Sign)
           /\ v \o <<RightBrace, c>> \in Seq(Sign)
  BY <1>2, <1>3, <1>4
<1>5. \A p \in {"NORM", "LIT", "ONE", "TWO", "TLIT", "TERM"}, x, y \in Seq(Sign) :
        In(p, x, y) \in LineStates(Sign)
  BY DEF In, LineStates
<1>6. CASE s.st = "NORM"
  <2>1. s = In("NORM", o, v)
    BY <1>1, <1>6
  <2>2. Lib!Char(s, c) \in {In("ONE", o, v), In("LIT", o, v),
                            In("NORM", o \o <<c>>, v)}
    BY <2>1, CharNorm
  <2> QED BY <1>1, <1>2, <1>5, <1>c, <2>2, ZenonT(60)
<1>7. CASE s.st = "LIT"
  <2>1. s = In("LIT", o, v)
    BY <1>1, <1>7
  <2>2. Lib!Char(s, c) = In("NORM", o \o <<c>>, v)
    BY <2>1, CharLit
  <2> QED BY <1>1, <1>2, <1>5, <1>c, <2>2
<1>8. CASE s.st = "ONE"
  <2>1. s = In("ONE", o, v)
    BY <1>1, <1>8
  <2>2. Lib!Char(s, c) \in {In("TWO", o, v), In("LIT", o \o <<LeftBrace>>, v),
                            In("NORM", o \o <<LeftBrace, c>>, v)}
    BY <2>1, CharOne
  <2> QED BY <1>1, <1>2, <1>5, <1>c, <2>2, ZenonT(60)
<1>9. CASE s.st = "TWO"
  <2>1. s = In("TWO", o, v)
    BY <1>1, <1>9
  <2>2. Lib!Char(s, c) \in {In("TLIT", o, v), In("TERM", o, v),
                            In("TWO", o, v \o <<c>>)}
    BY <2>1, CharTwo
  <2> QED BY <1>1, <1>2, <1>5, <1>c, <2>2
<1>10. CASE s.st = "TLIT"
  <2>1. s = In("TLIT", o, v)
    BY <1>1, <1>10
  <2>2. Lib!Char(s, c) = In("TWO", o, v \o <<c>>)
    BY <2>1, CharTlit
  <2> QED BY <1>1, <1>2, <1>5, <1>c, <2>2
<1>11. CASE s.st = "TERM"
  <2>1. s = In("TERM", o, v)
    BY <1>1, <1>11
  <2>2. Lib!Char(s, c) \in {In("NORM", o \o Lib!Value(v), <<>>), In("TLIT", o, v \o <<RightBrace>>),
                            In("TWO", o, v \o <<RightBrace, c>>)}
    BY <2>1, CharTerm
  <2> QED BY <1>1, <1>2, <1>5, <1>c, <2>2, ZenonT(60)
<1> QED BY <1>1, <1>6, <1>7, <1>8, <1>9, <1>10, <1>11

Reads(Sign) == [p \in LineStates(Sign) \X Sign |-> Lib!Char(p[1], p[2])]

LEMMA ReadsTyped ==
  ASSUME NEW Sign, Signs(Sign)
  PROVE  /\ Reads(Sign) \in [LineStates(Sign) \X Sign -> LineStates(Sign)]
         /\ \A s \in LineStates(Sign), c \in Sign : Reads(Sign)[<<s, c>>] = Lib!Char(s, c)
<1>1. \A p \in LineStates(Sign) \X Sign : Lib!Char(p[1], p[2]) \in LineStates(Sign)
  BY CharStays
<1>2. \A s \in LineStates(Sign), c \in Sign : Reads(Sign)[<<s, c>>] = Lib!Char(s, c)
  BY DEF Reads
<1> QED BY <1>1, <1>2 DEF Reads

LEMMA RunFolds ==
  ASSUME NEW Sign, Signs(Sign), NEW l \in Seq(Sign)
  PROVE  /\ Lib!Run(l) \in LineStates(Sign)
         /\ \E f : Folds(f, In("NORM", <<>>, <<>>), Reads(Sign), l) /\ Lib!Run(l) = f[Len(l)]
<1> DEFINE b == In("NORM", <<>>, <<>>)
           S == LineStates(Sign)
           N == Len(l)
<1>1. Reads(Sign) \in [S \X Sign -> S]
      /\ \A s \in S, c \in Sign : Reads(Sign)[<<s, c>>] = Lib!Char(s, c)
  BY ReadsTyped
<1>2. b \in S /\ b = [st |-> "NORM", out |-> <<>>, curvar |-> <<>>]
  BY DEF In, LineStates
<1>3. N \in Nat /\ \A k \in 1 .. N : l[k] \in Sign
  OBVIOUS
<1> HIDE DEF b, S, N
<1>4. PICK h \in [0 .. N -> S] : Folds(h, b, Reads(Sign), l)
  BY <1>1, <1>2, FoldExists DEF N
<1>5. h[0] = b /\ \A k \in 1 .. N : h[k] = Reads(Sign)[<<h[k - 1], l[k]>>]
  BY <1>4 DEF Folds, N
<1>6. \A k \in 0 .. N : k # 0 => k \in 1 .. N /\ k - 1 \in 0 .. N
  BY <1>3
<1>7. ASSUME NEW k \in 0 .. N, k # 0 PROVE h[k] = Lib!Char(h[k - 1], l[k])
  <2>1. h[k - 1] \in S /\ l[k] \in Sign
    BY <1>3, <1>6, <1>7
  <2> QED BY <1>1, <1>5, <1>6, <1>7, <2>1
<1>8. h = [k \in 0 .. N |-> IF k = 0 THEN b ELSE Lib!Char(h[k - 1], l[k])]
  <2>1. h = [k \in 0 .. N |-> h[k]]
    OBVIOUS
  <2> QED BY <1>5, <1>7, <2>1
<1>9. PICK g : /\ g = [k \in 0 .. N |-> IF k = 0 THEN b ELSE Lib!Char(g[k - 1], l[k])]
               /\ Lib!Run(l) = g[N]
  BY <1>2, <1>8 DEF Lib!Run, N
<1>10. g[0] = b /\ \A k \in 1 .. N : g[k] = Lib!Char(g[k - 1], l[k])
  <2>1. 0 \in 0 .. N /\ \A k \in 1 .. N : k \in 0 .. N /\ k # 0
    BY <1>3
  <2> QED BY <1>9, <2>1
<1>11. Stays(g, b, Reads(Sign), l, S)
  BY <1>1, <1>3, <1>10 DEF Stays, N
<1>12. Folds(g, b, Reads(Sign), l) /\ g[Len(l)] \in S
  BY <1>1, <1>2, <1>11, FoldTyped
<1> QED BY <1>9, <1>12 DEF N, S, b

LEMMA RunEmpty == Lib!Run(<<>>) = In("NORM", <<>>, <<>>)
<1>1. <<>> \in Seq({}) /\ Len(<<>>) = 0
  OBVIOUS
<1>2. PICK g :
           /\ g = [k \in 0 .. Len(<<>>) |->
                    IF k = 0 THEN [st |-> "NORM", out |-> <<>>, curvar |-> <<>>]
                    ELSE Lib!Char(g[k - 1], <<>>[k])]
           /\ Lib!Run(<<>>) = g[Len(<<>>)]
  <2> DEFINE h == [k \in 0 .. Len(<<>>) |-> [st |-> "NORM", out |-> <<>>, curvar |-> <<>>]]
  <2>1. h = [k \in 0 .. Len(<<>>) |-> IF k = 0 THEN [st |-> "NORM", out |-> <<>>, curvar |-> <<>>]
                                        ELSE Lib!Char(h[k - 1], <<>>[k])]
    BY <1>1
  <2> HIDE DEF h
  <2> QED BY <2>1 DEF Lib!Run
<1> QED BY <1>1, <1>2 DEF In

LEMMA RunAppend ==
  ASSUME NEW Sign, Signs(Sign), NEW l \in Seq(Sign), NEW c \in Sign
  PROVE  Lib!Run(l) \in LineStates(Sign) /\ Lib!Run(Append(l, c)) = Lib!Char(Lib!Run(l), c)
<1> DEFINE m == Append(l, c)
           b == In("NORM", <<>>, <<>>)
<1>1. m \in Seq(Sign) /\ Len(m) = Len(l) + 1
  OBVIOUS
<1>2. PICK f : Folds(f, b, Reads(Sign), l) /\ Lib!Run(l) = f[Len(l)]
  <2> HIDE DEF b
  <2> QED BY RunFolds DEF b
<1>3. PICK g : Folds(g, b, Reads(Sign), m) /\ Lib!Run(m) = g[Len(m)]
  <2> HIDE DEF m, b
  <2> QED BY <1>1, RunFolds DEF b
<1>4. Lib!Run(l) \in LineStates(Sign)
  BY RunFolds
<1>5. Reads(Sign)[<<Lib!Run(l), c>>] = Lib!Char(Lib!Run(l), c)
  BY <1>4, ReadsTyped
<1> HIDE DEF b
<1>6. g[Len(l) + 1] = Reads(Sign)[<<f[Len(l)], c>>]
  BY <1>2, <1>3, FoldAppend
<1> QED BY <1>1, <1>2, <1>3, <1>4, <1>5, <1>6

\* One or two characters more
LEMMA Joined ==
  ASSUME NEW E, NEW s \in Seq(E), NEW x \in E, NEW y \in E
  PROVE  /\ s \o <<x>> = Append(s, x) /\ s \o <<x, y>> = Append(Append(s, x), y)
         /\ (s \o <<x>>) \o <<y>> = s \o <<x, y>>
<1>1. s \o <<x>> = Append(s, x) /\ s \o <<x, y>> = Append(Append(s, x), y)
      /\ Append(s, x) \in Seq(E)
  OBVIOUS
<1>2. Append(s, x) \o <<y>> = Append(Append(s, x), y)
  BY <1>1
<1> QED BY <1>1, <1>2

LEMMA RunOneMore ==
  ASSUME NEW Sign, Signs(Sign), NEW l \in Seq(Sign), NEW c \in Sign
  PROVE  Lib!Run(l \o <<c>>) = Lib!Char(Lib!Run(l), c)
<1>1. l \o <<c>> = Append(l, c)
  BY Joined
<1> QED BY <1>1, RunAppend

LEMMA RunTwoMore ==
  ASSUME NEW Sign, Signs(Sign), NEW l \in Seq(Sign), NEW c \in Sign, NEW d \in Sign
  PROVE  Lib!Run(l \o <<c, d>>) = Lib!Char(Lib!Char(Lib!Run(l), c), d)
<1>1. l \o <<c, d>> = Append(Append(l, c), d) /\ Append(l, c) \in Seq(Sign)
  BY Joined
<1>2. Lib!Run(Append(l, c)) = Lib!Char(Lib!Run(l), c)
  BY RunAppend
<1>3. Lib!Run(Append(Append(l, c), d)) = Lib!Char(Lib!Run(Append(l, c)), d)
  BY <1>1, RunAppend
<1> QED BY <1>1, <1>2, <1>3

LEMMA PlainIs ==
  ASSUME NEW Sign, NEW s \in Seq(Sign)
  PROVE  Lib!Plain(s) <=> /\ \A i \in 1 .. Len(s) : s[i] # Lib!Backslash
                          /\ \A i \in 1 .. Len(s) - 1 :
                               <<s[i], s[i + 1]>> # <<LeftBrace, LeftBrace>>
<1>1. ASSUME NEW i \in 1 .. Len(s) - 1 PROVE SubSeq(s, i, i + 1) = <<s[i], s[i + 1]>>
  <2> DEFINE t == SubSeq(s, i, i + 1)
  <2>1. i \in 1 .. Len(s) /\ i + 1 \in 1 .. Len(s)
    OBVIOUS
  <2>2. t \in Seq(Sign) /\ Len(t) = 2
    BY <2>1
  <2>3. t[1] = s[i] /\ t[2] = s[i + 1]
    BY <2>1
  <2> HIDE DEF t
  <2>4. t = <<t[1], t[2]>>
    BY <2>2
  <2> QED BY <2>3, <2>4 DEF t
<1>2. Lib!Backslash \notin Lib!ToSet(s) <=> \A i \in 1 .. Len(s) : s[i] # Lib!Backslash
  <2>1. DOMAIN s = 1 .. Len(s)
    OBVIOUS
  <2> QED BY <2>1 DEF Lib!ToSet
<1> QED BY <1>1, <1>2 DEF Lib!Plain, LeftBrace

\* A line that is returned as it is would come out as it is
LEMMA ShortcutIsNone ==
  ASSUME NEW Sign, Signs(Sign), NEW line \in Seq(Sign), Lib!Plain(line)
  PROVE  \/ Lib!Run(line) = In("NORM", line, <<>>)
         \/ \E o \in Seq(Sign) : Lib!Run(line) = In("ONE", o, <<>>) /\ line = Append(o, LeftBrace)
<1> DEFINE Same(l) == \/ Lib!Run(l) = In("NORM", l, <<>>)
                      \/ \E o \in Seq(Sign) : Lib!Run(l) = In("ONE", o, <<>>)
                           /\ l = Append(o, LeftBrace)
           P == {l \in Seq(Sign) : Lib!Plain(l) => Same(l)}
<1>1. <<>> \in P
  <2>1. <<>> \in Seq(Sign)
    OBVIOUS
  <2>2. Same(<<>>)
    BY RunEmpty
  <2> QED BY <2>1, <2>2
<1>2. ASSUME NEW l \in Seq(Sign), NEW c \in Sign, l \in P PROVE Append(l, c) \in P
  <2> DEFINE m == Append(l, c)
             n == Len(l)
  <2>0. m \in Seq(Sign) /\ (Lib!Plain(l) => Same(l))
    <3>1. m \in Seq(Sign)
      OBVIOUS
    <3> HIDE DEF Same, m
    <3> QED BY <1>2, <3>1
  <2> HIDE DEF m, Same
  <2> SUFFICES ASSUME Lib!Plain(m) PROVE Same(m)
    BY <2>0 DEF m
  <2> USE DEF m, Same
  <2>1. /\ n \in Nat /\ m \in Seq(Sign) /\ Len(m) = n + 1 /\ m[n + 1] = c
        /\ \A i \in 1 .. n : m[i] = l[i]
    OBVIOUS
  <2> HIDE DEF m, n
  <2>4. /\ \A i \in 1 .. n + 1 : m[i] # Lib!Backslash
        /\ \A i \in 1 .. n : <<m[i], m[i + 1]>> # <<LeftBrace, LeftBrace>>
    <3>1. /\ \A i \in 1 .. Len(m) : m[i] # Lib!Backslash
          /\ \A i \in 1 .. Len(m) - 1 : <<m[i], m[i + 1]>> # <<LeftBrace, LeftBrace>>
      BY <2>1, PlainIs
    <3>2. Len(m) = n + 1 /\ Len(m) - 1 = n
      BY <2>1
    <3> QED BY <3>1, <3>2
  <2>5. c # Lib!Backslash
    <3>1. n + 1 \in 1 .. n + 1
      BY <2>1
    <3> QED BY <2>1, <2>4, <3>1
  <2>6. Lib!Plain(l)
    <3>1. ASSUME NEW i \in 1 .. n PROVE l[i] # Lib!Backslash
      <4>1. i \in 1 .. n + 1 /\ m[i] = l[i]
        BY <2>1
      <4> QED BY <2>4, <4>1
    <3>2. ASSUME NEW i \in 1 .. n - 1 PROVE <<l[i], l[i + 1]>> # <<LeftBrace, LeftBrace>>
      <4>0. i \in 1 .. n /\ i + 1 \in 1 .. n
        BY <2>1
      <4>1. l[i] = m[i] /\ l[i + 1] = m[i + 1] /\ i \in 1 .. n
        BY <2>1, <4>0
      <4> QED BY <2>4, <4>1
    <3> QED BY <3>1, <3>2, PlainIs DEF n
  <2>7. Lib!Run(m) = Lib!Char(Lib!Run(l), c)
    BY RunAppend DEF m
  <2>8. CASE Lib!Run(l) = In("NORM", l, <<>>)
    <3>1. CASE c = LeftBrace
      <4>1. Lib!Run(m) = In("ONE", l, <<>>)
        BY <2>7, <2>8, <3>1, CharNorm
      <4> QED BY <3>1, <4>1 DEF m
    <3>2. CASE c # LeftBrace
      <4>1. Lib!Run(m) = In("NORM", l \o <<c>>, <<>>)
        BY <2>5, <2>7, <2>8, <3>2, CharNorm
      <4>2. l \o <<c>> = m
        BY DEF m
      <4> QED BY <4>1, <4>2
    <3> QED BY <3>1, <3>2
  <2>9. ASSUME NEW o \in Seq(Sign), Lib!Run(l) = In("ONE", o, <<>>), l = Append(o, LeftBrace)
        PROVE  Same(m)
    <3>1. n \in 1 .. n /\ l[n] = LeftBrace
      <4>0. LeftBrace \in Sign
        BY DEF Signs
      <4>1. Len(o) \in Nat
        OBVIOUS
      <4>2. \A x \in Sign : Len(Append(o, x)) = Len(o) + 1 /\ Append(o, x)[Len(o) + 1] = x
        OBVIOUS
      <4>3. Len(Append(o, LeftBrace)) = Len(o) + 1 /\ Append(o, LeftBrace)[Len(o) + 1] = LeftBrace
        BY <4>0, <4>2
      <4>4. n = Len(o) + 1
        BY <2>9, <4>3 DEF n
      <4>5. l[n] = LeftBrace
        BY <2>9, <4>3, <4>4
      <4>6. n \in 1 .. n
        BY <4>1, <4>4
      <4> QED BY <4>5, <4>6
    <3>2. c # LeftBrace
      <4>1. <<m[n], m[n + 1]>> # <<LeftBrace, LeftBrace>>
        BY <2>4, <3>1
      <4> QED BY <2>1, <3>1, <4>1
    <3>3. Lib!Run(m) = In("NORM", o \o <<LeftBrace, c>>, <<>>)
      BY <2>5, <2>7, <2>9, <3>2, CharOne
    <3>4. LeftBrace \in Sign
      BY DEF Signs
    <3>5. o \o <<LeftBrace, c>> = m
      <4>1. o \o <<LeftBrace, c>> = Append(Append(o, LeftBrace), c)
        <5>2. \A x, y \in Sign : o \o <<x, y>> = Append(Append(o, x), y)
          OBVIOUS
        <5> QED BY <3>4, <5>2
      <4> QED BY <2>9, <4>1 DEF m
    <3> QED BY <3>3, <3>5
  <2> QED BY <2>0, <2>6, <2>8, <2>9
<1>3. Seq(Sign) \subseteq P
  <2> HIDE DEF P
  <2> QED BY <1>1, <1>2, SeqInduction
<1> QED BY <1>3

\* A name, each of its characters escaped or not, and how its first n are written
Escaped(word, escaped, n) ==
  [i \in 1 .. n |-> IF word[i] \in escaped THEN <<Lib!Backslash, word[i]>> ELSE <<word[i]>>]
Writes(word, escaped, n) == Lib!FlattenSeq(Escaped(word, escaped, n))

LEMMA WritesMore ==
  ASSUME NEW Sign, Signs(Sign), NEW word \in Seq(Sign), NEW escaped, NEW n \in Nat
  PROVE  /\ n <= Len(word) => Writes(word, escaped, n) \in Seq(Sign)
         /\ n + 1 <= Len(word) =>
              Writes(word, escaped, n + 1) = Writes(word, escaped, n) \o
                (IF word[n + 1] \in escaped THEN <<Lib!Backslash, word[n + 1]>>
                 ELSE <<word[n + 1]>>)
<1>b. Lib!Backslash \in Sign
  BY DEF Signs
<1>1. ASSUME NEW i \in 1 .. Len(word)
      PROVE  (IF word[i] \in escaped THEN <<Lib!Backslash, word[i]>> ELSE <<word[i]>>) \in Seq(Sign)
  <2>1. word[i] \in Sign
    OBVIOUS
  <2>2. <<Lib!Backslash, word[i]>> \in Seq(Sign) /\ <<word[i]>> \in Seq(Sign)
    BY <1>b, <2>1
  <2> QED BY <2>2
<1>2. ASSUME NEW k \in Nat, k <= Len(word) PROVE Escaped(word, escaped, k) \in Seq(Seq(Sign))
  <2>1. \A i \in 1 .. k : i \in 1 .. Len(word)
    BY <1>2
  <2>2. Escaped(word, escaped, k) \in [1 .. k -> Seq(Sign)]
    BY <1>1, <2>1 DEF Escaped
  <2> QED BY <2>2
<1>3. n <= Len(word) => Writes(word, escaped, n) \in Seq(Sign)
  BY <1>2, FlattenFolds DEF Writes
<1>4. SUFFICES ASSUME n + 1 <= Len(word)
      PROVE Writes(word, escaped, n + 1) = Writes(word, escaped, n) \o
                (IF word[n + 1] \in escaped THEN <<Lib!Backslash, word[n + 1]>>
                 ELSE <<word[n + 1]>>)
  BY <1>3
<1> DEFINE x == IF word[n + 1] \in escaped THEN <<Lib!Backslash, word[n + 1]>> ELSE <<word[n + 1]>>
           s == Escaped(word, escaped, n)
           t == Escaped(word, escaped, n + 1)
<1>5. x \in Seq(Sign) /\ s \in Seq(Seq(Sign)) /\ n <= Len(word) /\ t \in Seq(Seq(Sign))
  <2>1. n + 1 \in 1 .. Len(word) /\ n <= Len(word) /\ n + 1 \in Nat
    BY <1>4
  <2> HIDE DEF s, t
  <2> QED BY <1>1, <1>2, <1>4, <2>1 DEF s, t
<1>6. t = Append(s, x)
  <2>1. Len(s) = n /\ Len(t) = n + 1 /\ t[n + 1] = x /\ \A i \in 1 .. n : t[i] = s[i]
    <3>1. n + 1 \in 1 .. n + 1 /\ \A i \in 1 .. n : i \in 1 .. n + 1
      OBVIOUS
    <3>2. Len(s) = n /\ Len(t) = n + 1
      BY DEF Escaped
    <3> QED BY <3>1, <3>2 DEF Escaped
  <2> HIDE DEF s, t, x
  <2> QED BY <1>5, <2>1
<1> HIDE DEF s, t, x
<1>7. Lib!FlattenSeq(Append(s, x)) = Lib!FlattenSeq(s) \o x
  BY <1>5, FlattenAppend
<1> QED BY <1>6, <1>7 DEF Writes, s, t, x

\* Whether a name that is escaped so ends where its braces do
Escapes(word, escaped) ==
  \A i \in 1 .. Len(word) : word[i] \notin escaped =>
    /\ word[i] # Lib!Backslash
    /\ word[i] = RightBrace => i < Len(word) /\ word[i + 1] # RightBrace

\* The machine while it reads a name: a brace that may end it is not in the name yet
LEMMA NameRuns ==
  ASSUME NEW Sign, Signs(Sign), NEW word \in Seq(Sign), NEW escaped, Escapes(word, escaped),
         NEW l \in Seq(Sign), NEW o \in Seq(Sign), Lib!Run(l) = In("TWO", o, <<>>)
  PROVE  Lib!Run(l \o Writes(word, escaped, Len(word))) = In("TWO", o, word)
<1> DEFINE W(n) == Writes(word, escaped, n)
           N(n) == SubSeq(word, 1, n)
           Reading(n) ==
             \/ Lib!Run(l \o W(n)) = In("TWO", o, N(n))
             \/ /\ n > 0 /\ word[n] = RightBrace /\ word[n] \notin escaped
                /\ Lib!Run(l \o W(n)) = In("TERM", o, N(n - 1))
           I == {n \in Nat : n <= Len(word) => Reading(n)}
<1>t. Len(word) \in Nat /\ Lib!Backslash \in Sign /\ \A n \in 1 .. Len(word) : word[n] \in Sign
  <2>1. Lib!Backslash \in Sign
    BY DEF Signs
  <2> QED BY <2>1
<1>a. \A s, t, u \in Seq(Sign) : (s \o t) \o u = s \o (t \o u)
  BY ConcatAssociative
<1>j. \A s \in Seq(Sign), x, y \in Sign : (s \o <<x>>) \o <<y>> = s \o <<x, y>>
  <2> SUFFICES ASSUME NEW s \in Seq(Sign), NEW x \in Sign, NEW y \in Sign
               PROVE  (s \o <<x>>) \o <<y>> = s \o <<x, y>>
    OBVIOUS
  <2> DEFINE q == Append(s, x)
  <2>1. q \in Seq(Sign) /\ s \o <<x>> = q /\ s \o <<x, y>> = Append(q, y)
    OBVIOUS
  <2> HIDE DEF q, W, N
  <2>2. q \o <<y>> = Append(q, y)
    BY <2>1
  <2> QED BY <2>1, <2>2
<1>r. \A s \in Seq(Sign), x, y \in Sign :
        Lib!Run(s \o <<x, y>>) = Lib!Char(Lib!Char(Lib!Run(s), x), y)
  <2> SUFFICES ASSUME NEW s \in Seq(Sign), NEW x \in Sign, NEW y \in Sign
               PROVE  Lib!Run(s \o <<x, y>>) = Lib!Char(Lib!Char(Lib!Run(s), x), y)
    OBVIOUS
  <2> HIDE DEF W, N
  <2> QED BY RunTwoMore
<1>n. \A n \in Nat : n <= Len(word) =>
        /\ N(n) \in Seq(Sign)
        /\ n > 0 => N(n) = N(n - 1) \o <<word[n]>>
  OBVIOUS
<1>e. N(Len(word)) = word /\ N(0) = <<>>
  OBVIOUS
<1>w. \A n \in Nat : n <= Len(word) => W(n) \in Seq(Sign)
  BY WritesMore
<1>0. W(0) = <<>>
  <2>1. Escaped(word, escaped, 0) = <<>>
    BY DEF Escaped
  <2> QED BY <2>1, FlattenEmpty DEF Writes
<1>1. 0 \in I
  <2>1. l \o <<>> = l
    OBVIOUS
  <2>2. Lib!Run(l \o W(0)) = In("TWO", o, N(0))
    <3> HIDE DEF W, N
    <3> QED BY <1>0, <1>e, <2>1
  <2> HIDE DEF W, N
  <2> QED BY <2>2
<1>2. ASSUME NEW n \in Nat, n \in I PROVE n + 1 \in I
  <2> SUFFICES ASSUME n + 1 <= Len(word) PROVE Reading(n + 1)
    OBVIOUS
  <2> DEFINE c == word[n + 1]
  <2>1. n + 1 \in 1 .. Len(word) /\ c \in Sign /\ n <= Len(word) /\ (n + 1) - 1 = n /\ n + 1 > 0
        /\ n + 1 \in Nat
    BY <1>t
  <2>2. Reading(n)
    BY <1>2, <2>1
  <2>3. W(n) \in Seq(Sign) /\ l \o W(n) \in Seq(Sign)
    <3>1. W(n) \in Seq(Sign)
      BY <1>w, <2>1
    <3> HIDE DEF W
    <3> QED BY <3>1
  <2>4. c \notin escaped
          => /\ c # Lib!Backslash
             /\ (c = RightBrace => n + 1 < Len(word) /\ word[(n + 1) + 1] # RightBrace)
    BY <2>1 DEF Escapes
  <2>5. (n > 0 /\ word[n] = RightBrace /\ word[n] \notin escaped) => c # RightBrace
    <3> SUFFICES ASSUME n > 0, word[n] = RightBrace, word[n] \notin escaped PROVE c # RightBrace
      OBVIOUS
    <3>1. n \in 1 .. Len(word)
      BY <2>1
    <3> QED BY <3>1 DEF Escapes
  <2>6. N(n + 1) = N(n) \o <<c>> /\ N(n) \in Seq(Sign)
    <3> HIDE DEF N
    <3> QED BY <1>n, <2>1
  <2>7. (n > 0 /\ word[n] = RightBrace)
          => N(n) = N(n - 1) \o <<RightBrace>> /\ N(n + 1) = N(n - 1) \o <<RightBrace, c>>
    <3> SUFFICES ASSUME n > 0, word[n] = RightBrace
                 PROVE  N(n) = N(n - 1) \o <<RightBrace>>
                        /\ N(n + 1) = N(n - 1) \o <<RightBrace, c>>
      OBVIOUS
    <3>1. n - 1 \in Nat /\ n - 1 <= Len(word)
      BY <2>1
    <3>2. N(n) = N(n - 1) \o <<word[n]>> /\ N(n - 1) \in Seq(Sign)
      <4> HIDE DEF N
      <4> QED BY <1>n, <2>1, <3>1
    <3>3. word[n] \in Sign
      BY <1>t, <2>1
    <3> HIDE DEF N
    <3>4. (N(n - 1) \o <<word[n]>>) \o <<c>> = N(n - 1) \o <<word[n], c>>
      BY <1>j, <2>1, <3>2, <3>3
    <3>5. N(n + 1) = N(n - 1) \o <<word[n], c>>
      BY <2>6, <3>2, <3>4
    <3> QED BY <3>2, <3>5
  <2>w. W(n + 1) = W(n) \o (IF c \in escaped THEN <<Lib!Backslash, c>> ELSE <<c>>)
    <3> HIDE DEF N
    <3> QED BY <2>1, WritesMore
  <2> HIDE DEF N, c
  <2> DEFINE r == Lib!Run(l \o W(n))
  <2>8. CASE c \in escaped
    <3>1. l \o W(n + 1) = (l \o W(n)) \o <<Lib!Backslash, c>>
      <4> HIDE DEF W
      <4>1. W(n + 1) = W(n) \o <<Lib!Backslash, c>>
        BY <2>8, <2>w
      <4>2. <<Lib!Backslash, c>> \in Seq(Sign)
        BY <1>t, <2>1
      <4>3. (l \o W(n)) \o <<Lib!Backslash, c>> = l \o (W(n) \o <<Lib!Backslash, c>>)
        BY <1>a, <2>3, <4>2
      <4> QED BY <4>1, <4>3
    <3>2. Lib!Run(l \o W(n + 1)) = Lib!Char(Lib!Char(r, Lib!Backslash), c)
      <4> DEFINE s == l \o W(n)
      <4>1. s \in Seq(Sign) /\ c \in Sign /\ Lib!Backslash \in Sign
        BY <1>t, <2>1, <2>3
      <4> HIDE DEF s
      <4>2. Lib!Run(s \o <<Lib!Backslash, c>>) = Lib!Char(Lib!Char(Lib!Run(s), Lib!Backslash), c)
        BY <1>r, <4>1
      <4> QED BY <3>1, <4>2 DEF s
    <3> HIDE DEF W
    <3>3. Lib!Run(l \o W(n + 1)) = In("TWO", o, N(n + 1))
      <4>1. CASE r = In("TWO", o, N(n))
        <5>1. Lib!Char(r, Lib!Backslash) = In("TLIT", o, N(n))
          BY <4>1, CharTwo
        <5>2. Lib!Char(In("TLIT", o, N(n)), c) = In("TWO", o, N(n) \o <<c>>)
          BY CharTlit
        <5> QED BY <2>6, <3>2, <5>1, <5>2
      <4>2. CASE n > 0 /\ word[n] = RightBrace /\ word[n] \notin escaped
            /\ r = In("TERM", o, N(n - 1))
        <5>1. Lib!Char(r, Lib!Backslash) = In("TLIT", o, N(n - 1) \o <<RightBrace>>)
          BY <4>2, CharTerm
        <5>2. Lib!Char(In("TLIT", o, N(n)), c) = In("TWO", o, N(n) \o <<c>>)
          BY CharTlit
        <5> QED BY <2>6, <2>7, <3>2, <4>2, <5>1, <5>2
      <4> QED BY <2>2, <4>1, <4>2
    <3> QED BY <3>3
  <2>9. CASE c \notin escaped
    <3>1. l \o W(n + 1) = (l \o W(n)) \o <<c>>
      <4> HIDE DEF W
      <4>1. W(n + 1) = W(n) \o <<c>>
        BY <2>9, <2>w
      <4>2. <<c>> \in Seq(Sign)
        BY <2>1
      <4>3. (l \o W(n)) \o <<c>> = l \o (W(n) \o <<c>>)
        BY <1>a, <2>3, <4>2
      <4> QED BY <4>1, <4>3
    <3>2. Lib!Run(l \o W(n + 1)) = Lib!Char(r, c)
      <4> HIDE DEF W
      <4> QED BY <1>t, <2>1, <2>3, <3>1, RunOneMore
    <3> HIDE DEF W
    <3>3. CASE r = In("TWO", o, N(n))
      <4>1. CASE c = RightBrace
        <5>1. Lib!Run(l \o W(n + 1)) = In("TERM", o, N(n))
          BY <3>2, <3>3, <4>1, CharTwo
        <5> QED BY <2>1, <2>9, <4>1, <5>1 DEF c
      <4>2. CASE c # RightBrace
        <5>1. Lib!Run(l \o W(n + 1)) = In("TWO", o, N(n) \o <<c>>)
          BY <2>4, <2>9, <3>2, <3>3, <4>2, CharTwo
        <5> QED BY <2>6, <5>1
      <4> QED BY <4>1, <4>2
    <3>4. CASE n > 0 /\ word[n] = RightBrace /\ word[n] \notin escaped
          /\ r = In("TERM", o, N(n - 1))
      <4>1. c \notin {RightBrace, Lib!Backslash}
        BY <2>4, <2>5, <2>9, <3>4
      <4>2. Lib!Run(l \o W(n + 1)) = In("TWO", o, N(n - 1) \o <<RightBrace, c>>)
        BY <3>2, <3>4, <4>1, CharTerm
      <4> QED BY <2>7, <3>4, <4>2
    <3> QED BY <2>2, <3>3, <3>4
  <2> QED BY <2>8, <2>9
<1>3. Reading(Len(word))
  <2>1. Nat \subseteq I
    <3> HIDE DEF I
    <3> QED BY <1>1, <1>2, Induction
  <2> QED BY <1>t, <2>1
<1>4. ~(Len(word) > 0 /\ word[Len(word)] = RightBrace /\ word[Len(word)] \notin escaped)
  <2> SUFFICES ASSUME Len(word) > 0, word[Len(word)] = RightBrace, word[Len(word)] \notin escaped
               PROVE  FALSE
    OBVIOUS
  <2>1. Len(word) \in 1 .. Len(word)
    BY <1>t
  <2>2. Len(word) < Len(word)
    BY <2>1 DEF Escapes
  <2> QED BY <1>t, <2>2
<1> HIDE DEF W, N
<1> QED BY <1>3, <1>4, <1>e DEF W

\* A piece of a line
Piece(p, Sign) ==
  p.kind \in {"char", "escape", "brace", "var"} /\ p.char \in Sign /\ p.name \in Seq(Sign)

\* How the machine reads what it is written as
Framed(word, escaped) ==
  <<LeftBrace, LeftBrace>> \o Writes(word, escaped, Len(word)) \o <<RightBrace, RightBrace>>

LEMMA VarRuns ==
  ASSUME NEW Sign, Signs(Sign), NEW word \in Seq(Sign), NEW escaped, Escapes(word, escaped),
         NEW l \in Seq(Sign), NEW o \in Seq(Sign), Lib!Run(l) = In("NORM", o, <<>>)
  PROVE  /\ Framed(word, escaped) \in Seq(Sign)
         /\ Lib!Run(l \o Framed(word, escaped)) = In("NORM", o \o Lib!Value(word), <<>>)
<1> DEFINE w == Writes(word, escaped, Len(word))
           first == <<LeftBrace, LeftBrace>>
           last == <<RightBrace, RightBrace>>
<1>b. LeftBrace \in Sign /\ RightBrace \in Sign
  BY DEF Signs
<1>1. w \in Seq(Sign) /\ first \in Seq(Sign) /\ last \in Seq(Sign)
  <2>1. w \in Seq(Sign)
    <3>1. Len(word) \in Nat /\ Len(word) <= Len(word)
      OBVIOUS
    <3> QED BY <3>1, WritesMore
  <2>2. first \in Seq(Sign) /\ last \in Seq(Sign)
    BY <1>b
  <2> QED BY <2>1, <2>2
<1> HIDE DEF w
<1>2. Lib!Run(l \o first) = In("TWO", o, <<>>)
  <2>1. Lib!Run(l \o first) = Lib!Char(Lib!Char(Lib!Run(l), LeftBrace), LeftBrace)
    BY <1>b, RunTwoMore
  <2>2. Lib!Char(Lib!Run(l), LeftBrace) = In("ONE", o, <<>>)
    BY CharNorm
  <2>3. Lib!Char(In("ONE", o, <<>>), LeftBrace) = In("TWO", o, <<>>)
    BY CharOne
  <2> QED BY <2>1, <2>2, <2>3
<1> HIDE DEF first
<1>3. l \o first \in Seq(Sign)
  BY <1>1
<1>4. Lib!Run((l \o first) \o w) = In("TWO", o, word)
  <2> DEFINE m == l \o first
  <2>1. m \in Seq(Sign) /\ Lib!Run(m) = In("TWO", o, <<>>)
    BY <1>2, <1>3
  <2> HIDE DEF m
  <2>2. Lib!Run(m \o Writes(word, escaped, Len(word))) = In("TWO", o, word)
    BY <2>1, NameRuns
  <2> QED BY <2>2 DEF m, w
<1>5. Lib!Run(((l \o first) \o w) \o last) = In("NORM", o \o Lib!Value(word), <<>>)
  <2> DEFINE m == (l \o first) \o w
  <2>1. m \in Seq(Sign) /\ Lib!Run(m) = In("TWO", o, word)
    BY <1>1, <1>3, <1>4
  <2> HIDE DEF m
  <2>2. Lib!Run(m \o last) = Lib!Char(Lib!Char(Lib!Run(m), RightBrace), RightBrace)
    BY <1>b, <2>1, RunTwoMore
  <2>3. Lib!Char(Lib!Run(m), RightBrace) = In("TERM", o, word)
    BY <2>1, CharTwo
  <2>4. Lib!Char(In("TERM", o, word), RightBrace) = In("NORM", o \o Lib!Value(word), <<>>)
    BY CharTerm
  <2> QED BY <2>2, <2>3, <2>4 DEF m
<1> HIDE DEF last
<1>6. first \o w \o last \in Seq(Sign)
  BY <1>1
<1>a. \A s, t, u \in Seq(Sign) : (s \o t) \o u = s \o (t \o u)
  BY ConcatAssociative
<1>7. l \o (first \o w \o last) = ((l \o first) \o w) \o last
  <2>1. l \o ((first \o w) \o last) = (l \o (first \o w)) \o last
    <3> DEFINE x == first \o w
    <3>1. x \in Seq(Sign)
      BY <1>1
    <3> HIDE DEF x
    <3>2. l \o (x \o last) = (l \o x) \o last
      BY <1>1, <1>a, <3>1, ZenonT(60)
    <3> QED BY <3>2 DEF x
  <2>2. l \o (first \o w) = (l \o first) \o w
    BY <1>1, <1>a, ZenonT(60)
  <2> QED BY <2>1, <2>2
<1> QED BY <1>5, <1>6, <1>7 DEF Framed, w, first, last

LEMMA PieceRuns ==
  ASSUME NEW Sign, Signs(Sign), NEW p, Piece(p, Sign), Lib!WellWritten(p),
         NEW l \in Seq(Sign), NEW o \in Seq(Sign), Lib!Run(l) = In("NORM", o, <<>>)
  PROVE  /\ Lib!Written(p) \in Seq(Sign) /\ Lib!Meant(p) \in Seq(Sign)
         /\ Lib!Run(l \o Lib!Written(p)) = In("NORM", o \o Lib!Meant(p), <<>>)
<1> DEFINE c == p.char
<1>b. LeftBrace \in Sign /\ RightBrace \in Sign /\ Lib!Backslash \in Sign /\ c \in Sign
  BY DEF Signs, Piece
<1>p. <<c>> \in Seq(Sign) /\ <<LeftBrace, c>> \in Seq(Sign) /\ <<Lib!Backslash, c>> \in Seq(Sign)
  BY <1>b
<1>1. CASE p.kind = "char"
  <2>1. c \notin {LeftBrace, Lib!Backslash}
    BY <1>1 DEF Lib!WellWritten, LeftBrace
  <2>2. Lib!Written(p) = <<c>> /\ Lib!Meant(p) = <<c>>
    BY <1>1 DEF Lib!Written, Lib!Meant
  <2> HIDE DEF c
  <2>3. Lib!Run(l \o <<c>>) = Lib!Char(In("NORM", o, <<>>), c)
    BY <1>b, RunOneMore
  <2>4. Lib!Run(l \o <<c>>) = In("NORM", o \o <<c>>, <<>>)
    BY <2>1, <2>3, CharNorm
  <2> QED BY <1>p, <2>2, <2>4
<1>2. CASE p.kind = "escape"
  <2>2. Lib!Written(p) = <<Lib!Backslash, c>> /\ Lib!Meant(p) = <<c>>
    BY <1>2 DEF Lib!Written, Lib!Meant
  <2> HIDE DEF c
  <2>3. Lib!Run(l \o <<Lib!Backslash, c>>)
          = Lib!Char(Lib!Char(In("NORM", o, <<>>), Lib!Backslash), c)
    BY <1>b, RunTwoMore
  <2>4. Lib!Char(In("NORM", o, <<>>), Lib!Backslash) = In("LIT", o, <<>>)
    BY CharNorm
  <2>5. Lib!Char(In("LIT", o, <<>>), c) = In("NORM", o \o <<c>>, <<>>)
    BY CharLit
  <2> QED BY <1>p, <2>2, <2>3, <2>4, <2>5
<1>3. CASE p.kind = "brace"
  <2>1. c \notin {LeftBrace, Lib!Backslash}
    BY <1>3 DEF Lib!WellWritten, LeftBrace
  <2>2. Lib!Written(p) = <<LeftBrace, c>> /\ Lib!Meant(p) = <<LeftBrace, c>>
    BY <1>3 DEF Lib!Written, Lib!Meant, LeftBrace
  <2> HIDE DEF c
  <2>3. Lib!Run(l \o <<LeftBrace, c>>) = Lib!Char(Lib!Char(In("NORM", o, <<>>), LeftBrace), c)
    BY <1>b, RunTwoMore
  <2>4. Lib!Char(In("NORM", o, <<>>), LeftBrace) = In("ONE", o, <<>>)
    BY CharNorm
  <2>5. Lib!Char(In("ONE", o, <<>>), c) = In("NORM", o \o <<LeftBrace, c>>, <<>>)
    BY <2>1, CharOne
  <2> QED BY <1>p, <2>2, <2>3, <2>4, <2>5
<1>4. CASE p.kind = "var"
  <2> DEFINE word == p.name
             escaped == p.escaped
  <2>1. word \in Seq(Sign) /\ DOMAIN word = 1 .. Len(word)
    <3>1. word \in Seq(Sign)
      BY DEF Piece
    <3> QED BY <3>1
  <2>2. Escapes(word, escaped)
    <3>1. \A i \in DOMAIN word : word[i] \notin escaped =>
            /\ word[i] # Lib!Backslash
            /\ word[i] = RightBrace => i < Len(word) /\ word[i + 1] # RightBrace
      BY <1>4 DEF Lib!WellWritten, RightBrace
    <3> HIDE DEF word, escaped
    <3> QED BY <2>1, <3>1 DEF Escapes
  <2>3. Lib!Written(p) = Framed(word, escaped)
    <3>1. Lib!Written(p) = <<LeftBrace, LeftBrace>> \o Lib!FlattenSeq([i \in DOMAIN word |->
             IF word[i] \in escaped THEN <<Lib!Backslash, word[i]>> ELSE <<word[i]>>])
             \o <<RightBrace, RightBrace>>
      BY <1>4 DEF Lib!Written, LeftBrace, RightBrace
    <3> HIDE DEF word, escaped
    <3> QED BY <2>1, <3>1 DEF Framed, Writes, Escaped
  <2>4. Lib!Meant(p) = Lib!Value(word)
    BY <1>4 DEF Lib!Meant
  <2> HIDE DEF word, escaped
  <2>5. Lib!Value(word) \in Seq(Sign)
    BY ValueTyped
  <2>6. /\ Framed(word, escaped) \in Seq(Sign)
        /\ Lib!Run(l \o Framed(word, escaped)) = In("NORM", o \o Lib!Value(word), <<>>)
    BY <2>1, <2>2, VarRuns
  <2> QED BY <2>3, <2>4, <2>5, <2>6
<1>5. p.kind \in {"char", "escape", "brace", "var"}
  BY DEF Piece
<1> QED BY <1>1, <1>2, <1>3, <1>4, <1>5

LEMMA LinesAreExact ==
  ASSUME NEW Sign, Signs(Sign), NEW D, NEW pieces \in Seq(D), \A p \in D : Piece(p, Sign)
  PROVE  Lib!SubstByPieces(pieces)
<1> SUFFICES ASSUME \A i \in DOMAIN pieces : Lib!WellWritten(pieces[i])
             PROVE  Lib!SubstByPieces(pieces)
  BY DEF Lib!SubstByPieces
<1> DEFINE E == {p \in D : Lib!WellWritten(p)}
<1>e. pieces \in Seq(E)
  <2>1. pieces \in [1 .. Len(pieces) -> E] /\ Len(pieces) \in Nat
    OBVIOUS
  <2> HIDE DEF E
  <2> QED BY <2>1
<1>f. \A p \in E : Piece(p, Sign) /\ Lib!WellWritten(p)
  OBVIOUS
<1> HIDE DEF E
<1> DEFINE W(s) == [i \in DOMAIN s |-> Lib!Written(s[i])]
           M(s) == [i \in DOMAIN s |-> Lib!Meant(s[i])]
           F(s) == Lib!FlattenSeq(s)
           P == {s \in Seq(E) : /\ F(W(s)) \in Seq(Sign) /\ F(M(s)) \in Seq(Sign)
                                /\ Lib!Run(F(W(s))) = In("NORM", F(M(s)), <<>>)}
<1>0. Lib!Run(<<>>) = In("NORM", <<>>, <<>>) /\ <<>> \in Seq(Sign)
  BY RunEmpty
<1>t. \A p \in E : Lib!Written(p) \in Seq(Sign) /\ Lib!Meant(p) \in Seq(Sign)
  BY <1>0, <1>f, PieceRuns
<1>m. \A s \in Seq(E) : W(s) \in Seq(Seq(Sign)) /\ M(s) \in Seq(Seq(Sign))
  <2> TAKE s \in Seq(E)
  <2>1. Len(s) \in Nat /\ DOMAIN s = 1 .. Len(s) /\ \A i \in DOMAIN s : s[i] \in E
    OBVIOUS
  <2>2. W(s) \in [1 .. Len(s) -> Seq(Sign)] /\ M(s) \in [1 .. Len(s) -> Seq(Sign)]
    BY <1>t, <2>1
  <2>3. \A n \in Nat : [1 .. n -> Seq(Sign)] \subseteq Seq(Seq(Sign))
    OBVIOUS
  <2> HIDE DEF W, M
  <2> QED BY <2>1, <2>2, <2>3
<1>1. <<>> \in P
  <2>1. W(<<>>) = <<>> /\ M(<<>>) = <<>> /\ <<>> \in Seq(E)
    OBVIOUS
  <2>2. F(<<>>) = <<>>
    BY FlattenEmpty
  <2> HIDE DEF W, M, F
  <2> QED BY <1>0, <2>1, <2>2
<1>2. ASSUME NEW s \in Seq(E), NEW p \in E, s \in P PROVE Append(s, p) \in P
  <2> DEFINE a == Append(s, p)
  <2>1. a \in Seq(E) /\ Len(a) = Len(s) + 1 /\ DOMAIN a = 1 .. Len(s) + 1 /\ DOMAIN s = 1 .. Len(s)
        /\ a[Len(s) + 1] = p /\ (\A i \in 1 .. Len(s) : a[i] = s[i]) /\ Len(s) \in Nat
    OBVIOUS
  <2> HIDE DEF a
  <2>2. W(a) = Append(W(s), Lib!Written(p)) /\ M(a) = Append(M(s), Lib!Meant(p))
    <3> DEFINE w == Lib!Written(p)  u == Lib!Meant(p)
    <3>1. /\ W(a) \in Seq(Seq(Sign)) /\ W(s) \in Seq(Seq(Sign)) /\ w \in Seq(Sign)
          /\ M(a) \in Seq(Seq(Sign)) /\ M(s) \in Seq(Seq(Sign)) /\ u \in Seq(Sign)
      BY <1>t, <1>m, <2>1
    <3>2. Len(W(a)) = Len(s) + 1 /\ Len(W(s)) = Len(s) /\ Len(M(a)) = Len(s) + 1
          /\ Len(M(s)) = Len(s)
      BY <2>1
    <3>3. /\ W(a)[Len(s) + 1] = w /\ M(a)[Len(s) + 1] = u
          /\ \A i \in 1 .. Len(s) : W(a)[i] = W(s)[i] /\ M(a)[i] = M(s)[i]
      BY <2>1
    <3> HIDE DEF W, M, w, u
    <3>4. \A x, y \in Seq(Seq(Sign)), z \in Seq(Sign) :
            (Len(x) = Len(y) + 1 /\ x[Len(y) + 1] = z /\ \A i \in 1 .. Len(y) : x[i] = y[i])
              => x = Append(y, z)
      OBVIOUS
    <3> QED BY <3>1, <3>2, <3>3, <3>4 DEF w, u
  <2>3. F(W(a)) = F(W(s)) \o Lib!Written(p) /\ F(M(a)) = F(M(s)) \o Lib!Meant(p)
    <3>1. W(s) \in Seq(Seq(Sign)) /\ M(s) \in Seq(Seq(Sign))
          /\ Lib!Written(p) \in Seq(Sign) /\ Lib!Meant(p) \in Seq(Sign)
      BY <1>t, <1>m
    <3> HIDE DEF W, M
    <3> QED BY <2>2, <3>1, FlattenAppend
  <2> DEFINE l == F(W(s))  o == F(M(s))
  <2>4. l \in Seq(Sign) /\ o \in Seq(Sign) /\ Lib!Run(l) = In("NORM", o, <<>>) /\ Piece(p, Sign)
        /\ Lib!WellWritten(p)
    BY <1>2, <1>f
  <2> HIDE DEF l, o, P
  <2>5. /\ Lib!Written(p) \in Seq(Sign) /\ Lib!Meant(p) \in Seq(Sign)
        /\ Lib!Run(l \o Lib!Written(p)) = In("NORM", o \o Lib!Meant(p), <<>>)
    BY <2>4, PieceRuns
  <2>6. l \o Lib!Written(p) \in Seq(Sign) /\ o \o Lib!Meant(p) \in Seq(Sign)
    BY <2>4, <2>5
  <2> HIDE DEF W, M, F
  <2> QED BY <2>1, <2>3, <2>5, <2>6 DEF a, l, o, P
<1>3. pieces \in P
  <2> HIDE DEF P
  <2> QED BY <1>1, <1>2, <1>e, SeqInduction
<1> DEFINE line == F(W(pieces))  meant == F(M(pieces))
<1>4. line \in Seq(Sign) /\ meant \in Seq(Sign) /\ Lib!Run(line) = In("NORM", meant, <<>>)
  BY <1>3
<1>5. Lib!SubstByPieces(pieces) <=>
        ((\A i \in DOMAIN pieces : Lib!WellWritten(pieces[i])) => Lib!Subst(line) = meant)
  BY DEF Lib!SubstByPieces
<1> HIDE DEF line, meant, P
<1>6. Lib!Subst(line) = meant
  <2>1. CASE Lib!Plain(line)
    <3>1. \/ Lib!Run(line) = In("NORM", line, <<>>)
          \/ \E o \in Seq(Sign) : Lib!Run(line) = In("ONE", o, <<>>)
      BY <1>4, <2>1, ShortcutIsNone
    <3>2. Lib!Run(line).st = "NORM" /\ Lib!Run(line).out = meant
      BY <1>4 DEF In
    <3>3. Lib!Run(line) = In("NORM", line, <<>>)
      BY <3>1, <3>2 DEF In
    <3>4. Lib!Run(line).out = line
      BY <3>3 DEF In
    <3> QED BY <2>1, <3>2, <3>4 DEF Lib!Subst
  <2>2. CASE ~Lib!Plain(line)
    BY <1>4, <2>2 DEF Lib!Subst, In
  <2> QED BY <2>1, <2>2
<1> QED BY <1>5, <1>6

-----------------------------------------------------------------------------
(* base64_encode_file(), base64_decode_file(): a sequence that is coded by *)
(* groups, the groups of the one code being the bytes of the other.        *)

\* What a function of groups makes of a sequence, n elements at a time
Maps(G, E, D) == G \in [E -> D]
Mapped(G, s) == [i \in DOMAIN s |-> G[s[i]]]
Coded(G, t, n) == Lib!FlattenSeq(Mapped(G, Lib!GroupsOf(t, n)))

\* x in whole times n
LEMMA Quotient ==
  ASSUME NEW n \in Nat \ {0}, NEW x \in Nat, NEW q \in Nat, NEW r \in Nat, r < n, x = n * q + r
  PROVE  x \div n = q
<1> DEFINE p == x \div n
<1>1. p \in Nat /\ n * p <= x /\ x < n * (p + 1)
  OBVIOUS
<1> HIDE DEF p
<1>2. ~(p < q)
  <2> SUFFICES ASSUME p < q PROVE FALSE
    OBVIOUS
  <2>1. p + 1 <= q /\ n > 0
    BY <1>1
  <2>2. n * (p + 1) <= n * q
    BY <1>1, <2>1
  <2> QED BY <1>1, <2>2
<1>3. ~(q < p)
  <2> SUFFICES ASSUME q < p PROVE FALSE
    OBVIOUS
  <2>1. q + 1 <= p /\ n > 0
    BY <1>1
  <2>2. n * (q + 1) <= n * p
    BY <1>1, <2>1
  <2>3. n * (q + 1) = n * q + n
    OBVIOUS
  <2> QED BY <1>1, <2>2, <2>3
<1> QED BY <1>1, <1>2, <1>3 DEF p

\* A sequence and its first element
Cons(z, y) == <<z>> \o y

LEMMA Consed ==
  ASSUME NEW E, NEW x \in Seq(E), NEW y \in Seq(E), NEW z \in E,
         Len(x) = Len(y) + 1, x[1] = z, \A i \in 1 .. Len(y) : x[i + 1] = y[i]
  PROVE  x = Cons(z, y)
<1> DEFINE u == <<z>> \o y
<1>1. u \in Seq(E) /\ Len(u) = Len(y) + 1 /\ Len(y) \in Nat
  OBVIOUS
<1>2. u[1] = z /\ \A i \in 1 .. Len(y) : u[i + 1] = y[i]
  OBVIOUS
<1> HIDE DEF u
<1>3. ASSUME NEW k \in 1 .. Len(x) PROVE x[k] = u[k]
  <2>1. k = 1 \/ (k - 1 \in 1 .. Len(y) /\ k = (k - 1) + 1)
    BY <1>1
  <2> QED BY <1>2, <2>1
<1> QED BY <1>1, <1>3 DEF Cons, u

LEMMA MapTyped ==
  ASSUME NEW E, NEW D, NEW G, Maps(G, E, D), NEW s \in Seq(E)
  PROVE  Mapped(G, s) \in Seq(D) /\ Len(Mapped(G, s)) = Len(s)
<1>1. Len(s) \in Nat /\ DOMAIN s = 1 .. Len(s) /\ \A i \in 1 .. Len(s) : s[i] \in E
  OBVIOUS
<1>2. Mapped(G, s) \in [1 .. Len(s) -> D]
  BY <1>1 DEF Mapped, Maps
<1> QED BY <1>1, <1>2

LEMMA MapOne ==
  ASSUME NEW G, NEW a
  PROVE  Mapped(G, <<a>>) = <<G[a]>>
<1>1. DOMAIN <<a>> = 1 .. 1 /\ \A i \in 1 .. 1 : <<a>>[i] = a
  OBVIOUS
<1>2. Mapped(G, <<a>>) = [i \in 1 .. 1 |-> G[a]]
  BY <1>1 DEF Mapped
<1> QED BY <1>2

LEMMA MapCons ==
  ASSUME NEW E, NEW D, NEW G, Maps(G, E, D), NEW a \in E, NEW s \in Seq(E)
  PROVE  Mapped(G, Cons(a, s)) = Cons(G[a], Mapped(G, s))
<1> DEFINE u == <<a>> \o s
<1>1. u \in Seq(E) /\ Len(u) = Len(s) + 1 /\ u[1] = a /\ Len(s) \in Nat
      /\ DOMAIN u = 1 .. Len(s) + 1 /\ DOMAIN s = 1 .. Len(s)
  OBVIOUS
<1>2. \A i \in 1 .. Len(s) : u[i + 1] = s[i]
  OBVIOUS
<1> HIDE DEF u
<1>3. Mapped(G, u) \in Seq(D) /\ Len(Mapped(G, u)) = Len(u)
  BY <1>1, MapTyped
<1>4. Mapped(G, s) \in Seq(D) /\ Len(Mapped(G, s)) = Len(s)
  BY MapTyped
<1>5. Mapped(G, u)[1] = G[a] /\ \A i \in 1 .. Len(s) : Mapped(G, u)[i + 1] = Mapped(G, s)[i]
  <2>1. 1 \in DOMAIN u /\ \A i \in 1 .. Len(s) : i + 1 \in DOMAIN u
    BY <1>1
  <2> QED BY <1>1, <1>2, <2>1 DEF Mapped
<1>7. G[a] \in D
  BY DEF Maps
<1>6. Mapped(G, u) = Cons(G[a], Mapped(G, s))
  BY <1>1, <1>3, <1>4, <1>5, <1>7, Consed
<1> QED BY <1>6 DEF Cons, u

LEMMA Groups ==
  ASSUME NEW E, NEW n \in Nat \ {0}
  PROVE  /\ \A t \in Seq(E) : Lib!GroupsOf(t, n) \in Seq(Seq(E))
         /\ Lib!GroupsOf(<<>>, n) = <<>>
         /\ \A t \in Seq(E) : 0 < Len(t) /\ Len(t) <= n => Lib!GroupsOf(t, n) = <<t>>
         /\ \A a, b \in Seq(E) : Len(a) = n => Lib!GroupsOf(a \o b, n) = Cons(a, Lib!GroupsOf(b, n))
<1> DEFINE K(t) == (Len(t) + n - 1) \div n
           Low(i) == n * (i - 1) + 1
           High(t, i) == IF n * i < Len(t) THEN n * i ELSE Len(t)
           G(t) == Lib!GroupsOf(t, n)
<1>k. \A t \in Seq(E) : K(t) \in Nat
  OBVIOUS
<1>g. \A t \in Seq(E) : G(t) = [i \in 1 .. K(t) |-> SubSeq(t, Low(i), High(t, i))]
  BY DEF Lib!GroupsOf
<1>l. \A i \in Nat \ {0} : Low(i) \in Nat /\ Low(i) >= 1 /\ n * i \in Nat
  <2> TAKE i \in Nat \ {0}
  <2>1. i - 1 \in Nat
    OBVIOUS
  <2>2. n * (i - 1) \in Nat /\ n * i \in Nat
    BY <2>1
  <2> QED BY <2>2
<1>1. ASSUME NEW t \in Seq(E) PROVE G(t) \in Seq(Seq(E))
  <2>1. ASSUME NEW i \in 1 .. K(t) PROVE SubSeq(t, Low(i), High(t, i)) \in Seq(E)
    <3>1. i \in Nat \ {0}
      BY <1>k
    <3>2. Low(i) \in Nat /\ Low(i) >= 1 /\ High(t, i) \in Nat /\ High(t, i) <= Len(t)
      <4> HIDE DEF Low
      <4> QED BY <1>l, <3>1
    <3> HIDE DEF Low, High
    <3> QED BY <3>2
  <2>2. G(t) \in [1 .. K(t) -> Seq(E)]
    <3> HIDE DEF G, K, Low, High
    <3> QED BY <1>g, <2>1
  <2>3. \A k \in Nat : [1 .. k -> Seq(E)] \subseteq Seq(Seq(E))
    OBVIOUS
  <2> HIDE DEF G, K
  <2> QED BY <1>k, <2>2, <2>3
<1>2. G(<<>>) = <<>>
  <2>1. <<>> \in Seq(E) /\ Len(<<>>) = 0
    OBVIOUS
  <2>2. K(<<>>) = 0
    <3>1. (0 + n - 1) \div n = 0
      <4>1. n - 1 \in Nat /\ n - 1 < n /\ n - 1 = n * 0 + (n - 1)
        OBVIOUS
      <4>2. (n - 1) \div n = 0
        BY <4>1, Quotient
      <4>3. 0 + n - 1 = n - 1
        OBVIOUS
      <4> QED BY <4>2, <4>3
    <3> QED BY <2>1, <3>1
  <2> HIDE DEF G, K, Low, High
  <2>3. G(<<>>) = [i \in 1 .. 0 |-> SubSeq(<<>>, Low(i), High(<<>>, i))]
    BY <1>g, <2>1, <2>2
  <2> QED BY <2>3
<1>3. ASSUME NEW t \in Seq(E), 0 < Len(t), Len(t) <= n PROVE G(t) = <<t>>
  <2>1. Len(t) \in Nat /\ Len(t) >= 1
    BY <1>3
  <2>2. K(t) = 1
    <3> DEFINE r == Len(t) - 1
    <3>1. r \in Nat /\ r < n /\ Len(t) + n - 1 = n * 1 + r /\ Len(t) + n - 1 \in Nat
      BY <1>3
    <3> HIDE DEF r
    <3> QED BY <3>1, Quotient
  <2>3. SubSeq(t, Low(1), High(t, 1)) = t
    <3>1. Low(1) = 1 /\ High(t, 1) = Len(t)
      BY <1>3
    <3>2. SubSeq(t, 1, Len(t)) = t
      OBVIOUS
    <3> HIDE DEF Low, High
    <3> QED BY <3>1, <3>2
  <2> HIDE DEF G, K, Low, High
  <2>4. G(t) = [i \in 1 .. 1 |-> SubSeq(t, Low(i), High(t, i))]
    BY <1>g, <2>2
  <2>5. \A i \in 1 .. 1 : i = 1
    OBVIOUS
  <2>6. G(t) = [i \in 1 .. 1 |-> t]
    BY <2>3, <2>4, <2>5
  <2> QED BY <2>6
<1>4. ASSUME NEW a \in Seq(E), NEW b \in Seq(E), Len(a) = n PROVE G(a \o b) = Cons(a, G(b))
  <2> DEFINE t == a \o b
  <2>1. t \in Seq(E) /\ Len(t) = n + Len(b) /\ Len(b) \in Nat
    BY <1>4
  <2>a. \A i \in 1 .. n : t[i] = a[i]
    BY <1>4
  <2>b. \A i \in 1 .. Len(b) : t[n + i] = b[i]
    BY <1>4
  <2> HIDE DEF t
  <2>2. K(t) = K(b) + 1
    <3> DEFINE x == Len(b) + n - 1
               q == x \div n
               r == x % n
    <3>1. x \in Nat /\ Len(t) + n - 1 = x + n /\ x + n \in Nat
      BY <2>1
    <3> HIDE DEF x
    <3>2. q \in Nat /\ r \in Nat /\ r < n /\ x = n * q + r
      BY <3>1
    <3> HIDE DEF q, r
    <3>3. q + 1 \in Nat /\ x + n = n * (q + 1) + r
      <4>1. n * (q + 1) = n * q + n
        BY <3>2
      <4> QED BY <3>2, <4>1
    <3>4. (x + n) \div n = q + 1
      BY <3>1, <3>2, <3>3, Quotient
    <3> QED BY <3>1, <3>4 DEF x, q
  <2>3. SubSeq(t, Low(1), High(t, 1)) = a
    <3>1. Low(1) = 1 /\ High(t, 1) = n
      BY <1>4, <2>1
    <3>2. SubSeq(t, 1, n) = a
      <4>1. SubSeq(t, 1, n) \in Seq(E) /\ Len(SubSeq(t, 1, n)) = n
            /\ \A i \in 1 .. n : SubSeq(t, 1, n)[i] = t[i]
        BY <2>1
      <4> QED BY <1>4, <2>a, <4>1
    <3> HIDE DEF Low, High
    <3> QED BY <3>1, <3>2
  <2>4. ASSUME NEW i \in 1 .. K(b)
        PROVE  SubSeq(t, Low(i + 1), High(t, i + 1)) = SubSeq(b, Low(i), High(b, i))
    <3> DEFINE low == Low(i)
               high == High(b, i)
               p == n * i
    <3>1. i \in Nat \ {0}
      BY <1>k
    <3>2. /\ n * (i - 1) = p - n /\ n * (i + 1) = p + n /\ (i + 1) - 1 = i
          /\ p \in Nat /\ p - n \in Nat
      <4>1. n * (i - 1) = p - n /\ n * (i + 1) = p + n
        BY <3>1
      <4>2. i - 1 \in Nat
        BY <3>1
      <4>3. n * (i - 1) \in Nat
        BY <4>2
      <4> QED BY <3>1, <4>1, <4>3
    <3>3. Low(i + 1) = p + 1 /\ low = (p - n) + 1
      BY <3>2
    <3>4. High(t, i + 1) = n + high /\ high \in Nat /\ high <= Len(b)
      <4>1. High(t, i + 1) = IF p + n < n + Len(b) THEN p + n ELSE n + Len(b)
        BY <2>1, <3>2
      <4>2. high = IF p < Len(b) THEN p ELSE Len(b)
        OBVIOUS
      <4> HIDE DEF p, high, High
      <4> QED BY <2>1, <3>2, <4>1, <4>2
    <3>5. Low(i + 1) = n + low /\ low \in Nat /\ low >= 1
      <4> HIDE DEF Low, low, p
      <4> QED BY <3>2, <3>3
    <3> HIDE DEF low, high, p, Low, High
    <3> DEFINE u == SubSeq(t, n + low, n + high)
               v == SubSeq(b, low, high)
               m == IF low <= high THEN (high + 1) - low ELSE 0
    <3>6. u \in Seq(E) /\ v \in Seq(E) /\ Len(u) = m /\ Len(v) = m
      <4>1. n + low \in Nat /\ n + high \in Nat /\ n + low >= 1 /\ n + high <= Len(t)
        BY <2>1, <3>4, <3>5
      <4>2. v \in Seq(E) /\ Len(v) = m
        BY <2>1, <3>4, <3>5
      <4>3. u \in Seq(E) /\ Len(u) = m
        BY <2>1, <3>4, <3>5, <4>1
      <4> QED BY <4>2, <4>3
    <3>7. ASSUME NEW k \in 1 .. m PROVE u[k] = v[k]
      <4>1. low <= high /\ m = (high + 1) - low /\ k \in Nat /\ k >= 1
            /\ (low + k) - 1 \in 1 .. Len(b)
        BY <2>1, <3>4, <3>5
      <4>2. v[k] = b[(low + k) - 1]
        BY <2>1, <3>4, <3>5, <4>1
      <4>3. u[k] = t[n + ((low + k) - 1)]
        BY <2>1, <3>4, <3>5, <4>1
      <4> HIDE DEF u, v
      <4> QED BY <2>b, <4>1, <4>2, <4>3
    <3>8. u = v
      <4>1. \A x, y \in Seq(E) : (Len(x) = Len(y) /\ \A k \in 1 .. Len(x) : x[k] = y[k]) => x = y
        OBVIOUS
      <4> HIDE DEF u, v, m
      <4> QED BY <3>6, <3>7, <4>1
    <3> QED BY <3>4, <3>5, <3>8 DEF low, high
  <2> HIDE DEF K, Low, High
  <2>5. /\ G(t) = [i \in 1 .. K(b) + 1 |-> SubSeq(t, Low(i), High(t, i))]
        /\ G(b) = [i \in 1 .. K(b) |-> SubSeq(b, Low(i), High(b, i))]
    BY <1>g, <2>1, <2>2
  <2>6. K(b) \in Nat /\ G(t) \in Seq(Seq(E)) /\ G(b) \in Seq(Seq(E))
    BY <1>k, <1>1, <2>1
  <2> HIDE DEF G
  <2>7. G(t)[1] = a /\ \A i \in 1 .. K(b) : G(t)[i + 1] = G(b)[i]
    <3>1. 1 \in 1 .. K(b) + 1 /\ \A i \in 1 .. K(b) : i + 1 \in 1 .. K(b) + 1
      BY <2>6
    <3> QED BY <2>3, <2>4, <2>5, <3>1
  <2>8. Len(G(t)) = K(b) + 1 /\ Len(G(b)) = K(b)
    BY <2>5, <2>6
  <2>9. G(t) = Cons(a, G(b))
    <3> DEFINE x == G(t)  y == G(b)
    <3>1. x \in Seq(Seq(E))
      BY <2>6
    <3>2. y \in Seq(Seq(E))
      BY <2>6
    <3>3. Len(x) = Len(y) + 1 /\ x[1] = a /\ \A i \in 1 .. Len(y) : x[i + 1] = y[i]
      BY <2>7, <2>8
    <3> HIDE DEF x, y
    <3>4. x = Cons(a, y)
      BY <3>1, <3>2, <3>3, Consed
    <3> QED BY <3>4 DEF x, y
  <2> QED BY <2>9 DEF t
<1> QED BY <1>1, <1>2, <1>3, <1>4

LEMMA FlattenCons ==
  ASSUME NEW F, NEW x \in Seq(F), NEW s \in Seq(Seq(F))
  PROVE  Lib!FlattenSeq(<<x>>) = x /\ Lib!FlattenSeq(Cons(x, s)) = x \o Lib!FlattenSeq(s)
<1>1. Lib!FlattenSeq(<<x>>) = x
  <2>1. <<>> \in Seq(Seq(F)) /\ Append(<<>>, x) = <<x>>
    OBVIOUS
  <2>2. Lib!FlattenSeq(Append(<<>>, x)) = Lib!FlattenSeq(<<>>) \o x
    BY <2>1, FlattenAppend
  <2>3. <<>> \o x = x
    OBVIOUS
  <2> QED BY <2>1, <2>2, <2>3, FlattenEmpty
<1>2. <<x>> \in Seq(Seq(F))
  OBVIOUS
<1>3. Lib!FlattenSeq(<<x>> \o s) = Lib!FlattenSeq(<<x>>) \o Lib!FlattenSeq(s)
  BY <1>2, FlattenConcat
<1> QED BY <1>1, <1>3 DEF Cons

\* Nothing, one group, and a whole group before others
LEMMA CodedNone ==
  ASSUME NEW G, NEW n \in Nat \ {0}
  PROVE  Coded(G, <<>>, n) = <<>>
<1>1. Lib!GroupsOf(<<>>, n) = <<>>
  BY Groups
<1>2. Mapped(G, <<>>) = <<>>
  BY DEF Mapped
<1> QED BY <1>1, <1>2, FlattenEmpty DEF Coded

LEMMA CodedTyped ==
  ASSUME NEW E, NEW F, NEW G, Maps(G, Seq(E), Seq(F)), NEW n \in Nat \ {0}, NEW t \in Seq(E)
  PROVE  Coded(G, t, n) \in Seq(F)
<1>1. Lib!GroupsOf(t, n) \in Seq(Seq(E))
  BY Groups
<1>2. Mapped(G, Lib!GroupsOf(t, n)) \in Seq(Seq(F))
  BY <1>1, MapTyped
<1> QED BY <1>2, FlattenFolds DEF Coded

LEMMA CodedOne ==
  ASSUME NEW E, NEW F, NEW G, Maps(G, Seq(E), Seq(F)), NEW n \in Nat \ {0},
         NEW t \in Seq(E), 0 < Len(t), Len(t) <= n
  PROVE  Coded(G, t, n) = G[t]
<1>1. Lib!GroupsOf(t, n) = <<t>>
  BY Groups
<1>2. <<>> \in Seq(Seq(E)) /\ <<>> \in Seq(Seq(F)) /\ G[t] \in Seq(F)
  BY DEF Maps
<1>3. Mapped(G, <<t>>) = <<G[t]>>
  BY MapOne
<1>4. Lib!FlattenSeq(<<G[t]>>) = G[t]
  BY <1>2, FlattenCons
<1> QED BY <1>1, <1>3, <1>4 DEF Coded

LEMMA CodedCons ==
  ASSUME NEW E, NEW F, NEW G, Maps(G, Seq(E), Seq(F)), NEW n \in Nat \ {0},
         NEW a \in Seq(E), NEW b \in Seq(E), Len(a) = n
  PROVE  Coded(G, a \o b, n) = G[a] \o Coded(G, b, n)
<1> DEFINE s == Lib!GroupsOf(b, n)
<1>1. Lib!GroupsOf(a \o b, n) = Cons(a, s)
  BY Groups
<1>2. s \in Seq(Seq(E))
  BY Groups
<1> HIDE DEF s
<1>3. Mapped(G, Cons(a, s)) = Cons(G[a], Mapped(G, s))
  BY <1>2, MapCons
<1>4. Mapped(G, s) \in Seq(Seq(F))
  BY <1>2, MapTyped
<1>5. G[a] \in Seq(F)
  BY DEF Maps
<1>6. Lib!FlattenSeq(Cons(G[a], Mapped(G, s))) = G[a] \o Lib!FlattenSeq(Mapped(G, s))
  BY <1>4, <1>5, FlattenCons
<1> QED BY <1>1, <1>3, <1>6 DEF Coded, s

\* The first n elements of a longer sequence, and the others
LEMMA Cut ==
  ASSUME NEW E, NEW t \in Seq(E), NEW n \in Nat, n <= Len(t)
  PROVE  /\ SubSeq(t, 1, n) \in Seq(E) /\ SubSeq(t, n + 1, Len(t)) \in Seq(E)
         /\ Len(SubSeq(t, 1, n)) = n /\ Len(SubSeq(t, n + 1, Len(t))) = Len(t) - n
         /\ t = SubSeq(t, 1, n) \o SubSeq(t, n + 1, Len(t))
<1> DEFINE a == SubSeq(t, 1, n)
           b == SubSeq(t, n + 1, Len(t))
<1>1. a \in Seq(E) /\ Len(a) = n /\ b \in Seq(E) /\ Len(b) = Len(t) - n
  OBVIOUS
<1>2. (\A i \in 1 .. n : a[i] = t[i]) /\ \A i \in 1 .. Len(t) - n : b[i] = t[n + i]
  OBVIOUS
<1> HIDE DEF a, b
<1> DEFINE u == a \o b
<1>3. u \in Seq(E) /\ Len(u) = Len(t) /\ Len(t) \in Nat
  BY <1>1
<1>4. (\A i \in 1 .. n : u[i] = a[i]) /\ \A i \in 1 .. Len(t) - n : u[n + i] = b[i]
  BY <1>1
<1> HIDE DEF u
<1>5. ASSUME NEW i \in 1 .. Len(t) PROVE t[i] = u[i]
  <2>1. i \in 1 .. n \/ (i - n \in 1 .. Len(t) - n /\ n + (i - n) = i)
    OBVIOUS
  <2> QED BY <1>2, <1>4, <2>1
<1>6. t = u
  BY <1>3, <1>5
<1> QED BY <1>1, <1>6 DEF a, b, u

\* Whole groups are coded apart
LEMMA CodedApart ==
  ASSUME NEW E, NEW F, NEW G, Maps(G, Seq(E), Seq(F)), NEW n \in Nat \ {0}, NEW q \in Nat,
         NEW a \in Seq(E), NEW b \in Seq(E), Len(a) = n * q
  PROVE  Coded(G, a \o b, n) = Coded(G, a, n) \o Coded(G, b, n)
<1>b. \A t \in Seq(E) : Coded(G, t, n) \in Seq(F)
  BY CodedTyped
<1>d. Coded(G, <<>>, n) = <<>>
  BY CodedNone
<1>e. \A x, y \in Seq(E) : Len(x) = n => Coded(G, x \o y, n) = G[x] \o Coded(G, y, n)
  <2> SUFFICES ASSUME NEW x \in Seq(E), NEW y \in Seq(E), Len(x) = n
               PROVE  Coded(G, x \o y, n) = G[x] \o Coded(G, y, n)
    OBVIOUS
  <2> QED BY CodedCons
<1> DEFINE C(t) == Coded(G, t, n)
           I == {k \in Nat : \A x \in Seq(E) : Len(x) = n * k => C(x \o b) = C(x) \o C(b)}
<1>c. /\ \A t \in Seq(E) : C(t) \in Seq(F)
      /\ C(<<>>) = <<>>
      /\ \A x, y \in Seq(E) : Len(x) = n => C(x \o y) = G[x] \o C(y)
  BY <1>b, <1>d, <1>e
<1>a. \A x, y, z \in Seq(E) : (x \o y) \o z = x \o (y \o z)
  BY ONLY ConcatAssociative
<1>f. \A x, y, z \in Seq(F) : (x \o y) \o z = x \o (y \o z)
  BY ONLY ConcatAssociative
<1> HIDE DEF C
<1>1. 0 \in I
  <2> SUFFICES ASSUME NEW x \in Seq(E), Len(x) = n * 0 PROVE C(x \o b) = C(x) \o C(b)
    OBVIOUS
  <2>1. x = <<>>
    <3>1. Len(x) = 0
      OBVIOUS
    <3> QED BY <3>1
  <2>2. <<>> \o b = b /\ \A y \in Seq(F) : <<>> \o y = y
    OBVIOUS
  <2> QED BY <1>c, <2>1, <2>2
<1>2. ASSUME NEW k \in Nat, k \in I PROVE k + 1 \in I
  <2> SUFFICES ASSUME NEW x \in Seq(E), Len(x) = n * (k + 1) PROVE C(x \o b) = C(x) \o C(b)
    OBVIOUS
  <2>1. n * (k + 1) = n * k + n /\ n * k \in Nat
    OBVIOUS
  <2> DEFINE y == SubSeq(x, 1, n)
             z == SubSeq(x, n + 1, Len(x))
  <2>2. y \in Seq(E) /\ z \in Seq(E) /\ x = y \o z /\ Len(y) = n /\ Len(z) = n * k
    <3>1. n \in Nat /\ n <= Len(x) /\ Len(x) - n = n * k
      BY <2>1
    <3> QED BY <3>1, Cut
  <2> HIDE DEF y, z
  <2>3. C(z \o b) = C(z) \o C(b)
    BY <1>2, <2>2
  <2>4. z \o b \in Seq(E) /\ C(z) \in Seq(F) /\ C(b) \in Seq(F) /\ G[y] \in Seq(F)
    BY <1>c, <2>2 DEF Maps
  <2>5. C(y \o z) = G[y] \o C(z) /\ C(y \o (z \o b)) = G[y] \o C(z \o b)
    BY <1>c, <2>2, <2>4
  <2>6. (y \o z) \o b = y \o (z \o b)
    BY <1>a, <2>2, SMTT(30)
  <2>7. G[y] \o (C(z) \o C(b)) = (G[y] \o C(z)) \o C(b)
    BY <1>f, <2>4
  <2> QED BY <2>2, <2>3, <2>5, <2>6, <2>7
<1>3. Nat \subseteq I
  <2> HIDE DEF I
  <2> QED BY <1>1, <1>2, Induction
<1>4. C(a \o b) = C(a) \o C(b)
  BY <1>3
<1> QED BY <1>4 DEF C

\* It makes no difference which of three texts are joined first
Apart(S) == \A x, y, z \in Seq(S) : (x \o y) \o z = x \o (y \o z)
LEMMA JoinsApart == ASSUME NEW S PROVE Apart(S)
  BY ConcatAssociative DEF Apart

\* Bytes B, symbols of groups of them, and what symbols are decoded to
Symbols(B) == Seq(B) \X (1 .. 4)
Decoded(B) == B \cup {"error"}
EncodesGroup(B) == [g \in Seq(B) |-> Lib!Group(g)]
DecodesGroup(B) == [g \in Seq(Symbols(B)) |-> IF Len(g) = 4 THEN g[1][1] ELSE <<"error">>]
EncodesChunk(B) == [g \in Seq(B) |-> Lib!B64encode(g)]

LEMMA GroupTyped ==
  ASSUME NEW B, NEW g \in Seq(B)
  PROVE  Lib!Group(g) \in Seq(Symbols(B)) /\ Len(Lib!Group(g)) = 4 /\ Lib!Group(g)[1][1] = g
<1>1. \A i \in 1 .. 4 : <<g, i>> \in Symbols(B)
  BY DEF Symbols
<1>2. Lib!Group(g) \in [1 .. 4 -> Symbols(B)]
  BY <1>1 DEF Lib!Group
<1>3. Lib!Group(g)[1] = <<g, 1>> /\ <<g, 1>>[1] = g
  BY DEF Lib!Group
<1> DEFINE t == Lib!Group(g)
<1>4. t \in [1 .. 4 -> Symbols(B)] /\ t[1][1] = g
  BY <1>2, <1>3
<1> HIDE DEF t
<1>5. t \in Seq(Symbols(B)) /\ Len(t) = 4
  <2>1. \A k \in Nat : \A f \in [1 .. k -> Symbols(B)] : f \in Seq(Symbols(B)) /\ Len(f) = k
    OBVIOUS
  <2>2. 4 \in Nat
    OBVIOUS
  <2> QED BY <1>4, <2>1, <2>2
<1> QED BY <1>4, <1>5 DEF t

LEMMA Coders ==
  ASSUME NEW B
  PROVE  /\ Maps(EncodesGroup(B), Seq(B), Seq(Symbols(B)))
         /\ Maps(DecodesGroup(B), Seq(Symbols(B)), Seq(Decoded(B)))
<1>1. EncodesGroup(B) \in [Seq(B) -> Seq(Symbols(B))]
  <2>1. \A g \in Seq(B) : Lib!Group(g) \in Seq(Symbols(B))
    BY GroupTyped
  <2> QED BY <2>1 DEF EncodesGroup
<1>2. DecodesGroup(B) \in [Seq(Symbols(B)) -> Seq(Decoded(B))]
  <2>1. ASSUME NEW g \in Seq(Symbols(B))
        PROVE  (IF Len(g) = 4 THEN g[1][1] ELSE <<"error">>) \in Seq(Decoded(B))
    <3>1. CASE Len(g) = 4
      <4>1. g[1] \in Symbols(B)
        BY <3>1
      <4>2. g[1][1] \in Seq(B)
        BY <4>1 DEF Symbols
      <4>3. Seq(B) \subseteq Seq(Decoded(B))
        BY DEF Decoded
      <4> QED BY <3>1, <4>2, <4>3
    <3>2. CASE Len(g) # 4
      <4>1. "error" \in Decoded(B)
        BY DEF Decoded
      <4>2. \A e \in Decoded(B) : <<e>> \in Seq(Decoded(B))
        OBVIOUS
      <4> QED BY <3>2, <4>1, <4>2
    <3> QED BY <3>1, <3>2
  <2> QED BY <2>1 DEF DecodesGroup
<1> QED BY <1>1, <1>2 DEF Maps

LEMMA EncodeIs ==
  ASSUME NEW B, NEW t \in Seq(B)
  PROVE  Lib!B64encode(t) = Coded(EncodesGroup(B), t, 3)
<1> DEFINE s == Lib!GroupsOf(t, 3)
<1>1. s \in Seq(Seq(B))
  <2>1. 3 \in Nat \ {0}
    OBVIOUS
  <2> QED BY <2>1, Groups
<1> HIDE DEF s
<1>2. \A i \in DOMAIN s : s[i] \in Seq(B)
  BY <1>1
<1>3. \A i \in DOMAIN s : EncodesGroup(B)[s[i]] = Lib!Group(s[i])
  BY <1>2 DEF EncodesGroup
<1>4. Mapped(EncodesGroup(B), s) = [i \in DOMAIN s |-> Lib!Group(s[i])]
  BY <1>3 DEF Mapped
<1> QED BY <1>4 DEF Lib!B64encode, Coded, s

LEMMA DecodeIs ==
  ASSUME NEW B, NEW t \in Seq(Symbols(B))
  PROVE  Lib!B64decode(t) = Coded(DecodesGroup(B), t, 4)
<1> DEFINE s == Lib!GroupsOf(t, 4)
           D(g) == IF Len(g) = 4 THEN g[1][1] ELSE <<"error">>
<1>1. s \in Seq(Seq(Symbols(B)))
  <2>1. 4 \in Nat \ {0}
    OBVIOUS
  <2> QED BY <2>1, Groups
<1> HIDE DEF s
<1>2. \A i \in DOMAIN s : s[i] \in Seq(Symbols(B))
  BY <1>1
<1>3. DecodesGroup(B) = [g \in Seq(Symbols(B)) |-> D(g)]
  BY DEF DecodesGroup
<1>5. Lib!B64decode(t) = Lib!FlattenSeq([i \in DOMAIN s |-> D(s[i])])
  BY DEF Lib!B64decode, s
<1> HIDE DEF D
<1>4. Mapped(DecodesGroup(B), s) = [i \in DOMAIN s |-> D(s[i])]
  BY <1>2, <1>3 DEF Mapped
<1> QED BY <1>4, <1>5 DEF Coded, s

LEMMA EncodeTyped == ASSUME NEW B, NEW t \in Seq(B) PROVE Lib!B64encode(t) \in Seq(Symbols(B))
<1>1. 3 \in Nat \ {0} /\ Maps(EncodesGroup(B), Seq(B), Seq(Symbols(B)))
  BY Coders
<1> QED BY <1>1, EncodeIs, CodedTyped

LEMMA DecodeTyped ==
  ASSUME NEW B, NEW t \in Seq(Symbols(B))
  PROVE  Lib!B64decode(t) \in Seq(Decoded(B))
<1>1. 4 \in Nat \ {0} /\ Maps(DecodesGroup(B), Seq(Symbols(B)), Seq(Decoded(B)))
  BY Coders
<1> QED BY <1>1, DecodeIs, CodedTyped

LEMMA EncodeNone == Lib!B64encode(<<>>) = <<>>
<1>1. <<>> \in Seq({}) /\ 3 \in Nat \ {0}
  OBVIOUS
<1> QED BY <1>1, EncodeIs, CodedNone

LEMMA DecodeNone == Lib!B64decode(<<>>) = <<>>
<1>1. <<>> \in Seq(Symbols({})) /\ 4 \in Nat \ {0}
  OBVIOUS
<1> QED BY <1>1, DecodeIs, CodedNone

LEMMA EncodeOne ==
  ASSUME NEW B, NEW t \in Seq(B), 0 < Len(t), Len(t) <= 3
  PROVE  Lib!B64encode(t) = Lib!Group(t)
<1>1. 3 \in Nat \ {0} /\ Maps(EncodesGroup(B), Seq(B), Seq(Symbols(B)))
  BY Coders
<1>2. EncodesGroup(B)[t] = Lib!Group(t)
  BY DEF EncodesGroup
<1>3. Coded(EncodesGroup(B), t, 3) = EncodesGroup(B)[t]
  BY <1>1, CodedOne
<1> QED BY <1>2, <1>3, EncodeIs

LEMMA EncodeCons ==
  ASSUME NEW B, NEW a \in Seq(B), NEW b \in Seq(B), Len(a) = 3
  PROVE  Lib!B64encode(a \o b) = Lib!Group(a) \o Lib!B64encode(b)
<1>1. 3 \in Nat \ {0} /\ Maps(EncodesGroup(B), Seq(B), Seq(Symbols(B)))
  BY Coders
<1>2. EncodesGroup(B)[a] = Lib!Group(a)
  BY DEF EncodesGroup
<1>3. Coded(EncodesGroup(B), a \o b, 3) = EncodesGroup(B)[a] \o Coded(EncodesGroup(B), b, 3)
  <2> DEFINE n == 3
  <2>1. n \in Nat \ {0} /\ Len(a) = n
    OBVIOUS
  <2> HIDE DEF n
  <2>2. Coded(EncodesGroup(B), a \o b, n) = EncodesGroup(B)[a] \o Coded(EncodesGroup(B), b, n)
    BY <1>1, <2>1, CodedCons
  <2> QED BY <2>2 DEF n
<1>4. Lib!B64encode(a \o b) = Coded(EncodesGroup(B), a \o b, 3)
  <2> DEFINE t == a \o b
  <2>1. t \in Seq(B)
    OBVIOUS
  <2> HIDE DEF t
  <2>2. Lib!B64encode(t) = Coded(EncodesGroup(B), t, 3)
    BY <2>1, EncodeIs
  <2> QED BY <2>2 DEF t
<1>5. Lib!B64encode(b) = Coded(EncodesGroup(B), b, 3)
  BY EncodeIs
<1> QED BY <1>2, <1>3, <1>4, <1>5

LEMMA EncodeApart ==
  ASSUME NEW B, NEW a \in Seq(B), NEW b \in Seq(B), NEW q \in Nat, Len(a) = 3 * q
  PROVE  Lib!B64encode(a \o b) = Lib!B64encode(a) \o Lib!B64encode(b)
<1>1. 3 \in Nat \ {0} /\ Maps(EncodesGroup(B), Seq(B), Seq(Symbols(B)))
  BY Coders
<1>2. Coded(EncodesGroup(B), a \o b, 3)
        = Coded(EncodesGroup(B), a, 3) \o Coded(EncodesGroup(B), b, 3)
  BY <1>1, CodedApart
<1>3. Lib!B64encode(a \o b) = Coded(EncodesGroup(B), a \o b, 3)
  <2> DEFINE t == a \o b
  <2>1. t \in Seq(B)
    OBVIOUS
  <2> HIDE DEF t
  <2>2. Lib!B64encode(t) = Coded(EncodesGroup(B), t, 3)
    BY <2>1, EncodeIs
  <2> QED BY <2>2 DEF t
<1>4. Lib!B64encode(a) = Coded(EncodesGroup(B), a, 3)
      /\ Lib!B64encode(b) = Coded(EncodesGroup(B), b, 3)
  BY EncodeIs
<1> QED BY <1>2, <1>3, <1>4

LEMMA DecodeApart ==
  ASSUME NEW B, NEW a \in Seq(Symbols(B)), NEW b \in Seq(Symbols(B)), NEW q \in Nat, Len(a) = 4 * q
  PROVE  Lib!B64decode(a \o b) = Lib!B64decode(a) \o Lib!B64decode(b)
<1>1. 4 \in Nat \ {0} /\ Maps(DecodesGroup(B), Seq(Symbols(B)), Seq(Decoded(B)))
  BY Coders
<1>2. Coded(DecodesGroup(B), a \o b, 4)
        = Coded(DecodesGroup(B), a, 4) \o Coded(DecodesGroup(B), b, 4)
  BY <1>1, CodedApart
<1>3. Lib!B64decode(a \o b) = Coded(DecodesGroup(B), a \o b, 4)
  <2> DEFINE t == a \o b
  <2>1. t \in Seq(Symbols(B))
    OBVIOUS
  <2> HIDE DEF t
  <2>2. Lib!B64decode(t) = Coded(DecodesGroup(B), t, 4)
    BY <2>1, DecodeIs
  <2> QED BY <2>2 DEF t
<1>4. Lib!B64decode(a) = Coded(DecodesGroup(B), a, 4)
      /\ Lib!B64decode(b) = Coded(DecodesGroup(B), b, 4)
  BY DecodeIs
<1> QED BY <1>2, <1>3, <1>4

LEMMA DecodeGroup ==
  ASSUME NEW B, NEW g \in Seq(B)
  PROVE  Lib!B64decode(Lib!Group(g)) = g
<1> DEFINE t == Lib!Group(g)
<1>1. t \in Seq(Symbols(B)) /\ Len(t) = 4 /\ t[1][1] = g
  BY GroupTyped
<1> HIDE DEF t
<1>2. 4 \in Nat \ {0} /\ 0 < Len(t) /\ Len(t) <= 4
      /\ Maps(DecodesGroup(B), Seq(Symbols(B)), Seq(Decoded(B)))
  BY <1>1, Coders
<1>3. DecodesGroup(B)[t] = g
  BY <1>1 DEF DecodesGroup
<1>4. Coded(DecodesGroup(B), t, 4) = DecodesGroup(B)[t]
  <2> DEFINE n == 4
  <2>1. n \in Nat \ {0} /\ 0 < Len(t) /\ Len(t) <= n
    BY <1>2
  <2>3. t \in Seq(Symbols(B))
    BY <1>1
  <2>4. Maps(DecodesGroup(B), Seq(Symbols(B)), Seq(Decoded(B)))
    BY <1>2
  <2> HIDE DEF n
  <2>2. Coded(DecodesGroup(B), t, n) = DecodesGroup(B)[t]
    BY <2>1, <2>3, <2>4, CodedOne
  <2> QED BY <2>2 DEF n
<1>5. Lib!B64decode(t) = Coded(DecodesGroup(B), t, 4)
  BY <1>1, DecodeIs
<1> QED BY <1>3, <1>4, <1>5 DEF t

\* What is encoded is decoded to what it was
LEMMA EncodedIsDecoded ==
  ASSUME NEW B, NEW t \in Seq(B)
  PROVE  Lib!B64decode(Lib!B64encode(t)) = t
<1> DEFINE I == {n \in Nat : \A s \in Seq(B) : Len(s) <= n => Lib!B64decode(Lib!B64encode(s)) = s}
<1>0. Lib!B64decode(Lib!B64encode(<<>>)) = <<>>
  BY EncodeNone, DecodeNone
<1>1. 0 \in I
  <2> SUFFICES ASSUME NEW s \in Seq(B), Len(s) <= 0 PROVE Lib!B64decode(Lib!B64encode(s)) = s
    OBVIOUS
  <2>1. s = <<>>
    OBVIOUS
  <2> QED BY <1>0, <2>1
<1>2. ASSUME NEW n \in Nat, n \in I PROVE n + 1 \in I
  <2> SUFFICES ASSUME NEW s \in Seq(B), Len(s) <= n + 1 PROVE Lib!B64decode(Lib!B64encode(s)) = s
    OBVIOUS
  <2>0. Len(s) \in Nat
    OBVIOUS
  <2>1. CASE Len(s) = 0
    <3>1. s = <<>>
      BY <2>1
    <3> QED BY <1>0, <3>1
  <2>2. CASE 0 < Len(s) /\ Len(s) <= 3
    <3>1. Lib!B64encode(s) = Lib!Group(s)
      BY <2>2, EncodeOne
    <3> QED BY <3>1, DecodeGroup
  <2>3. CASE Len(s) > 3
    <3> DEFINE a == SubSeq(s, 1, 3)
               b == SubSeq(s, 3 + 1, Len(s))
               x == Lib!Group(a)
               y == Lib!B64encode(b)
    <3>1. a \in Seq(B) /\ b \in Seq(B) /\ s = a \o b /\ Len(a) = 3 /\ Len(b) = Len(s) - 3
      <4> DEFINE k == 3
      <4>1. k \in Nat /\ k <= Len(s)
        BY <2>3
      <4> HIDE DEF k
      <4>2. /\ SubSeq(s, 1, k) \in Seq(B) /\ SubSeq(s, k + 1, Len(s)) \in Seq(B)
            /\ Len(SubSeq(s, 1, k)) = k /\ Len(SubSeq(s, k + 1, Len(s))) = Len(s) - k
            /\ s = SubSeq(s, 1, k) \o SubSeq(s, k + 1, Len(s))
        BY <4>1, Cut
      <4> QED BY <4>2 DEF k
    <3> HIDE DEF a, b
    <3>2. Lib!B64encode(a \o b) = x \o y
      BY <3>1, EncodeCons
    <3>3. x \in Seq(Symbols(B)) /\ y \in Seq(Symbols(B)) /\ Len(x) = 4 * 1 /\ 1 \in Nat
      BY <3>1, GroupTyped, EncodeTyped
    <3>4. Lib!B64decode(x) = a
      BY <3>1, DecodeGroup
    <3>5. Lib!B64decode(y) = b
      <4>1. Len(b) <= n
        BY <2>0, <3>1
      <4> QED BY <1>2, <3>1, <4>1
    <3> HIDE DEF x, y
    <3>6. Lib!B64decode(x \o y) = Lib!B64decode(x) \o Lib!B64decode(y)
      <4> DEFINE q == 1
      <4>1. q \in Nat /\ Len(x) = 4 * q
        BY <3>3
      <4> HIDE DEF q
      <4> QED BY <3>3, <4>1, DecodeApart
    <3> QED BY <3>1, <3>2, <3>4, <3>5, <3>6
  <2> QED BY <2>0, <2>1, <2>2, <2>3
<1>3. Nat \subseteq I
  <2> HIDE DEF I
  <2> QED BY <1>1, <1>2, Induction
<1>4. Len(t) \in Nat /\ Len(t) <= Len(t)
  OBVIOUS
<1> QED BY <1>3, <1>4

\* A stream is encoded as a whole, in chunks of any size
LEMMA FileIsEncoded ==
  ASSUME NEW B, NEW t \in Seq(B), NEW size \in Nat, size >= 3
  PROVE  Lib!EncodeFile(t, size) = Lib!B64encode(t)
<1> DEFINE C == Lib!Chunk(size)
           q == size \div 3
           G == EncodesChunk(B)
           I == {n \in Nat : \A s \in Seq(B) : Len(s) <= n => Coded(G, s, C) = Lib!B64encode(s)}
<1>c. C \in Nat \ {0} /\ C = 3 * q /\ q \in Nat
  <2>1. q \in Nat /\ q >= 1
    OBVIOUS
  <2>2. C = q * 3
    BY DEF Lib!Chunk
  <2> HIDE DEF q, C
  <2> QED BY <2>1, <2>2
<1>g. /\ Maps(G, Seq(B), Seq(Symbols(B))) /\ \A s \in Seq(B) : G[s] = Lib!B64encode(s)
  <2>1. \A s \in Seq(B) : Lib!B64encode(s) \in Seq(Symbols(B))
    BY EncodeTyped
  <2> QED BY <2>1 DEF EncodesChunk, Maps
<1> HIDE DEF C, q, G
<1>0. Coded(G, <<>>, C) = Lib!B64encode(<<>>)
  BY <1>c, EncodeNone, CodedNone
<1>1. 0 \in I
  <2> SUFFICES ASSUME NEW s \in Seq(B), Len(s) <= 0 PROVE Coded(G, s, C) = Lib!B64encode(s)
    OBVIOUS
  <2>1. s = <<>>
    OBVIOUS
  <2> QED BY <1>0, <2>1
<1>2. ASSUME NEW n \in Nat, n \in I PROVE n + 1 \in I
  <2> SUFFICES ASSUME NEW s \in Seq(B), Len(s) <= n + 1 PROVE Coded(G, s, C) = Lib!B64encode(s)
    OBVIOUS
  <2>0. Len(s) \in Nat
    OBVIOUS
  <2>1. CASE Len(s) = 0
    <3>1. s = <<>>
      BY <2>1
    <3> QED BY <1>0, <3>1
  <2>2. CASE 0 < Len(s) /\ Len(s) <= C
    <3>1. Coded(G, s, C) = G[s]
      BY <1>c, <1>g, <2>2, CodedOne
    <3> QED BY <1>g, <3>1
  <2>3. CASE Len(s) > C
    <3> DEFINE a == SubSeq(s, 1, C)
               b == SubSeq(s, C + 1, Len(s))
    <3>1. a \in Seq(B) /\ b \in Seq(B) /\ s = a \o b /\ Len(a) = C /\ Len(b) = Len(s) - C
      <4>1. C \in Nat /\ C <= Len(s)
        BY <1>c, <2>3
      <4> QED BY <4>1, Cut
    <3> HIDE DEF a, b
    <3>2. Coded(G, a \o b, C) = G[a] \o Coded(G, b, C)
      <4>1. C \in Nat \ {0} /\ Len(a) = C
        BY <1>c, <3>1
      <4>2. a \in Seq(B)
        BY <3>1
      <4>3. b \in Seq(B)
        BY <3>1
      <4>4. Maps(G, Seq(B), Seq(Symbols(B)))
        BY <1>g
      <4> QED BY <4>1, <4>2, <4>3, <4>4, CodedCons
    <3>3. Coded(G, b, C) = Lib!B64encode(b)
      <4>1. Len(b) <= n
        BY <1>c, <2>0, <3>1
      <4> QED BY <1>2, <3>1, <4>1
    <3>4. Lib!B64encode(a \o b) = Lib!B64encode(a) \o Lib!B64encode(b)
      BY <1>c, <3>1, EncodeApart
    <3>5. G[a] = Lib!B64encode(a)
      BY <1>g, <3>1
    <3> QED BY <3>1, <3>2, <3>3, <3>4, <3>5
  <2> QED BY <1>c, <2>0, <2>1, <2>2, <2>3
<1>3. Nat \subseteq I
  <2> HIDE DEF I
  <2> QED BY <1>1, <1>2, Induction
<1>4. Coded(G, t, C) = Lib!B64encode(t)
  <2>1. Len(t) \in Nat /\ Len(t) <= Len(t)
    OBVIOUS
  <2> QED BY <1>3, <2>1
<1>5. Lib!EncodeFile(t, size) = Coded(G, t, C)
  <2> DEFINE s == Lib!GroupsOf(t, C)
  <2>1. s \in Seq(Seq(B))
    BY <1>c, Groups
  <2> HIDE DEF s
  <2>2. \A i \in DOMAIN s : s[i] \in Seq(B)
    BY <2>1
  <2>3. Mapped(G, s) = [i \in DOMAIN s |-> Lib!B64encode(s[i])]
    BY <1>g, <2>2 DEF Mapped
  <2> QED BY <2>3 DEF Lib!EncodeFile, Coded, s, C
<1> QED BY <1>4, <1>5

\* Blanks between symbols, and what is left of data without them
Data(B) == Symbols(B) \cup Blank
Kept(B) == [x \in Data(B) |-> IF x \in Blank THEN <<>> ELSE <<x>>]

LEMMA SqueezedIs ==
  ASSUME NEW B, NEW data \in Seq(Data(B))
  PROVE  /\ Maps(Kept(B), Data(B), Seq(Symbols(B)))
         /\ Lib!Squeezed(data) = Lib!FlattenSeq(Mapped(Kept(B), data))
         /\ Lib!Squeezed(data) \in Seq(Symbols(B))
<1>1. Maps(Kept(B), Data(B), Seq(Symbols(B)))
  <2>1. ASSUME NEW x \in Data(B) PROVE (IF x \in Blank THEN <<>> ELSE <<x>>) \in Seq(Symbols(B))
    <3>1. CASE x \in Blank
      <4>1. <<>> \in Seq(Symbols(B))
        OBVIOUS
      <4> QED BY <3>1, <4>1
    <3>2. CASE x \notin Blank
      <4>1. x \in Symbols(B)
        BY <3>2 DEF Data
      <4>2. <<x>> \in Seq(Symbols(B))
        BY <4>1
      <4> QED BY <3>2, <4>2
    <3> QED BY <3>1, <3>2
  <2> QED BY <2>1 DEF Maps, Kept
<1>2. \A i \in DOMAIN data : data[i] \in Data(B)
  OBVIOUS
<1>3. Mapped(Kept(B), data)
        = [i \in DOMAIN data |-> IF data[i] \in Blank THEN <<>> ELSE <<data[i]>>]
  BY <1>2 DEF Mapped, Kept
<1>4. Lib!Squeezed(data) = Lib!FlattenSeq(Mapped(Kept(B), data))
  BY <1>3 DEF Lib!Squeezed
<1>5. Mapped(Kept(B), data) \in Seq(Seq(Symbols(B)))
  BY <1>1, MapTyped
<1>6. Lib!FlattenSeq(Mapped(Kept(B), data)) \in Seq(Symbols(B))
  BY <1>5, FlattenFolds
<1> QED BY <1>1, <1>4, <1>6

LEMMA MapConcat ==
  ASSUME NEW E, NEW D, NEW G, Maps(G, E, D), NEW a \in Seq(E), NEW b \in Seq(E)
  PROVE  Mapped(G, a \o b) = Mapped(G, a) \o Mapped(G, b)
<1> DEFINE t == a \o b
           u == Mapped(G, a) \o Mapped(G, b)
<1>1. t \in Seq(E) /\ Len(t) = Len(a) + Len(b) /\ Len(a) \in Nat /\ Len(b) \in Nat
      /\ DOMAIN t = 1 .. Len(t) /\ DOMAIN a = 1 .. Len(a) /\ DOMAIN b = 1 .. Len(b)
  OBVIOUS
<1>2. (\A i \in 1 .. Len(a) : t[i] = a[i]) /\ \A i \in 1 .. Len(b) : t[Len(a) + i] = b[i]
  OBVIOUS
<1>3. Mapped(G, a) \in Seq(D) /\ Len(Mapped(G, a)) = Len(a)
  BY MapTyped
<1>4. Mapped(G, b) \in Seq(D) /\ Len(Mapped(G, b)) = Len(b)
  BY MapTyped
<1>5. u \in Seq(D) /\ Len(u) = Len(a) + Len(b)
  BY <1>3, <1>4, SMTT(30)
<1>6. (\A i \in 1 .. Len(a) : u[i] = Mapped(G, a)[i])
      /\ \A i \in 1 .. Len(b) : u[Len(a) + i] = Mapped(G, b)[i]
  BY <1>3, <1>4
<1> HIDE DEF t, u
<1>7. Mapped(G, t) \in Seq(D) /\ Len(Mapped(G, t)) = Len(t)
  BY <1>1, MapTyped
<1>8. ASSUME NEW k \in 1 .. Len(t) PROVE Mapped(G, t)[k] = u[k]
  <2>1. CASE k \in 1 .. Len(a)
    <3>1. Mapped(G, t)[k] = G[t[k]] /\ Mapped(G, a)[k] = G[a[k]]
      BY <1>1, <2>1 DEF Mapped
    <3> QED BY <1>2, <1>6, <2>1, <3>1
  <2>2. CASE k \notin 1 .. Len(a)
    <3> DEFINE i == k - Len(a)
    <3>1. i \in 1 .. Len(b) /\ k = Len(a) + i
      BY <1>1, <2>2
    <3> HIDE DEF i
    <3>2. Mapped(G, t)[k] = G[t[k]] /\ Mapped(G, b)[i] = G[b[i]]
      BY <1>1, <3>1 DEF Mapped
    <3>3. t[k] = b[i] /\ u[k] = Mapped(G, b)[i]
      BY <1>2, <1>6, <3>1
    <3> QED BY <3>2, <3>3
  <2> QED BY <2>1, <2>2
<1> DEFINE v == Mapped(G, t)
<1>9. v \in Seq(D) /\ Len(v) = Len(u) /\ u \in Seq(D) /\ \A k \in 1 .. Len(u) : v[k] = u[k]
  BY <1>1, <1>5, <1>7, <1>8
<1> HIDE DEF v
<1>10. v = u
  BY <1>9
<1> QED BY <1>10 DEF t, u, v

LEMMA SqueezedApart ==
  ASSUME NEW B, NEW a \in Seq(Data(B)), NEW b \in Seq(Data(B))
  PROVE  Lib!Squeezed(a \o b) = Lib!Squeezed(a) \o Lib!Squeezed(b)
<1> DEFINE K == Kept(B)
           t == a \o b
<1>1. Maps(K, Data(B), Seq(Symbols(B)))
  BY SqueezedIs
<1>2. t \in Seq(Data(B))
  OBVIOUS
<1>3. Mapped(K, t) = Mapped(K, a) \o Mapped(K, b)
  <2> HIDE DEF K
  <2> QED BY <1>1, MapConcat
<1>4. Mapped(K, a) \in Seq(Seq(Symbols(B))) /\ Mapped(K, b) \in Seq(Seq(Symbols(B)))
  <2> HIDE DEF K
  <2>1. Mapped(K, a) \in Seq(Seq(Symbols(B)))
    BY <1>1, MapTyped
  <2>2. Mapped(K, b) \in Seq(Seq(Symbols(B)))
    BY <1>1, MapTyped
  <2> QED BY <2>1, <2>2
<1>5. Lib!FlattenSeq(Mapped(K, a) \o Mapped(K, b))
        = Lib!FlattenSeq(Mapped(K, a)) \o Lib!FlattenSeq(Mapped(K, b))
  <2> DEFINE x == Mapped(K, a)  y == Mapped(K, b)
  <2>1. x \in Seq(Seq(Symbols(B))) /\ y \in Seq(Seq(Symbols(B)))
    BY <1>4
  <2> HIDE DEF x, y
  <2>2. Lib!FlattenSeq(x \o y) = Lib!FlattenSeq(x) \o Lib!FlattenSeq(y)
    BY <2>1, FlattenConcat
  <2> QED BY <2>2 DEF x, y
<1>6. Lib!Squeezed(a) = Lib!FlattenSeq(Mapped(K, a))
      /\ Lib!Squeezed(b) = Lib!FlattenSeq(Mapped(K, b))
  BY SqueezedIs
<1> HIDE DEF t
<1>7. Lib!Squeezed(t) = Lib!FlattenSeq(Mapped(K, t))
  BY <1>2, SqueezedIs
<1> QED BY <1>3, <1>5, <1>6, <1>7 DEF t

LEMMA SqueezedNone == Lib!Squeezed(<<>>) = <<>>
<1>1. [i \in DOMAIN <<>> |-> IF <<>>[i] \in Blank THEN <<>> ELSE << <<>>[i] >>] = <<>>
  OBVIOUS
<1> QED BY <1>1, FlattenEmpty DEF Lib!Squeezed

\* What base64_decode_file() knows between two reads
State(out, pending) == [out |-> out, pending |-> pending]
DecodeStates(B) == [out : Seq(Decoded(B)), pending : Seq(Symbols(B))]

\* One read: whole groups x are decoded and y kept back, after the last read nothing is
OneRead(s, data, x, y) ==
  /\ s.pending \o Lib!Squeezed(data) = x \o y
  /\ Lib!DecodeStep(s, data) = State(s.out \o Lib!B64decode(x), y)
  /\ data = <<>> => y = <<>>
  /\ data # <<>> => \E q \in Nat : Len(x) = 4 * q

LEMMA DecodesOnce ==
  ASSUME NEW B, NEW s \in DecodeStates(B), NEW data \in Seq(Data(B))
  PROVE  \E x, y \in Seq(Symbols(B)) : OneRead(s, data, x, y)
<1> DEFINE p == s.pending \o Lib!Squeezed(data)
           size == IF data = <<>> THEN Len(p) ELSE (Len(p) \div 4) * 4
           x == SubSeq(p, 1, size)
           y == SubSeq(p, size + 1, Len(p))
<1>1. p \in Seq(Symbols(B))
  <2>1. s.pending \in Seq(Symbols(B))
    BY DEF DecodeStates
  <2>2. Lib!Squeezed(data) \in Seq(Symbols(B))
    BY SqueezedIs
  <2> QED BY <2>1, <2>2
<1>2. Lib!DecodeStep(s, data) = State(s.out \o Lib!B64decode(x), y)
  BY DEF Lib!DecodeStep, State
<1> HIDE DEF p
<1>3. size \in Nat /\ size <= Len(p)
      /\ (data # <<>> => size = 4 * (Len(p) \div 4) /\ Len(p) \div 4 \in Nat)
  <2>1. Len(p) \in Nat
    BY <1>1
  <2> QED BY <2>1
<1>4. data = <<>> => size = Len(p)
  OBVIOUS
<1> HIDE DEF size
<1>5. x \in Seq(Symbols(B)) /\ y \in Seq(Symbols(B)) /\ Len(x) = size /\ Len(y) = Len(p) - size
      /\ p = x \o y
  BY <1>1, <1>3, Cut
<1> HIDE DEF x, y
<1>6. data = <<>> => y = <<>>
  <2> SUFFICES ASSUME data = <<>> PROVE y = <<>>
    OBVIOUS
  <2>1. Len(y) = 0
    BY <1>1, <1>4, <1>5
  <2> QED BY <1>5, <2>1
<1>7. data # <<>> => \E q \in Nat : Len(x) = 4 * q
  BY <1>3, <1>5
<1>8. OneRead(s, data, x, y)
  BY <1>2, <1>5, <1>6, <1>7 DEF OneRead, p
<1> QED BY <1>5, <1>8

LEMMA DecodeStays ==
  ASSUME NEW B, NEW s \in DecodeStates(B), NEW data \in Seq(Data(B))
  PROVE  Lib!DecodeStep(s, data) \in DecodeStates(B)
<1>1. PICK x, y \in Seq(Symbols(B)) : OneRead(s, data, x, y)
  BY DecodesOnce
<1>2. Lib!B64decode(x) \in Seq(Decoded(B)) /\ s.out \in Seq(Decoded(B))
  BY DecodeTyped DEF DecodeStates
<1>3. s.out \o Lib!B64decode(x) \in Seq(Decoded(B))
  BY <1>2
<1> QED BY <1>1, <1>3 DEF OneRead, State, DecodeStates

Decodes(B) == [p \in DecodeStates(B) \X Seq(Data(B)) |-> Lib!DecodeStep(p[1], p[2])]

LEMMA DecodesTyped ==
  ASSUME NEW B
  PROVE  /\ Decodes(B) \in [DecodeStates(B) \X Seq(Data(B)) -> DecodeStates(B)]
         /\ \A s \in DecodeStates(B), c \in Seq(Data(B)) :
              Decodes(B)[<<s, c>>] = Lib!DecodeStep(s, c)
<1>1. \A p \in DecodeStates(B) \X Seq(Data(B)) : Lib!DecodeStep(p[1], p[2]) \in DecodeStates(B)
  BY DecodeStays
<1>2. \A s \in DecodeStates(B), c \in Seq(Data(B)) : Decodes(B)[<<s, c>>] = Lib!DecodeStep(s, c)
  BY DEF Decodes
<1> QED BY <1>1, <1>2 DEF Decodes

LEMMA DecodingFolds ==
  ASSUME NEW B, NEW l \in Seq(Seq(Data(B)))
  PROVE  /\ Lib!Decoding(l) \in DecodeStates(B)
         /\ \E f : Folds(f, State(<<>>, <<>>), Decodes(B), l) /\ Lib!Decoding(l) = f[Len(l)]
<1> DEFINE b == State(<<>>, <<>>)
           S == DecodeStates(B)
           R == Seq(Data(B))
           N == Len(l)
<1>1. Decodes(B) \in [S \X R -> S]
      /\ \A s \in S, c \in R : Decodes(B)[<<s, c>>] = Lib!DecodeStep(s, c)
  BY DecodesTyped
<1>2. b \in S /\ b = [out |-> <<>>, pending |-> <<>>]
  BY DEF State, DecodeStates
<1>0. l \in Seq(R)
  OBVIOUS
<1> HIDE DEF R
<1>3. N \in Nat /\ \A k \in 1 .. N : l[k] \in R
  BY <1>0
<1> HIDE DEF b, S, N
<1>4. PICK h \in [0 .. N -> S] : Folds(h, b, Decodes(B), l)
  BY <1>0, <1>1, <1>2, FoldExists DEF N
<1>5. h[0] = b /\ \A k \in 1 .. N : h[k] = Decodes(B)[<<h[k - 1], l[k]>>]
  BY <1>4 DEF Folds, N
<1>6. \A k \in 0 .. N : k # 0 => k \in 1 .. N /\ k - 1 \in 0 .. N
  BY <1>3
<1>7. ASSUME NEW k \in 0 .. N, k # 0 PROVE h[k] = Lib!DecodeStep(h[k - 1], l[k])
  <2>1. h[k - 1] \in S /\ l[k] \in R
    BY <1>3, <1>6, <1>7
  <2> QED BY <1>1, <1>5, <1>6, <1>7, <2>1
<1>8. h = [k \in 0 .. N |-> IF k = 0 THEN b ELSE Lib!DecodeStep(h[k - 1], l[k])]
  <2>1. h = [k \in 0 .. N |-> h[k]]
    OBVIOUS
  <2> QED BY <1>5, <1>7, <2>1
<1>9. PICK g : /\ g = [k \in 0 .. N |-> IF k = 0 THEN b ELSE Lib!DecodeStep(g[k - 1], l[k])]
               /\ Lib!Decoding(l) = g[N]
  BY <1>2, <1>8 DEF Lib!Decoding, N
<1>10. g[0] = b /\ \A k \in 1 .. N : g[k] = Lib!DecodeStep(g[k - 1], l[k])
  <2>1. 0 \in 0 .. N /\ \A k \in 1 .. N : k \in 0 .. N /\ k # 0
    BY <1>3
  <2> QED BY <1>9, <2>1
<1>11. Stays(g, b, Decodes(B), l, S)
  BY <1>1, <1>3, <1>10 DEF Stays, N
<1>12. Folds(g, b, Decodes(B), l) /\ g[Len(l)] \in S
  BY <1>0, <1>1, <1>2, <1>11, FoldTyped
<1> QED BY <1>9, <1>12 DEF N, S, b

LEMMA DecodingEmpty == Lib!Decoding(<<>>) = State(<<>>, <<>>)
<1>1. <<>> \in Seq(Seq(Data({}))) /\ Len(<<>>) = 0
  OBVIOUS
<1>2. PICK f : Folds(f, State(<<>>, <<>>), Decodes({}), <<>>) /\ Lib!Decoding(<<>>) = f[Len(<<>>)]
  BY <1>1, DecodingFolds
<1> QED BY <1>1, <1>2 DEF Folds

LEMMA DecodingAppend ==
  ASSUME NEW B, NEW l \in Seq(Seq(Data(B))), NEW c \in Seq(Data(B))
  PROVE  Lib!Decoding(l) \in DecodeStates(B)
         /\ Lib!Decoding(Append(l, c)) = Lib!DecodeStep(Lib!Decoding(l), c)
<1> DEFINE m == Append(l, c)
           b == State(<<>>, <<>>)
           R == Seq(Data(B))
<1>0. l \in Seq(R) /\ c \in R
  OBVIOUS
<1>1. m \in Seq(Seq(Data(B))) /\ Len(m) = Len(l) + 1
  OBVIOUS
<1>2. PICK f : Folds(f, b, Decodes(B), l) /\ Lib!Decoding(l) = f[Len(l)]
  <2> HIDE DEF b
  <2> QED BY DecodingFolds DEF b
<1>3. PICK g : Folds(g, b, Decodes(B), m) /\ Lib!Decoding(m) = g[Len(m)]
  <2> HIDE DEF m, b
  <2> QED BY <1>1, DecodingFolds DEF b
<1>4. Lib!Decoding(l) \in DecodeStates(B)
  BY DecodingFolds
<1>5. Decodes(B)[<<Lib!Decoding(l), c>>] = Lib!DecodeStep(Lib!Decoding(l), c)
  BY <1>4, DecodesTyped
<1> HIDE DEF b, R
<1>6. g[Len(l) + 1] = Decodes(B)[<<f[Len(l)], c>>]
  BY <1>0, <1>2, <1>3, FoldAppend
<1> QED BY <1>1, <1>2, <1>3, <1>4, <1>5, <1>6

\* Reads that are not empty: what is decoded is the whole groups w of what was read
SoFar(reads, w, q) ==
  /\ Lib!Squeezed(Lib!FlattenSeq(reads)) = w \o Lib!Decoding(reads).pending
  /\ Lib!Decoding(reads).out = Lib!B64decode(w)
  /\ Len(w) = 4 * q

LEMMA ReadsDecoded ==
  ASSUME NEW B, NEW reads \in Seq(Seq(Data(B)) \ {<<>>})
  PROVE  \E w \in Seq(Symbols(B)), q \in Nat : SoFar(reads, w, q)
<1> DEFINE R == Seq(Data(B)) \ {<<>>}
           X(l) == Lib!Squeezed(Lib!FlattenSeq(l))
           D(l) == Lib!Decoding(l)
           P == {l \in Seq(R) : \E w \in Seq(Symbols(B)), q \in Nat : SoFar(l, w, q)}
<1>0. Seq(R) \subseteq Seq(Seq(Data(B)))
  OBVIOUS
<1>1. <<>> \in P
  <2>1. X(<<>>) = <<>>
    BY FlattenEmpty, SqueezedNone
  <2>2. D(<<>>).pending = <<>> /\ D(<<>>).out = <<>>
    BY DecodingEmpty DEF State
  <2>3. Lib!B64decode(<<>>) = <<>>
    BY DecodeNone
  <2>4. <<>> \o <<>> = <<>> /\ <<>> \in Seq(Symbols(B)) /\ Len(<<>>) = 4 * 0 /\ 0 \in Nat
        /\ <<>> \in Seq(R)
    OBVIOUS
  <2>5. SoFar(<<>>, <<>>, 0)
    <3> DEFINE x == X(<<>>)  d == D(<<>>)
    <3>1. x = <<>> \o d.pending /\ d.out = Lib!B64decode(<<>>) /\ Len(<<>>) = 4 * 0
      <4> HIDE DEF x, d
      <4> QED BY <2>1, <2>2, <2>3, <2>4 DEF x, d
    <3> QED BY <3>1 DEF SoFar
  <2> QED BY <2>4, <2>5
<1>2. ASSUME NEW l \in Seq(R), NEW c \in R, l \in P PROVE Append(l, c) \in P
  <2> DEFINE m == Append(l, c)
             s == D(l)
             f == Lib!FlattenSeq(l)
  <2>1. l \in Seq(Seq(Data(B))) /\ c \in Seq(Data(B)) /\ c # <<>> /\ m \in Seq(R)
    BY <1>0
  <2>2. s \in DecodeStates(B) /\ D(m) = Lib!DecodeStep(s, c)
    BY <2>1, DecodingAppend
  <2>3. f \in Seq(Data(B)) /\ Lib!FlattenSeq(m) = f \o c
    BY <2>1, FlattenAppend
  <2> HIDE DEF f
  <2>4. X(m) = X(l) \o Lib!Squeezed(c) /\ Lib!Squeezed(c) \in Seq(Symbols(B))
    <3>1. Lib!Squeezed(f \o c) = Lib!Squeezed(f) \o Lib!Squeezed(c)
      BY <2>1, <2>3, SqueezedApart
    <3>2. Lib!Squeezed(c) \in Seq(Symbols(B))
      BY <2>1, SqueezedIs
    <3> QED BY <2>3, <3>1, <3>2 DEF f
  <2> HIDE DEF m, s, X, D
  <2>5. PICK w \in Seq(Symbols(B)), q \in Nat : SoFar(l, w, q)
    BY <1>2
  <2>6. PICK x, y \in Seq(Symbols(B)) : OneRead(s, c, x, y)
    BY <2>1, <2>2, DecodesOnce
  <2>7. PICK r \in Nat : Len(x) = 4 * r
    BY <2>1, <2>6 DEF OneRead
  <2>8. D(m).out = s.out \o Lib!B64decode(x) /\ D(m).pending = y
    BY <2>2, <2>6 DEF OneRead, State
  <2>9. w \o x \in Seq(Symbols(B)) /\ Len(w \o x) = 4 * (q + r) /\ q + r \in Nat
    <3>1. Len(w) = 4 * q
      BY <2>5 DEF SoFar
    <3>2. w \o x \in Seq(Symbols(B)) /\ Len(w \o x) = Len(w) + Len(x)
      OBVIOUS
    <3>3. 4 * q + 4 * r = 4 * (q + r)
      OBVIOUS
    <3> QED BY <2>7, <3>1, <3>2, <3>3
  <2>10. Lib!B64decode(w \o x) = Lib!B64decode(w) \o Lib!B64decode(x)
    <3>1. Len(w) = 4 * q
      BY <2>5 DEF SoFar
    <3> QED BY <3>1, DecodeApart
  <2>a. Apart(Symbols(B))
    BY JoinsApart
  <2>11. X(m) = (w \o x) \o y
    <3> DEFINE p == s.pending
               k == Lib!Squeezed(c)
    <3>1. p \in Seq(Symbols(B)) /\ k \in Seq(Symbols(B))
      BY <2>2, <2>4 DEF DecodeStates
    <3>2. X(m) = (w \o p) \o k
      <4>1. X(l) = w \o p
        BY <2>5 DEF SoFar, s, X, D
      <4> QED BY <2>4, <4>1
    <3>3. p \o k = x \o y
      BY <2>6 DEF OneRead
    <3> HIDE DEF p, k
    <3>4. (w \o p) \o k = w \o (p \o k) /\ (w \o x) \o y = w \o (x \o y)
      BY <2>a, <3>1, ZenonT(60) DEF Apart
    <3> QED BY <3>2, <3>3, <3>4
  <2>12. s.out = Lib!B64decode(w)
    BY <2>5 DEF SoFar, s, X, D
  <2>13. SoFar(m, w \o x, q + r)
    BY <2>8, <2>9, <2>10, <2>11, <2>12 DEF X, D, SoFar
  <2>14. \E v \in Seq(Symbols(B)), k \in Nat : SoFar(m, v, k)
    BY <2>9, <2>13
  <2> QED BY <2>1, <2>14 DEF m
<1>3. Seq(R) \subseteq P
  <2> HIDE DEF P, R
  <2> QED BY <1>1, <1>2, SeqInduction
<1>4. PICK w \in Seq(Symbols(B)), q \in Nat : SoFar(reads, w, q)
  BY <1>3
<1> QED BY <1>4

LEMMA Base64IsWhole ==
  ASSUME NEW B, NEW t \in Seq(B), NEW size \in Nat, size >= 3, NEW reads \in Seq(Seq(Data(B)))
  PROVE  Lib!Base64Whole(t, size, reads)
<1>1. Lib!EncodeFile(t, size) = Lib!B64encode(t)
  BY FileIsEncoded
<1>2. ASSUME \A i \in DOMAIN reads : reads[i] # <<>>,
             Lib!Squeezed(Lib!FlattenSeq(reads)) = Lib!EncodeFile(t, size)
      PROVE  Lib!DecodeFile(reads) = t
  <2> DEFINE s == Lib!Decoding(reads)
             all == Lib!B64encode(t)
  <2>1. reads \in Seq(Seq(Data(B)) \ {<<>>})
    <3>1. reads \in [1 .. Len(reads) -> Seq(Data(B)) \ {<<>>}] /\ Len(reads) \in Nat
      BY <1>2
    <3>2. \A k \in Nat : \A f \in [1 .. k -> Seq(Data(B)) \ {<<>>}] :
            f \in Seq(Seq(Data(B)) \ {<<>>})
      OBVIOUS
    <3> QED BY <3>1, <3>2
  <2>2. PICK w \in Seq(Symbols(B)), q \in Nat :
          all = w \o s.pending /\ s.out = Lib!B64decode(w) /\ Len(w) = 4 * q
    <3>1. PICK w \in Seq(Symbols(B)), q \in Nat : SoFar(reads, w, q)
      BY <2>1, ReadsDecoded
    <3> QED BY <1>1, <1>2, <3>1 DEF SoFar
  <2>3. <<>> \in Seq(Data(B))
    OBVIOUS
  <2>4. s \in DecodeStates(B) /\ Lib!DecodeFile(reads) = Lib!DecodeStep(s, <<>>).out
    BY <2>3, DecodingAppend DEF Lib!DecodeFile
  <2> HIDE DEF s, all
  <2>5. PICK x, y \in Seq(Symbols(B)) : OneRead(s, <<>>, x, y)
    BY <2>3, <2>4, DecodesOnce
  <2>6. s.pending \in Seq(Symbols(B)) /\ x = s.pending
    <3>1. s.pending \in Seq(Symbols(B))
      BY <2>4 DEF DecodeStates
    <3>2. s.pending \o <<>> = x \o <<>>
      BY <2>5, SqueezedNone DEF OneRead
    <3>3. \A z \in Seq(Symbols(B)) : z \o <<>> = z
      OBVIOUS
    <3> QED BY <3>1, <3>2, <3>3
  <2>7. Lib!DecodeStep(s, <<>>).out = s.out \o Lib!B64decode(x)
    BY <2>5 DEF OneRead, State
  <2>8. Lib!B64decode(w \o x) = Lib!B64decode(w) \o Lib!B64decode(x)
    BY <2>2, DecodeApart
  <2>9. Lib!B64decode(all) = t
    BY EncodedIsDecoded DEF all
  <2>10. Lib!B64decode(w \o x) = t
    <3>1. w \o x = all
      BY <2>2, <2>6
    <3> QED BY <2>9, <3>1
  <2>11. Lib!DecodeFile(reads) = Lib!B64decode(w) \o Lib!B64decode(x)
    BY <2>2, <2>4, <2>7
  <2> QED BY <2>8, <2>10, <2>11
<1> QED BY <1>1, <1>2 DEF Lib!Base64Whole

\* Lines that are written piece by piece are substituted piece by piece, and base 64 does
\* not depend on how a stream is cut: linesubst() and txtsubst() for lines of any pieces,
\* variables of any values and names escaped anyhow; base64_encode_file() for chunks of
\* every size that it accepts, base64_decode_file() for any reads, blanks anywhere.
THEOREM HelpersAreExact ==
  ASSUME NEW Sign, Signs(Sign), NEW Pieces, \A p \in Pieces : Piece(p, Sign), NEW Byte,
         input.op = "line" => input.pieces \in Seq(Pieces),
         input.op = "base64" =>
           /\ input.bytes \in Seq(Byte) /\ input.size \in Nat /\ input.size >= 3
           /\ input.reads \in Seq(Seq(Data(Byte)))
  PROVE  HelpersExact
<1>1. input.op = "line" => Lib!SubstByPieces(input.pieces)
  BY LinesAreExact
<1>2. input.op = "base64" => Lib!Base64Whole(input.bytes, input.size, input.reads)
  BY Base64IsWhole
<1> QED BY <1>1, <1>2 DEF HelpersExact

-----------------------------------------------------------------------------
(* URIs: what is encoded is made of characters no part is cut at, and of   *)
(* escapes, which are none of them, so a text is cut again where it was    *)
(* joined, and decoding takes the escapes away.                            *)

\* No element of t is in C
Free(t, C) == \A i \in 1 .. Len(t) : t[i] \notin C

\* n is the place of the first element of t in C, or 0
FirstAt(t, C, n) ==
  \/ n = 0 /\ Free(t, C)
  \/ /\ n \in 1 .. Len(t) /\ t[n] \in C
     /\ \A j \in 1 .. Len(t) : j < n => t[j] \notin C

\* What First finds
LEMMA FirstIs ==
  ASSUME NEW X, NEW t \in Seq(X), NEW C
  PROVE  FirstAt(t, C, Uris!First(t, C))
<1> DEFINE I == {i \in 1 .. Len(t) : t[i] \in C}
<1>1. CASE I = {}
  <2>1. Uris!First(t, C) = 0
    BY <1>1 DEF Uris!First, Uris!SelectInSeq
  <2> QED BY <1>1, <2>1 DEF FirstAt, Free
<1>2. CASE I # {}
  <2>1. I \in SUBSET Nat
    OBVIOUS
  <2>2. PICK m \in I : \A k \in I : ~(k < m)
    BY <1>2, <2>1, Least
  <2>3. Uris!First(t, C) = Uris!Min(I)
    BY <1>2 DEF Uris!First, Uris!SelectInSeq
  <2>4. \A x \in I : (\A y \in I : x <= y) => x = m
    BY <2>2
  <2>5. \A y \in I : m <= y
    BY <2>2
  <2>6. Uris!Min(I) = m
    BY <2>2, <2>4, <2>5 DEF Uris!Min
  <2>7. m \in 1 .. Len(t) /\ t[m] \in C
    OBVIOUS
  <2>8. \A j \in 1 .. Len(t) : j < m => t[j] \notin C
    BY <2>2
  <2> QED BY <2>3, <2>6, <2>7, <2>8 DEF FirstAt
<1> QED BY <1>1, <1>2

\* t is cut at the first element of C
Cuts(t, C, u, v) == Uris!Before(t, C) = u /\ Uris!After(t, C) = v

\* A text without a delimiter is whole
LEMMA Whole ==
  ASSUME NEW X, NEW t \in Seq(X), NEW C, Free(t, C)
  PROVE  Cuts(t, C, t, <<>>)
<1>1. Uris!First(t, C) = 0
  BY FirstIs DEF FirstAt, Free
<1> QED BY <1>1 DEF Cuts, Uris!Before, Uris!After, Uris!Until, Uris!Past

\* A text, a delimiter and another text: where each one is
LEMMA CutAt ==
  ASSUME NEW X, NEW u \in Seq(X), NEW c \in X, NEW v \in Seq(X)
  PROVE  /\ u \o (<<c>> \o v) \in Seq(X)
         /\ Len(u \o (<<c>> \o v)) = Len(u) + 1 + Len(v) /\ Len(u) \in Nat /\ Len(v) \in Nat
         /\ (u \o (<<c>> \o v))[Len(u) + 1] = c
         /\ \A i \in 1 .. Len(u) : (u \o (<<c>> \o v))[i] = u[i]
         /\ SubSeq(u \o (<<c>> \o v), 1, Len(u)) = u
         /\ SubSeq(u \o (<<c>> \o v), Len(u) + 2, Len(u) + 1 + Len(v)) = v
<1> DEFINE w == <<c>> \o v
           t == u \o w
<1>1. /\ w \in Seq(X) /\ Len(w) = 1 + Len(v) /\ w[1] = c
      /\ \A i \in 1 .. Len(v) : w[i + 1] = v[i]
  OBVIOUS
<1> HIDE DEF w
<1>2. /\ t \in Seq(X) /\ Len(t) = Len(u) + Len(w)
      /\ \A i \in 1 .. Len(u) : t[i] = u[i]
      /\ \A i \in 1 .. Len(w) : t[Len(u) + i] = w[i]
  BY <1>1
<1>3. Len(u) \in Nat /\ Len(v) \in Nat
  OBVIOUS
<1> HIDE DEF t
<1>4. Len(t) = Len(u) + 1 + Len(v) /\ t[Len(u) + 1] = c
  BY <1>1, <1>2, <1>3
<1> DEFINE a == SubSeq(t, 1, Len(u))
           b == SubSeq(t, Len(u) + 2, Len(u) + 1 + Len(v))
<1>5. a \in Seq(X) /\ Len(a) = Len(u) /\ \A i \in 1 .. Len(u) : a[i] = t[i]
  BY <1>2, <1>3, <1>4
<1>6. b \in Seq(X) /\ Len(b) = Len(v) /\ \A i \in 1 .. Len(v) : b[i] = t[Len(u) + 1 + i]
  BY <1>2, <1>3, <1>4
<1>7. \A i \in 1 .. Len(v) : t[Len(u) + 1 + i] = v[i]
  <2> TAKE i \in 1 .. Len(v)
  <2>1. i + 1 \in 1 .. Len(w) /\ Len(u) + (i + 1) = Len(u) + 1 + i
    BY <1>1, <1>3
  <2> QED BY <1>1, <1>2, <2>1
<1> HIDE DEF a, b
<1>8. a = u
  BY <1>2, <1>3, <1>5
<1>9. b = v
  BY <1>3, <1>6, <1>7
<1> QED BY <1>2, <1>3, <1>4, <1>8, <1>9 DEF a, b, t, w

\* The first delimiter is the one after the text that has none
LEMMA FirstEnds ==
  ASSUME NEW X, NEW C, NEW u \in Seq(X), Free(u, C), NEW c \in X, c \in C, NEW v \in Seq(X)
  PROVE  Uris!First(u \o (<<c>> \o v), C) = Len(u) + 1
<1> DEFINE t == u \o (<<c>> \o v)
<1>1. /\ t \in Seq(X) /\ Len(t) = Len(u) + 1 + Len(v) /\ Len(u) \in Nat /\ Len(v) \in Nat
      /\ t[Len(u) + 1] = c
      /\ \A i \in 1 .. Len(u) : t[i] = u[i]
  BY CutAt
<1> HIDE DEF t
<1> DEFINE n == Uris!First(t, C)
<1>2. FirstAt(t, C, n)
  BY <1>1, FirstIs
<1> HIDE DEF n
<1>3. Len(u) + 1 \in 1 .. Len(t) /\ t[Len(u) + 1] \in C
  BY <1>1
<1>4. n \in 1 .. Len(t) /\ t[n] \in C /\ \A j \in 1 .. Len(t) : j < n => t[j] \notin C
  BY <1>2, <1>3 DEF FirstAt, Free
<1>5. ~(n <= Len(u))
  BY <1>1, <1>4 DEF Free
<1>6. ~(Len(u) + 1 < n)
  BY <1>3, <1>4
<1>7. n = Len(u) + 1
  BY <1>1, <1>4, <1>5, <1>6
<1> QED BY <1>7 DEF n, t

\* A text is cut at its first delimiter
LEMMA EndsAt ==
  ASSUME NEW X, NEW C, NEW u \in Seq(X), Free(u, C), NEW c \in X, c \in C, NEW v \in Seq(X)
  PROVE  Cuts(u \o (<<c>> \o v), C, u, v)
<1> DEFINE t == u \o (<<c>> \o v)
<1>1. /\ t \in Seq(X) /\ Len(t) = Len(u) + 1 + Len(v) /\ Len(u) \in Nat /\ Len(v) \in Nat
      /\ t[Len(u) + 1] = c
      /\ \A i \in 1 .. Len(u) : t[i] = u[i]
  BY CutAt
<1>2. SubSeq(t, 1, Len(u)) = u
  BY CutAt
<1>3. SubSeq(t, Len(u) + 2, Len(u) + 1 + Len(v)) = v
  BY CutAt
<1> HIDE DEF t
<1> DEFINE n == Uris!First(t, C)
<1>4. n = Len(u) + 1
  BY FirstEnds DEF t
<1> HIDE DEF n
<1>5. n # 0 /\ n - 1 = Len(u) /\ n + 1 = Len(u) + 2
  BY <1>1, <1>4
<1>6. Uris!Until(t, n) = u
  BY <1>2, <1>5 DEF Uris!Until
<1>7. Uris!Past(t, n) = v
  BY <1>1, <1>3, <1>5 DEF Uris!Past
<1>8. Cuts(t, C, u, v)
  BY <1>6, <1>7 DEF Cuts, Uris!Before, Uris!After, n
<1> QED BY <1>8 DEF t

LEMMA NoneAfter ==
  ASSUME NEW X, NEW u \in Seq(X)
  PROVE  u \o <<>> = u /\ <<>> \o u = u
OBVIOUS

\* The same of a text and one that is marked, if there is one
LEMMA MarkEnds ==
  ASSUME NEW X, NEW C, NEW u \in Seq(X), Free(u, C), NEW c \in X, c \in C, NEW v \in Seq(X)
  PROVE  Cuts(u \o Uris!Marked(<<c>>, v), C, u, v)
<1>1. CASE v = <<>>
  <2>1. Uris!Marked(<<c>>, v) = <<>>
    BY <1>1 DEF Uris!Marked
  <2>2. u \o <<>> = u
    BY NoneAfter
  <2> QED BY <1>1, <2>1, <2>2, Whole
<1>2. CASE v # <<>>
  <2>1. Uris!Marked(<<c>>, v) = <<c>> \o v
    BY <1>2 DEF Uris!Marked
  <2> QED BY <2>1, EndsAt
<1> QED BY <1>1, <1>2

LEMMA CutTyped ==
  ASSUME NEW X, NEW t \in Seq(X), NEW C
  PROVE  Uris!Before(t, C) \in Seq(X) /\ Uris!After(t, C) \in Seq(X)
<1> DEFINE n == Uris!First(t, C)
<1>1. n \in 0 .. Len(t)
  <2>1. FirstAt(t, C, n)
    BY FirstIs
  <2> HIDE DEF n
  <2> QED BY <2>1 DEF FirstAt
<1> HIDE DEF n
<1>2. SubSeq(t, 1, n - 1) \in Seq(X) /\ SubSeq(t, n + 1, Len(t)) \in Seq(X) /\ <<>> \in Seq(X)
  BY <1>1
<1>3. Uris!Until(t, n) \in Seq(X) /\ Uris!Past(t, n) \in Seq(X)
  BY <1>2 DEF Uris!Until, Uris!Past
<1> QED BY <1>3 DEF Uris!Before, Uris!After, n

LEMMA FreeIn ==
  ASSUME NEW S, NEW t \in Seq(S), NEW C, S \cap C = {}
  PROVE  Free(t, C)
BY DEF Free

LEMMA Widen ==
  ASSUME NEW S, NEW X, S \subseteq X, NEW t \in Seq(S)
  PROVE  t \in Seq(X)
OBVIOUS

\* Filters
Dropping(E, D) == [x \in E |-> IF x \in D THEN <<>> ELSE <<x>>]

LEMMA SameFlatten == ASSUME NEW s PROVE Uris!FlattenSeq(s) = Lib!FlattenSeq(s)
BY DEF Uris!FlattenSeq, Lib!FlattenSeq

LEMMA MapAppend ==
  ASSUME NEW E, NEW D, NEW G, Maps(G, E, D), NEW s \in Seq(E), NEW a \in E
  PROVE  /\ Mapped(G, Append(s, a)) = Append(Mapped(G, s), G[a])
         /\ Mapped(G, s) \in Seq(D) /\ G[a] \in D
<1>1. <<a>> \in Seq(E) /\ Append(s, a) = s \o <<a>>
  OBVIOUS
<1>2. Mapped(G, s \o <<a>>) = Mapped(G, s) \o Mapped(G, <<a>>)
  <2> DEFINE b == <<a>>
  <2>1. b \in Seq(E)
    BY <1>1
  <2> HIDE DEF b
  <2>2. Mapped(G, s \o b) = Mapped(G, s) \o Mapped(G, b)
    BY <2>1, MapConcat
  <2> QED BY <2>2 DEF b
<1>3. Mapped(G, <<a>>) = <<G[a]>>
  BY MapOne
<1>4. Mapped(G, s) \in Seq(D)
  BY MapTyped
<1>5. G[a] \in D
  BY DEF Maps
<1>6. Mapped(G, s) \o <<G[a]>> = Append(Mapped(G, s), G[a])
  <2> DEFINE m == Mapped(G, s)  b == G[a]
  <2>1. m \in Seq(D) /\ b \in D
    BY <1>4, <1>5
  <2> HIDE DEF m, b
  <2>2. m \o <<b>> = Append(m, b)
    BY <2>1
  <2> QED BY <2>2 DEF m, b
<1> QED BY <1>1, <1>2, <1>3, <1>4, <1>5, <1>6

\* What Without leaves
LEMMA WithoutIs ==
  ASSUME NEW E, NEW D, NEW s \in Seq(E)
  PROVE  /\ Maps(Dropping(E, D), E, Seq(E \ D))
         /\ Uris!Without(s, D) = Lib!FlattenSeq(Mapped(Dropping(E, D), s))
         /\ Uris!Without(s, D) \in Seq(E \ D)
<1>1. Maps(Dropping(E, D), E, Seq(E \ D))
  <2>1. ASSUME NEW x \in E PROVE (IF x \in D THEN <<>> ELSE <<x>>) \in Seq(E \ D)
    <3>1. CASE x \in D
      <4>1. <<>> \in Seq(E \ D)
        OBVIOUS
      <4> QED BY <3>1, <4>1
    <3>2. CASE x \notin D
      <4>1. x \in E \ D
        BY <3>2
      <4>2. <<x>> \in Seq(E \ D)
        BY <4>1
      <4> QED BY <3>2, <4>2
    <3> QED BY <3>1, <3>2
  <2> QED BY <2>1 DEF Maps, Dropping
<1>2. \A i \in DOMAIN s : s[i] \in E
  OBVIOUS
<1>3. Mapped(Dropping(E, D), s) = [i \in DOMAIN s |-> IF s[i] \in D THEN <<>> ELSE <<s[i]>>]
  BY <1>2 DEF Mapped, Dropping
<1>4. Uris!Without(s, D) = Uris!FlattenSeq(Mapped(Dropping(E, D), s))
  BY <1>3 DEF Uris!Without
<1>5. Mapped(Dropping(E, D), s) \in Seq(Seq(E \ D))
  BY <1>1, MapTyped
<1>6. Lib!FlattenSeq(Mapped(Dropping(E, D), s)) \in Seq(E \ D)
  BY <1>5, FlattenFolds
<1> QED BY <1>1, <1>4, <1>6, SameFlatten

LEMMA WithoutNone ==
  ASSUME NEW E, NEW D, NEW s \in Seq(E \ D)
  PROVE  Uris!Without(s, D) = s
<1> DEFINE K == Dropping(E, D)
           S == Seq(E \ D)
           P == {t \in S : Lib!FlattenSeq(Mapped(K, t)) = t}
<1>1. Maps(K, E, S)
  <2>1. <<>> \in Seq(E)
    OBVIOUS
  <2> QED BY <2>1, WithoutIs
<1>2. \A t \in S : t \in Seq(E)
  OBVIOUS
<1>3. <<>> \in P
  <2>1. Mapped(K, <<>>) = <<>>
    BY DEF Mapped
  <2> QED BY <2>1, FlattenEmpty
<1>4. ASSUME NEW t \in S, NEW x \in E \ D, t \in P PROVE Append(t, x) \in P
  <2>1. t \in Seq(E) /\ x \in E /\ Append(t, x) \in S
    OBVIOUS
  <2>2. K[x] = <<x>>
    BY DEF Dropping
  <2> HIDE DEF K
  <2>3. Mapped(K, Append(t, x)) = Append(Mapped(K, t), K[x]) /\ Mapped(K, t) \in Seq(S) /\ K[x] \in S
    <3> HIDE DEF S
    <3> QED BY <1>1, <2>1, MapAppend
  <2>4. Lib!FlattenSeq(Append(Mapped(K, t), K[x])) = Lib!FlattenSeq(Mapped(K, t)) \o K[x]
    BY <2>3, FlattenAppend
  <2>5. Lib!FlattenSeq(Mapped(K, t)) = t
    BY <1>4
  <2>6. t \o <<x>> = Append(t, x)
    OBVIOUS
  <2>7. Lib!FlattenSeq(Mapped(K, Append(t, x))) = Append(t, x)
    BY <2>2, <2>3, <2>4, <2>5, <2>6
  <2> QED BY <2>1, <2>7
<1>5. S \subseteq P
  <2> HIDE DEF P
  <2> QED BY <1>3, <1>4, SeqInduction
<1>6. Uris!Without(s, D) = Lib!FlattenSeq(Mapped(K, s))
  <2>1. s \in Seq(E)
    BY <1>2
  <2> QED BY <2>1, WithoutIs
<1>7. s \in P
  BY <1>5
<1>8. Lib!FlattenSeq(Mapped(K, s)) = s
  BY <1>7
<1> QED BY <1>6, <1>8

-----------------------------------------------------------------------------
(* split_query() and unsplit_query().                                      *)

Ampersand == "&"
Equals == "="

\* What is known of a query as far as it is read: whole assignments, and the one being read
Scan(d, l) == [done |-> d, last |-> l]
Scans(X) == [done : Seq(Seq(X)), last : Seq(X)]
Assigns(X) == [p \in Scans(X) \X X |-> Uris!Assign(p[1], p[2])]

LEMMA ScanTyped == ASSUME NEW X, NEW d \in Seq(Seq(X)), NEW l \in Seq(X) PROVE Scan(d, l) \in Scans(X)
BY DEF Scan, Scans

LEMMA AssignIs ==
  ASSUME NEW d, NEW l, NEW c
  PROVE  Uris!Assign(Scan(d, l), c)
           = IF c = Ampersand THEN Scan(Append(d, l), <<>>) ELSE Scan(d, Append(l, c))
<1> DEFINE s == [done |-> d, last |-> l]
<1>1. s.done = d /\ s.last = l
  OBVIOUS
<1>2. [s EXCEPT !.last = Append(@, c)] = [done |-> d, last |-> Append(l, c)]
  OBVIOUS
<1> HIDE DEF s
<1>3. Uris!Assign(s, c)
        = IF c = "&" THEN [done |-> Append(s.done, s.last), last |-> <<>>]
          ELSE [s EXCEPT !.last = Append(@, c)]
  BY DEF Uris!Assign
<1>4. c = Ampersand <=> c = "&"
  BY DEF Ampersand
<1>5. CASE c = Ampersand
  <2>1. Uris!Assign(s, c) = [done |-> Append(s.done, s.last), last |-> <<>>]
    BY <1>3, <1>4, <1>5
  <2>2. Uris!Assign(s, c) = [done |-> Append(d, l), last |-> <<>>]
    BY <1>1, <2>1
  <2> QED BY <1>5, <2>2 DEF Scan, s
<1>6. CASE c # Ampersand
  <2>1. Uris!Assign(s, c) = [s EXCEPT !.last = Append(@, c)]
    BY <1>3, <1>4, <1>6
  <2>2. Uris!Assign(s, c) = [done |-> d, last |-> Append(l, c)]
    BY <1>2, <2>1
  <2> QED BY <1>6, <2>2 DEF Scan, s
<1> QED BY <1>5, <1>6

LEMMA ScanIs ==
  ASSUME NEW X, NEW s \in Scans(X)
  PROVE  s = Scan(s.done, s.last) /\ s.done \in Seq(Seq(X)) /\ s.last \in Seq(X)
BY DEF Scan, Scans

LEMMA AssignStays ==
  ASSUME NEW X, NEW s \in Scans(X), NEW c \in X
  PROVE  Uris!Assign(s, c) \in Scans(X)
<1> DEFINE d == s.done
           l == s.last
<1>1. s = Scan(d, l) /\ d \in Seq(Seq(X)) /\ l \in Seq(X)
  BY ScanIs
<1> HIDE DEF d, l
<1>2. Append(d, l) \in Seq(Seq(X)) /\ Append(l, c) \in Seq(X) /\ <<>> \in Seq(X)
  BY <1>1
<1>3. Scan(Append(d, l), <<>>) \in Scans(X) /\ Scan(d, Append(l, c)) \in Scans(X)
  BY <1>1, <1>2, ScanTyped
<1>4. Uris!Assign(Scan(d, l), c) \in Scans(X)
  BY <1>3, AssignIs
<1> QED BY <1>1, <1>4

LEMMA AssignsTyped ==
  ASSUME NEW X
  PROVE  /\ Assigns(X) \in [Scans(X) \X X -> Scans(X)]
         /\ \A s \in Scans(X), c \in X : Assigns(X)[<<s, c>>] = Uris!Assign(s, c)
<1>1. \A p \in Scans(X) \X X : Uris!Assign(p[1], p[2]) \in Scans(X)
  BY AssignStays
<1>2. \A s \in Scans(X), c \in X : Assigns(X)[<<s, c>>] = Uris!Assign(s, c)
  BY DEF Assigns
<1> QED BY <1>1, <1>2 DEF Assigns

LEMMA AssignedFolds ==
  ASSUME NEW X, NEW t \in Seq(X)
  PROVE  /\ Uris!Assigned(t) \in Scans(X)
         /\ \E f : Folds(f, Scan(<<>>, <<>>), Assigns(X), t) /\ Uris!Assigned(t) = f[Len(t)]
<1> DEFINE b == Scan(<<>>, <<>>)
           S == Scans(X)
           N == Len(t)
<1>1. Assigns(X) \in [S \X X -> S] /\ \A s \in S, c \in X : Assigns(X)[<<s, c>>] = Uris!Assign(s, c)
  BY AssignsTyped
<1>2. b \in S /\ b = [done |-> <<>>, last |-> <<>>]
  <2>1. <<>> \in Seq(Seq(X)) /\ <<>> \in Seq(X)
    OBVIOUS
  <2> QED BY <2>1, ScanTyped DEF Scan
<1>3. N \in Nat /\ \A k \in 1 .. N : t[k] \in X
  OBVIOUS
<1> HIDE DEF b, S, N
<1>4. PICK h \in [0 .. N -> S] : Folds(h, b, Assigns(X), t)
  BY <1>1, <1>2, FoldExists DEF N
<1>5. h[0] = b /\ \A k \in 1 .. N : h[k] = Assigns(X)[<<h[k - 1], t[k]>>]
  BY <1>4 DEF Folds, N
<1>6. \A k \in 0 .. N : k # 0 => k \in 1 .. N /\ k - 1 \in 0 .. N
  BY <1>3
<1>7. ASSUME NEW k \in 0 .. N, k # 0 PROVE h[k] = Uris!Assign(h[k - 1], t[k])
  <2>1. h[k - 1] \in S /\ t[k] \in X
    BY <1>3, <1>6, <1>7
  <2> QED BY <1>1, <1>5, <1>6, <1>7, <2>1
<1>8. h = [k \in 0 .. N |-> IF k = 0 THEN b ELSE Uris!Assign(h[k - 1], t[k])]
  <2>1. h = [k \in 0 .. N |-> h[k]]
    OBVIOUS
  <2> QED BY <1>5, <1>7, <2>1
<1>9. PICK g : /\ g = [k \in 0 .. N |-> IF k = 0 THEN b ELSE Uris!Assign(g[k - 1], t[k])]
               /\ Uris!Assigned(t) = g[N]
  BY <1>2, <1>8 DEF Uris!Assigned, N
<1>10. g[0] = b /\ \A k \in 1 .. N : g[k] = Uris!Assign(g[k - 1], t[k])
  <2>1. 0 \in 0 .. N /\ \A k \in 1 .. N : k \in 0 .. N /\ k # 0
    BY <1>3
  <2> QED BY <1>9, <2>1
<1>11. Stays(g, b, Assigns(X), t, S)
  BY <1>1, <1>3, <1>10 DEF Stays, N
<1>12. Folds(g, b, Assigns(X), t) /\ g[Len(t)] \in S
  BY <1>1, <1>2, <1>11, FoldTyped
<1> QED BY <1>9, <1>12 DEF N, S, b

LEMMA AssignedEmpty == Uris!Assigned(<<>>) = Scan(<<>>, <<>>)
<1>1. <<>> \in Seq({}) /\ Len(<<>>) = 0
  OBVIOUS
<1>2. PICK f : Folds(f, Scan(<<>>, <<>>), Assigns({}), <<>>) /\ Uris!Assigned(<<>>) = f[Len(<<>>)]
  BY <1>1, AssignedFolds
<1> QED BY <1>1, <1>2 DEF Folds

\* Assigned is a fold of Assign
LEMMA AssignedAppend ==
  ASSUME NEW X, NEW t \in Seq(X), NEW c \in X
  PROVE  /\ Uris!Assigned(t) \in Scans(X)
         /\ Uris!Assigned(Append(t, c)) = Uris!Assign(Uris!Assigned(t), c)
<1> DEFINE m == Append(t, c)
           b == Scan(<<>>, <<>>)
<1>1. m \in Seq(X) /\ Len(m) = Len(t) + 1
  OBVIOUS
<1>2. PICK f : Folds(f, b, Assigns(X), t) /\ Uris!Assigned(t) = f[Len(t)]
  <2> HIDE DEF b
  <2> QED BY AssignedFolds DEF b
<1>3. PICK g : Folds(g, b, Assigns(X), m) /\ Uris!Assigned(m) = g[Len(m)]
  <2> HIDE DEF m, b
  <2> QED BY <1>1, AssignedFolds DEF b
<1>4. Uris!Assigned(t) \in Scans(X)
  BY AssignedFolds
<1>5. Assigns(X)[<<Uris!Assigned(t), c>>] = Uris!Assign(Uris!Assigned(t), c)
  BY <1>4, AssignsTyped
<1> HIDE DEF b
<1>6. g[Len(t) + 1] = Assigns(X)[<<f[Len(t)], c>>]
  BY <1>2, <1>3, FoldAppend
<1> QED BY <1>1, <1>2, <1>3, <1>4, <1>5, <1>6

\* After an assignment has begun, what follows without "&" is in it
LEMMA LastGrows ==
  ASSUME NEW X, NEW t \in Seq(X), NEW d, Uris!Assigned(t) = Scan(d, <<>>),
         NEW u \in Seq(X \ {Ampersand})
  PROVE  Uris!Assigned(t \o u) = Scan(d, u)
<1> DEFINE A == X \ {Ampersand}
           P == {v \in Seq(A) : Uris!Assigned(t \o v) = Scan(d, v)}
<1>1. <<>> \in P
  <2>1. t \o <<>> = t /\ <<>> \in Seq(A)
    OBVIOUS
  <2> QED BY <2>1
<1>2. ASSUME NEW v \in Seq(A), NEW c \in A, v \in P PROVE Append(v, c) \in P
  <2>1. /\ t \o Append(v, c) = Append(t \o v, c) /\ t \o v \in Seq(X) /\ c \in X
        /\ Append(v, c) \in Seq(A) /\ c # Ampersand
    OBVIOUS
  <2>2. Uris!Assigned(t \o v) = Scan(d, v)
    BY <1>2
  <2> HIDE DEF A
  <2>3. Uris!Assigned(Append(t \o v, c)) = Uris!Assign(Scan(d, v), c)
    <3> DEFINE w == t \o v
    <3>1. w \in Seq(X) /\ Uris!Assigned(w) = Scan(d, v)
      BY <2>1, <2>2
    <3> HIDE DEF w
    <3>2. Uris!Assigned(Append(w, c)) = Uris!Assign(Scan(d, v), c)
      BY <2>1, <3>1, AssignedAppend
    <3> QED BY <3>2 DEF w
  <2>4. Uris!Assign(Scan(d, v), c) = Scan(d, Append(v, c))
    BY <2>1, AssignIs
  <2>5. Uris!Assigned(t \o Append(v, c)) = Scan(d, Append(v, c))
    BY <2>1, <2>3, <2>4
  <2> QED BY <2>1, <2>5
<1>3. Seq(A) \subseteq P
  <2> HIDE DEF P
  <2> QED BY <1>1, <1>2, SeqInduction
<1> QED BY <1>3

\* "&" ends an assignment, and the next one begins
LEMMA NextBegins ==
  ASSUME NEW X, NEW t \in Seq(X), Ampersand \in X, NEW d, NEW l, Uris!Assigned(t) = Scan(d, l),
         NEW u \in Seq(X \ {Ampersand})
  PROVE  Uris!Assigned(t \o (<<Ampersand>> \o u)) = Scan(Append(d, l), u)
<1> DEFINE c == Ampersand
           w == Append(t, c)
<1>1. c \in X /\ w \in Seq(X)
  OBVIOUS
<1>2. t \o (<<c>> \o u) = w \o u
  <2>1. u \in Seq(X) /\ <<c>> \in Seq(X) /\ t \o <<c>> = w
    BY <1>1
  <2>2. \A x, y, z \in Seq(X) : (x \o y) \o z = x \o (y \o z)
    BY ONLY ConcatAssociative
  <2> HIDE DEF c, w
  <2>3. (t \o <<c>>) \o u = t \o (<<c>> \o u)
    <3> DEFINE b == <<c>>
    <3>1. b \in Seq(X)
      BY <2>1
    <3> HIDE DEF b
    <3>2. (t \o b) \o u = t \o (b \o u)
      BY <2>1, <2>2, <3>1
    <3> QED BY <3>2 DEF b
  <2> QED BY <2>1, <2>3
<1>3. Uris!Assigned(w) = Scan(Append(d, l), <<>>)
  <2>1. Uris!Assigned(w) = Uris!Assign(Scan(d, l), c)
    BY <1>1, AssignedAppend
  <2> QED BY <2>1, AssignIs
<1> HIDE DEF w
<1>4. Uris!Assigned(w \o u) = Scan(Append(d, l), u)
  BY <1>1, <1>3, LastGrows
<1> QED BY <1>2, <1>4 DEF c

\* Pairs of a query: keys over K, and values over V or none
Values(V) == {<<>>} \cup {<<v>> : v \in Seq(V)}
PairsOf(K, V) == Seq(K) \X Values(V)
EmptyPairs == {<<>>} \X {<<>>, << <<>> >>}

\* Keys have no "=", and neither keys nor values have "&"
Separate(K, V, X) == K \subseteq X /\ V \subseteq X /\ Equals \in X \ K /\ Ampersand \notin X

\* An assignment that is written is read as its pair
LEMMA AssignmentIs ==
  ASSUME NEW K, NEW V, NEW X, Separate(K, V, X), NEW k \in Seq(K), NEW w \in Values(V)
  PROVE  /\ Uris!Assignment(<<k, w>>) \in Seq(X)
         /\ Uris!Pair(Uris!Assignment(<<k, w>>)) = <<k, w>>
         /\ <<k, w>> \notin EmptyPairs => Uris!Assignment(<<k, w>>) # <<>>
<1> DEFINE p == <<k, w>>
           a == Uris!Assignment(p)
<1>x. K \subseteq X /\ V \subseteq X /\ Equals \in X /\ Equals \notin K
  BY DEF Separate
<1>k. k \in Seq(X) /\ Free(k, {Equals})
  BY <1>x DEF Free
<1>1. CASE w = <<>>
  <2>1. a = k
    <3>1. a = k \o <<>>
      BY <1>1 DEF Uris!Assignment
    <3> QED BY <1>k, <3>1, NoneAfter
  <2>2. Cuts(k, {Equals}, k, <<>>)
    BY <1>k, Whole
  <2>3. Uris!Holds(k, "=") = FALSE
    <3>1. \A i \in DOMAIN k : k[i] # Equals
      BY <1>k DEF Free
    <3> QED BY <3>1 DEF Uris!Holds, Uris!ToSet, Equals
  <2>4. Uris!Before(k, {"="}) = k
    BY <2>2 DEF Cuts, Equals
  <2>5. Uris!Pair(k) = <<k, w>>
    BY <1>1, <2>3, <2>4 DEF Uris!Pair
  <2>6. <<k, w>> \notin EmptyPairs => k # <<>>
    BY <1>1 DEF EmptyPairs
  <2> HIDE DEF a, p
  <2>7. a \in Seq(X) /\ Uris!Pair(a) = <<k, w>> /\ (<<k, w>> \notin EmptyPairs => a # <<>>)
    BY <1>k, <2>1, <2>5, <2>6
  <2> QED BY <2>7 DEF a, p
<1>2. CASE w # <<>>
  <2>0. PICK v \in Seq(V) : w = <<v>>
    BY <1>2 DEF Values
  <2>v. v \in Seq(X)
    BY <1>x
  <2>w. w[1] = v
    BY <2>0
  <2>1. a = k \o (<<Equals>> \o v)
    BY <1>2, <2>w DEF Uris!Assignment, Equals
  <2>2. Cuts(k \o (<<Equals>> \o v), {Equals}, k, v)
    BY <1>x, <1>k, <2>v, EndsAt
  <2>3. /\ k \o (<<Equals>> \o v) \in Seq(X)
        /\ Len(k \o (<<Equals>> \o v)) = Len(k) + 1 + Len(v) /\ Len(k) \in Nat /\ Len(v) \in Nat
        /\ (k \o (<<Equals>> \o v))[Len(k) + 1] = Equals
    BY <1>x, <1>k, <2>v, CutAt
  <2> HIDE DEF a
  <2>4. a \in Seq(X) /\ Len(a) = Len(k) + 1 + Len(v) /\ Len(k) \in Nat /\ Len(v) \in Nat
        /\ a[Len(k) + 1] = Equals /\ Cuts(a, {Equals}, k, v)
    BY <2>1, <2>2, <2>3
  <2>5. Len(k) + 1 \in DOMAIN a
    BY <2>4
  <2>6. Uris!Holds(a, "=") = TRUE
    BY <2>4, <2>5 DEF Uris!Holds, Uris!ToSet, Equals
  <2>7. Uris!Before(a, {"="}) = k /\ Uris!After(a, {"="}) = v
    BY <2>4 DEF Cuts, Equals
  <2>8. Uris!Pair(a) = <<k, w>>
    BY <2>0, <2>6, <2>7 DEF Uris!Pair
  <2>9. a # <<>>
    BY <2>4
  <2> QED BY <2>4, <2>8, <2>9 DEF a
<1> QED BY <1>1, <1>2

\* The text of a pair
TextOf(K, V) == [p \in PairsOf(K, V) |-> Uris!Assignment(p)]

LEMMA TextTyped ==
  ASSUME NEW K, NEW V, NEW X, Separate(K, V, X)
  PROVE  /\ Maps(TextOf(K, V), PairsOf(K, V), Seq(X))
         /\ \A p \in PairsOf(K, V) :
              /\ TextOf(K, V)[p] = Uris!Assignment(p) /\ Uris!Assignment(p) \in Seq(X)
              /\ Uris!Pair(Uris!Assignment(p)) = p
              /\ p \notin EmptyPairs => Uris!Assignment(p) # <<>>
<1>1. ASSUME NEW p \in PairsOf(K, V)
      PROVE  /\ TextOf(K, V)[p] = Uris!Assignment(p) /\ Uris!Assignment(p) \in Seq(X)
             /\ Uris!Pair(Uris!Assignment(p)) = p
             /\ p \notin EmptyPairs => Uris!Assignment(p) # <<>>
  <2>1. TextOf(K, V)[p] = Uris!Assignment(p)
    BY DEF TextOf
  <2>2. PICK k \in Seq(K), w \in Values(V) : p = <<k, w>>
    BY DEF PairsOf
  <2>3. /\ Uris!Assignment(<<k, w>>) \in Seq(X)
        /\ Uris!Pair(Uris!Assignment(<<k, w>>)) = <<k, w>>
        /\ <<k, w>> \notin EmptyPairs => Uris!Assignment(<<k, w>>) # <<>>
    BY AssignmentIs
  <2> QED BY <2>1, <2>2, <2>3
<1> QED BY <1>1 DEF Maps, TextOf

Written(q) ==
  [i \in DOMAIN q |-> IF i = 1 THEN Uris!Assignment(q[i]) ELSE <<Ampersand>> \o Uris!Assignment(q[i])]

LEMMA WrittenTyped ==
  ASSUME NEW K, NEW V, NEW X, Separate(K, V, X), NEW q \in Seq(PairsOf(K, V))
  PROVE  Written(q) \in Seq(Seq(X \cup {Ampersand})) /\ Uris!JoinQuery(q) = Lib!FlattenSeq(Written(q))
<1> DEFINE Y == X \cup {Ampersand}
<1>1. Len(q) \in Nat /\ DOMAIN q = 1 .. Len(q) /\ \A i \in 1 .. Len(q) : q[i] \in PairsOf(K, V)
  OBVIOUS
<1>2. ASSUME NEW i \in 1 .. Len(q)
      PROVE  (IF i = 1 THEN Uris!Assignment(q[i]) ELSE <<Ampersand>> \o Uris!Assignment(q[i])) \in Seq(Y)
  <2> DEFINE a == Uris!Assignment(q[i])
  <2>1. a \in Seq(X)
    BY <1>1, TextTyped
  <2> HIDE DEF a
  <2>2. a \in Seq(Y) /\ <<Ampersand>> \in Seq(Y)
    BY <2>1
  <2>3. <<Ampersand>> \o a \in Seq(Y)
    BY <2>2
  <2> QED BY <2>2, <2>3 DEF a
<1>3. Written(q) \in [1 .. Len(q) -> Seq(Y)]
  <2> HIDE DEF Y
  <2> QED BY <1>1, <1>2 DEF Written
<1>4. Uris!JoinQuery(q) = Uris!FlattenSeq(Written(q))
  BY DEF Uris!JoinQuery, Written, Ampersand
<1>5. Written(q) \in Seq(Seq(Y))
  <2> HIDE DEF Y
  <2> QED BY <1>1, <1>3
<1> QED BY <1>4, <1>5, SameFlatten

LEMMA WrittenMore ==
  ASSUME NEW K, NEW V, NEW X, Separate(K, V, X), NEW q \in Seq(PairsOf(K, V)), q # <<>>,
         NEW p \in PairsOf(K, V)
  PROVE  Written(Append(q, p)) = Append(Written(q), <<Ampersand>> \o Uris!Assignment(p))
<1> DEFINE Q == PairsOf(K, V)
           F(i, x) == IF i = 1 THEN Uris!Assignment(x) ELSE <<Ampersand>> \o Uris!Assignment(x)
           m == Append(q, p)
           n == Len(q)
<1>1. /\ n \in Nat /\ DOMAIN q = 1 .. n /\ DOMAIN m = 1 .. n + 1 /\ m[n + 1] = p
      /\ \A i \in 1 .. n : m[i] = q[i]
  OBVIOUS
<1>2. n # 0
  OBVIOUS
<1> HIDE DEF m, n
<1>3. Written(m) = [i \in 1 .. n + 1 |-> F(i, m[i])] /\ Written(q) = [i \in 1 .. n |-> F(i, q[i])]
  BY <1>1 DEF Written
<1> HIDE DEF F
<1> DEFINE b == F(n + 1, p)
           r == [i \in 1 .. n |-> F(i, q[i])]
<1>4. b = <<Ampersand>> \o Uris!Assignment(p)
  BY <1>1, <1>2 DEF F
<1>5. Written(m) = [i \in 1 .. n + 1 |-> IF i = n + 1 THEN b ELSE r[i]]
  <2>1. ASSUME NEW i \in 1 .. n + 1 PROVE F(i, m[i]) = IF i = n + 1 THEN b ELSE r[i]
    <3>1. i # n + 1 => i \in 1 .. n
      BY <1>1
    <3> QED BY <1>1, <3>1
  <2> HIDE DEF b, r
  <2> QED BY <1>3, <2>1
<1>6. DOMAIN r = 1 .. n /\ Len(r) = n
  <2>1. DOMAIN r = 1 .. n
    OBVIOUS
  <2> HIDE DEF r
  <2> QED BY <1>1, <2>1
<1>7. r = Written(q)
  BY <1>3 DEF r
<1> DEFINE T == Seq(X \cup {Ampersand})
           w == Written(m)
<1>8. r \in Seq(T)
  <2>1. Written(q) \in Seq(T)
    BY WrittenTyped
  <2> HIDE DEF r, T
  <2> QED BY <1>7, <2>1
<1>9. w \in Seq(T)
  <2>1. m \in Seq(Q)
    BY DEF m
  <2> HIDE DEF Q
  <2> QED BY <2>1, WrittenTyped DEF Q
<1> HIDE DEF b, r, T
<1>10. \A i \in 1 .. n + 1 : w[i] = IF i = n + 1 THEN b ELSE r[i]
  BY <1>5
<1>11. DOMAIN w = 1 .. n + 1
  BY <1>5
<1> HIDE DEF w
<1>12. Len(w) = n + 1 /\ b \in T
  BY <1>1, <1>9, <1>10, <1>11
<1>13. w = Append(r, b)
  BY <1>1, <1>6, <1>8, <1>9, <1>10, <1>12
<1>14. Written(m) = Append(r, b)
  BY <1>13 DEF w
<1> QED BY <1>4, <1>14, <1>7 DEF m

LEMMA JoinTyped ==
  ASSUME NEW K, NEW V, NEW X, Separate(K, V, X), NEW q \in Seq(PairsOf(K, V))
  PROVE  Uris!JoinQuery(q) \in Seq(X \cup {Ampersand})
<1> DEFINE Y == X \cup {Ampersand}
<1>1. Written(q) \in Seq(Seq(Y)) /\ Uris!JoinQuery(q) = Lib!FlattenSeq(Written(q))
  BY WrittenTyped
<1> HIDE DEF Y
<1>2. Lib!FlattenSeq(Written(q)) \in Seq(Y)
  BY <1>1, FlattenFolds
<1> QED BY <1>1, <1>2 DEF Y

\* A query with one more pair
LEMMA JoinNext ==
  ASSUME NEW K, NEW V, NEW X, Separate(K, V, X), NEW q \in Seq(PairsOf(K, V)), q # <<>>,
         NEW p \in PairsOf(K, V)
  PROVE  Uris!JoinQuery(Append(q, p)) = Uris!JoinQuery(q) \o (<<Ampersand>> \o Uris!Assignment(p))
<1> DEFINE m == Append(q, p)
           a == Uris!Assignment(p)
           Y == X \cup {Ampersand}
<1>1. m \in Seq(PairsOf(K, V))
  OBVIOUS
<1>2. a \in Seq(X)
  BY TextTyped
<1> HIDE DEF m, a
<1>3. <<Ampersand>> \o a \in Seq(Y)
  <2>1. a \in Seq(Y) /\ <<Ampersand>> \in Seq(Y)
    BY <1>2
  <2> QED BY <2>1
<1>4. Written(q) \in Seq(Seq(Y)) /\ Uris!JoinQuery(q) = Lib!FlattenSeq(Written(q))
  BY WrittenTyped
<1>5. Uris!JoinQuery(m) = Lib!FlattenSeq(Written(m))
  BY <1>1, WrittenTyped
<1>6. Written(m) = Append(Written(q), <<Ampersand>> \o a)
  BY WrittenMore DEF m, a
<1> HIDE DEF Y
<1>7. Lib!FlattenSeq(Append(Written(q), <<Ampersand>> \o a))
         = Lib!FlattenSeq(Written(q)) \o (<<Ampersand>> \o a)
  BY <1>3, <1>4, FlattenAppend
<1>8. Uris!JoinQuery(m) = Uris!JoinQuery(q) \o (<<Ampersand>> \o a)
  BY <1>4, <1>5, <1>6, <1>7
<1> QED BY <1>8 DEF m, a

LEMMA WrittenFirst == ASSUME NEW p PROVE Written(Append(<<>>, p)) = <<Uris!Assignment(p)>>
<1> DEFINE m == <<p>>
           a == Uris!Assignment(p)
<1>1. Append(<<>>, p) = m
  OBVIOUS
<1>2. DOMAIN m = 1 .. 1 /\ m[1] = p
  OBVIOUS
<1> HIDE DEF m
<1>3. Written(m) = [i \in 1 .. 1 |-> Uris!Assignment(p)]
  BY <1>2 DEF Written
<1> HIDE DEF a
<1>4. [i \in 1 .. 1 |-> a] = <<a>>
  OBVIOUS
<1> QED BY <1>1, <1>3, <1>4 DEF a

LEMMA JoinFirst ==
  ASSUME NEW K, NEW V, NEW X, Separate(K, V, X), NEW p \in PairsOf(K, V)
  PROVE  Uris!JoinQuery(Append(<<>>, p)) = Uris!Assignment(p)
<1> DEFINE q == <<>>
           m == Append(q, p)
           a == Uris!Assignment(p)
<1>1. q \in Seq(PairsOf(K, V)) /\ m \in Seq(PairsOf(K, V))
  OBVIOUS
<1>2. a \in Seq(X) /\ <<>> \in Seq(Seq(X))
  <2>1. a \in Seq(X)
    BY TextTyped
  <2>2. <<>> \in Seq(Seq(X))
    OBVIOUS
  <2> QED BY <2>1, <2>2
<1>3. Uris!JoinQuery(m) = Lib!FlattenSeq(Written(m))
  <2> HIDE DEF m
  <2> QED BY <1>1, WrittenTyped
<1>4. Written(m) = <<a>>
  BY WrittenFirst
<1>5. Lib!FlattenSeq(<<a>>) = a
  <2> HIDE DEF a
  <2> QED BY <1>2, FlattenCons
<1> QED BY <1>3, <1>4, <1>5

LEMMA AssignmentsIs == ASSUME NEW d, NEW l PROVE Uris!Assignments(Scan(d, l)) = Append(d, l)
<1> DEFINE s == [done |-> d, last |-> l]
<1>1. s.done = d /\ s.last = l
  OBVIOUS
<1> HIDE DEF s
<1>2. Uris!Assignments(s) = Append(d, l)
  BY <1>1 DEF Uris!Assignments
<1> QED BY <1>2 DEF s, Scan

\* What is read of pairs that are joined
LEMMA JoinIsScanned ==
  ASSUME NEW K, NEW V, NEW X, Separate(K, V, X), NEW q \in Seq(PairsOf(K, V)), NEW p \in PairsOf(K, V)
  PROVE  Uris!Assigned(Uris!JoinQuery(Append(q, p)))
           = Scan(Mapped(TextOf(K, V), q), Uris!Assignment(p))
<1> DEFINE Q == PairsOf(K, V)
           G == TextOf(K, V)
           Y == X \cup {Ampersand}
           A(x) == Uris!Assignment(x)
           J(x) == Uris!JoinQuery(x)
           P == {s \in Seq(Q) : \A x \in Q : Uris!Assigned(J(Append(s, x))) = Scan(Mapped(G, s), A(x))}
<1>m. Maps(G, Q, Seq(X)) /\ \A x \in Q : G[x] = A(x) /\ A(x) \in Seq(X)
  BY TextTyped
<1>y. Y \ {Ampersand} = X /\ X \subseteq Y /\ Ampersand \in Y
  BY DEF Separate
<1>1. <<>> \in P
  <2>0. <<>> \in Seq(Q)
    OBVIOUS
  <2> SUFFICES ASSUME NEW x \in Q PROVE Uris!Assigned(J(Append(<<>>, x))) = Scan(Mapped(G, <<>>), A(x))
    BY <2>0
  <2>1. J(Append(<<>>, x)) = A(x)
    BY JoinFirst
  <2>2. Mapped(G, <<>>) = <<>>
    BY DEF Mapped
  <2>3. Uris!Assigned(<<>>) = Scan(<<>>, <<>>)
    BY AssignedEmpty
  <2>4. <<>> \in Seq(Y) /\ A(x) \in Seq(Y \ {Ampersand})
    <3>1. <<>> \in Seq(Y)
      OBVIOUS
    <3> QED BY <1>m, <1>y, <3>1
  <2> DEFINE a == A(x)
  <2>5. a \in Seq(Y \ {Ampersand})
    BY <2>4
  <2> HIDE DEF a, Y
  <2>6. Uris!Assigned(<<>> \o a) = Scan(<<>>, a)
    BY <2>3, <2>4, <2>5, LastGrows, ZenonT(60)
  <2>7. <<>> \o a = a
    BY <2>5
  <2>8. Uris!Assigned(a) = Scan(<<>>, a)
    BY <2>6, <2>7
  <2> QED BY <2>1, <2>2, <2>8 DEF a
<1>2. ASSUME NEW s \in Seq(Q), NEW z \in Q, s \in P PROVE Append(s, z) \in P
  <2> DEFINE r == Append(s, z)
  <2>0. r \in Seq(Q) /\ r # <<>>
    OBVIOUS
  <2>1. Uris!Assigned(J(r)) = Scan(Mapped(G, s), A(z))
    BY <1>2
  <2>2. Mapped(G, r) = Append(Mapped(G, s), A(z))
    <3>1. G[z] = A(z)
      BY <1>m
    <3> HIDE DEF Q, G
    <3>2. Mapped(G, Append(s, z)) = Append(Mapped(G, s), G[z])
      BY <1>m, MapAppend
    <3> QED BY <3>1, <3>2
  <2> HIDE DEF r
  <2> SUFFICES ASSUME NEW x \in Q PROVE Uris!Assigned(J(Append(r, x))) = Scan(Mapped(G, r), A(x))
    BY <2>0 DEF r
  <2>3. J(r) \in Seq(Y)
    BY <2>0, JoinTyped
  <2>4. J(Append(r, x)) = J(r) \o (<<Ampersand>> \o A(x))
    BY <2>0, JoinNext
  <2>5. A(x) \in Seq(Y \ {Ampersand})
    BY <1>m, <1>y
  <2> DEFINE t == J(r)
             a == A(x)
             d == Mapped(G, s)
             l == A(z)
  <2>6. t \in Seq(Y) /\ a \in Seq(Y \ {Ampersand}) /\ Uris!Assigned(t) = Scan(d, l)
    BY <2>1, <2>3, <2>5
  <2> HIDE DEF t, a, d, l, Y
  <2>7. Uris!Assigned(t \o (<<Ampersand>> \o a)) = Scan(Append(d, l), a)
    BY <1>y, <2>6, NextBegins, SMTT(30)
  <2> QED BY <2>2, <2>4, <2>7 DEF t, a, d, l
<1>3. Seq(Q) \subseteq P
  <2> HIDE DEF P, Q
  <2> QED BY <1>1, <1>2, SeqInduction
<1>4. q \in P
  BY <1>3
<1> QED BY <1>4

\* What a query is split into
LEMMA SplitTyped ==
  ASSUME NEW X, NEW t \in Seq(X)
  PROVE  Uris!SplitQuery(t) \in Seq(PairsOf(X, X))
<1> DEFINE s == Uris!Assigned(t)
           a == Append(s.done, s.last)
           w == Uris!Without(a, {<<>>})
<1>1. s.done \in Seq(Seq(X)) /\ s.last \in Seq(X)
  <2>1. s \in Scans(X)
    BY AssignedFolds
  <2> HIDE DEF s
  <2> QED BY <2>1, ScanIs
<1>2. a \in Seq(Seq(X))
  <2> DEFINE d == s.done  l == s.last
  <2>1. d \in Seq(Seq(X)) /\ l \in Seq(X)
    BY <1>1
  <2> HIDE DEF d, l
  <2>2. Append(d, l) \in Seq(Seq(X))
    BY <2>1
  <2> QED BY <2>2 DEF d, l
<1> HIDE DEF a
<1>3. w \in Seq(Seq(X) \ {<<>>})
  BY <1>2, WithoutIs
<1> HIDE DEF w
<1>4. Len(w) \in Nat /\ DOMAIN w = 1 .. Len(w) /\ \A i \in 1 .. Len(w) : w[i] \in Seq(X)
  BY <1>3
<1>5. ASSUME NEW x \in Seq(X) PROVE Uris!Pair(x) \in PairsOf(X, X)
  <2>1. Uris!Before(x, {"="}) \in Seq(X) /\ Uris!After(x, {"="}) \in Seq(X)
    BY CutTyped
  <2>2. (IF Uris!Holds(x, "=") THEN <<Uris!After(x, {"="})>> ELSE <<>>) \in Values(X)
    BY <2>1 DEF Values
  <2> QED BY <2>1, <2>2 DEF Uris!Pair, PairsOf
<1>6. Uris!SplitQuery(t) = Uris!Pairs(w)
  BY DEF Uris!SplitQuery, Uris!Assignments, w, a
<1>7. Uris!Pairs(w) \in [1 .. Len(w) -> PairsOf(X, X)]
  BY <1>4, <1>5 DEF Uris!Pairs
<1>8. Uris!Pairs(w) \in Seq(PairsOf(X, X))
  BY <1>4, <1>7
<1> QED BY <1>6, <1>8

\* Pairs that are joined are those the query is split into
LEMMA QueryComesBack ==
  ASSUME NEW K, NEW V, NEW X, Separate(K, V, X), NEW q \in Seq(PairsOf(K, V) \ EmptyPairs)
  PROVE  Uris!JoinQuery(q) \in Seq(X \cup {Ampersand}) /\ Uris!SplitQuery(Uris!JoinQuery(q)) = q
<1> DEFINE Q == PairsOf(K, V)
           G == TextOf(K, V)
           A(x) == Uris!Assignment(x)
<1>m. Maps(G, Q, Seq(X)) /\ \A x \in Q : G[x] = A(x) /\ A(x) \in Seq(X)
  BY TextTyped
<1>q. q \in Seq(Q)
  OBVIOUS
<1>1. Uris!JoinQuery(q) \in Seq(X \cup {Ampersand})
  BY <1>q, JoinTyped
<1>2. CASE q = <<>>
  <2>1. Uris!JoinQuery(<<>>) = <<>>
    <3>1. Written(<<>>) = <<>>
      BY DEF Written
    <3>2. Uris!JoinQuery(<<>>) = Uris!FlattenSeq(Written(<<>>))
      BY DEF Uris!JoinQuery, Written, Ampersand
    <3> QED BY <3>1, <3>2, SameFlatten, FlattenEmpty
  <2>2. Append(<<>>, <<>>) = << <<>> >>
    OBVIOUS
  <2>3. Uris!Assignments(Uris!Assigned(<<>>)) = << <<>> >>
    <3> DEFINE e == <<>>
    <3>1. Uris!Assigned(e) = Scan(e, e)
      BY AssignedEmpty
    <3>2. Append(e, e) = <<e>>
      BY <2>2
    <3> HIDE DEF e
    <3>3. Uris!Assignments(Uris!Assigned(e)) = <<e>>
      BY <3>1, <3>2, AssignmentsIs
    <3> QED BY <3>3 DEF e
  <2>4. Uris!Without(<< <<>> >>, {<<>>}) = <<>>
    <3>1. << <<>> >> \in Seq({<<>>})
      OBVIOUS
    <3>2. Uris!Without(<< <<>> >>, {<<>>}) \in Seq({<<>>} \ {<<>>})
      BY <3>1, WithoutIs
    <3> QED BY <3>2
  <2>5. Uris!Pairs(<<>>) = <<>>
    BY DEF Uris!Pairs
  <2> QED BY <1>1, <1>2, <2>1, <2>3, <2>4, <2>5 DEF Uris!SplitQuery
<1>3. CASE q # <<>>
  <2> DEFINE n == Len(q)
             r == SubSeq(q, 1, n - 1)
             p == q[n]
             a == Append(Mapped(G, r), A(p))
  <2>1. n \in Nat \ {0} /\ r \in Seq(Q) /\ p \in Q /\ q = Append(r, p)
    BY <1>q, <1>3
  <2> HIDE DEF r, p
  <2>2. Uris!Assigned(Uris!JoinQuery(q)) = Scan(Mapped(G, r), A(p))
    BY <2>1, JoinIsScanned
  <2>3. Uris!Assignments(Uris!Assigned(Uris!JoinQuery(q))) = a
    BY <2>2, AssignmentsIs
  <2>4. a = Mapped(G, q)
    <3>1. G[p] = A(p)
      BY <1>m, <2>1
    <3> HIDE DEF G
    <3>2. Mapped(G, Append(r, p)) = Append(Mapped(G, r), G[p])
      <4> HIDE DEF Q
      <4> QED BY <1>m, <2>1, MapAppend
    <3> QED BY <2>1, <3>1, <3>2
  <2>5. \A i \in 1 .. Len(q) : q[i] \in Q /\ q[i] \notin EmptyPairs
    OBVIOUS
  <2> HIDE DEF a
  <2>6. /\ DOMAIN a = 1 .. n /\ n = Len(q) /\ DOMAIN q = 1 .. n
        /\ \A i \in 1 .. n : a[i] = A(q[i])
    <3>1. DOMAIN q = 1 .. n
      OBVIOUS
    <3> HIDE DEF A, G
    <3>2. \A i \in 1 .. n : G[q[i]] = A(q[i])
      BY <1>m, <2>5
    <3> QED BY <2>4, <3>1, <3>2 DEF Mapped
  <2>7. \A i \in 1 .. n : a[i] \in Seq(X) \ {<<>>} /\ Uris!Pair(a[i]) = q[i]
    <3> TAKE i \in 1 .. n
    <3>1. q[i] \in Q /\ q[i] \notin EmptyPairs
      BY <2>5
    <3>2. A(q[i]) \in Seq(X) /\ Uris!Pair(A(q[i])) = q[i] /\ A(q[i]) # <<>>
      BY <3>1, TextTyped
    <3> HIDE DEF A
    <3> QED BY <2>6, <3>2
  <2>8. a \in Seq(Seq(X) \ {<<>>})
    <3> DEFINE S == Seq(X) \ {<<>>}
    <3>1. a \in [1 .. n -> S]
      <4>1. a = [i \in 1 .. n |-> a[i]]
        BY <2>4, <2>6 DEF Mapped
      <4> HIDE DEF S
      <4> QED BY <2>7, <4>1 DEF S
    <3> HIDE DEF S
    <3>2. \A k \in Nat : [1 .. k -> S] \subseteq Seq(S)
      OBVIOUS
    <3>3. a \in Seq(S)
      BY <2>1, <3>1, <3>2
    <3> QED BY <3>3 DEF S
  <2>9. Uris!Without(a, {<<>>}) = a
    BY <2>8, WithoutNone
  <2>10. Uris!Pairs(a) = [i \in 1 .. n |-> q[i]]
    BY <2>6, <2>7 DEF Uris!Pairs
  <2>11. q = [i \in 1 .. n |-> q[i]]
    BY <1>q
  <2> QED BY <1>1, <2>3, <2>9, <2>10, <2>11 DEF Uris!SplitQuery
<1> QED BY <1>2, <1>3

-----------------------------------------------------------------------------
(* Characters that end a part of a URI are not in the part.                *)

Colon == ":"
AtSign == "@"
Slash == "/"
QuestionMark == "?"
NumberSign == "#"
LeftBracket == "["
RightBracket == "]"
PlusSign == "+"
SpaceSign == " "
PercentSign == "%"

\* Characters of a part of a URI, as they are or escaped
Codes(C) == C \cup Uris!Escapes
SchemeChars == Uris!Alpha \cup Uris!Digit \cup {"+", "-", "."}
KeyCodes == Codes(Uris!QueryKey) \cup {PlusSign}
ValueCodes == Codes(Uris!QueryVal) \cup {PlusSign}
QueryCodes == Codes(Uris!Quefrag) \ {Ampersand}

Signed == {Colon, AtSign, Slash, QuestionMark, NumberSign, LeftBracket, RightBracket, PlusSign,
           SpaceSign, Ampersand, Equals}

\* The delimiters have escapes, and are not escapes
LEMMA NoSignIsEscape ==
  ASSUME Uris!Escapable
  PROVE  \A c \in Signed : c \in DOMAIN Escape /\ c \notin Uris!Escapes
<1>1. Signed \subseteq Uris!Quefrag \cup Uris!Delims
  BY DEF Signed, Colon, AtSign, Slash, QuestionMark, NumberSign, LeftBracket, RightBracket, PlusSign,
         SpaceSign, Ampersand, Equals, Uris!Quefrag, Uris!Delims, Uris!Pchar, Uris!User,
         Uris!Unreserved, Uris!SubDelims, Uris!Alpha, Uris!Digit
<1>2. Uris!Quefrag \cup Uris!Delims \subseteq DOMAIN Escape /\ Uris!Escapes \cap DOMAIN Escape = {}
  BY DEF Uris!Escapable
<1> QED BY <1>1, <1>2

\* Which delimiters the classes of characters leave out
LEMMA PlainClasses ==
  /\ Uris!User \cap {Colon, AtSign, Slash, QuestionMark, NumberSign, LeftBracket, RightBracket} = {}
  /\ Uris!Passwd \cap {AtSign, Slash, QuestionMark, NumberSign, LeftBracket, RightBracket} = {}
  /\ Uris!Pchar \cap {QuestionMark, NumberSign} = {}
  /\ Uris!Quefrag \cap {NumberSign} = {}
  /\ SchemeChars \cap {Colon, Slash, QuestionMark, NumberSign} = {}
  /\ Uris!QueryKey \cap {Ampersand, Equals, PlusSign} = {}
  /\ Uris!QueryVal \cap {Ampersand, PlusSign} = {}
BY DEF SchemeChars, Colon, AtSign, Slash, QuestionMark, NumberSign, LeftBracket, RightBracket, PlusSign,
       Ampersand, Equals, Uris!Quefrag, Uris!Pchar, Uris!User, Uris!Passwd,
       Uris!QueryKey, Uris!QueryVal, Uris!Unreserved, Uris!SubDelims, Uris!Alpha, Uris!Digit

\* Which classes are in which
LEMMA Within ==
  /\ Uris!User \subseteq Uris!Passwd /\ Uris!Passwd \subseteq Uris!Pchar
  /\ Uris!Pchar \subseteq Uris!Quefrag /\ SchemeChars \subseteq Uris!Quefrag
  /\ Uris!Digit \subseteq Uris!User /\ Uris!RegName = Uris!User
  /\ Uris!Digit \cup {"."} \subseteq Uris!User /\ Uris!Digit \cup {".", ":"} \subseteq Uris!Passwd
  /\ Uris!QueryKey \subseteq Uris!Quefrag /\ Uris!QueryVal \subseteq Uris!Quefrag
  /\ {Slash, Colon, Equals, PlusSign, Ampersand} \subseteq Uris!Pchar
BY DEF SchemeChars, Colon, Slash, Equals, PlusSign, Ampersand, Uris!Quefrag, Uris!Pchar, Uris!User,
       Uris!Passwd, Uris!RegName, Uris!QueryKey, Uris!QueryVal, Uris!Unreserved, Uris!SubDelims,
       Uris!Alpha, Uris!Digit

\* The same of the classes with the escapes, what each part of a URI is made of
LEMMA CodeClasses ==
  ASSUME Uris!Escapable
  PROVE  /\ Codes(Uris!User) \cap {Colon, AtSign, Slash, QuestionMark, NumberSign, LeftBracket, RightBracket} = {}
         /\ Codes(Uris!Passwd) \cap {AtSign, Slash, QuestionMark, NumberSign, LeftBracket, RightBracket} = {}
         /\ Codes(Uris!Pchar) \cap {QuestionMark, NumberSign} = {}
         /\ Codes(Uris!Quefrag) \cap {NumberSign} = {}
         /\ Separate(KeyCodes, ValueCodes, QueryCodes)
         /\ QueryCodes \cup {Ampersand} = Codes(Uris!Quefrag)
<1>1. \A c \in Signed : c \notin Uris!Escapes
  BY NoSignIsEscape
<1>2. /\ Colon \notin Uris!Escapes /\ AtSign \notin Uris!Escapes /\ Slash \notin Uris!Escapes
      /\ QuestionMark \notin Uris!Escapes /\ NumberSign \notin Uris!Escapes
      /\ LeftBracket \notin Uris!Escapes /\ RightBracket \notin Uris!Escapes
      /\ Ampersand \notin Uris!Escapes /\ Equals \notin Uris!Escapes
  BY <1>1 DEF Signed
<1>3. PlusSign # Equals /\ PlusSign # Ampersand /\ Ampersand # Equals
  BY DEF PlusSign, Equals, Ampersand
<1>4. /\ Codes(Uris!User) \cap {Colon, AtSign, Slash, QuestionMark, NumberSign, LeftBracket, RightBracket} = {}
      /\ Codes(Uris!Passwd) \cap {AtSign, Slash, QuestionMark, NumberSign, LeftBracket, RightBracket} = {}
      /\ Codes(Uris!Pchar) \cap {QuestionMark, NumberSign} = {}
      /\ Codes(Uris!Quefrag) \cap {NumberSign} = {}
  BY <1>2, PlainClasses DEF Codes
<1>5. /\ Equals \in Uris!Quefrag /\ Ampersand \in Uris!Quefrag /\ PlusSign \in Uris!Quefrag
  BY Within
<1>6. /\ Uris!QueryKey \subseteq Uris!Quefrag \ {Ampersand, Equals}
      /\ Uris!QueryVal \subseteq Uris!Quefrag \ {Ampersand}
  BY Within, PlainClasses
<1>7. KeyCodes \subseteq QueryCodes /\ ValueCodes \subseteq QueryCodes
  BY <1>2, <1>3, <1>5, <1>6 DEF KeyCodes, ValueCodes, QueryCodes, Codes
<1>8. Equals \in QueryCodes /\ Equals \notin KeyCodes /\ Ampersand \notin QueryCodes
  BY <1>2, <1>3, <1>5, <1>6 DEF KeyCodes, QueryCodes, Codes
<1>9. QueryCodes \cup {Ampersand} = Codes(Uris!Quefrag)
  BY <1>5 DEF QueryCodes, Codes
<1> QED BY <1>4, <1>7, <1>8, <1>9 DEF Separate

LEMMA SchemeClass == SchemeChars \cap {Colon, Slash, QuestionMark, NumberSign} = {}
BY PlainClasses

LEMMA CodesWithin ==
  /\ Codes(Uris!User) \subseteq Codes(Uris!Passwd) /\ Codes(Uris!Passwd) \subseteq Codes(Uris!Pchar)
  /\ Codes(Uris!Pchar) \subseteq Codes(Uris!Quefrag) /\ SchemeChars \subseteq Codes(Uris!Quefrag)
  /\ Uris!Digit \subseteq Codes(Uris!User)
  /\ {Slash, Colon, Equals, PlusSign, Ampersand} \subseteq Codes(Uris!Pchar)
  /\ Colon \in Codes(Uris!Passwd)
<1>1. Colon \in Uris!Passwd
  BY DEF Colon, Uris!Passwd
<1> QED BY <1>1, Within DEF Codes

-----------------------------------------------------------------------------
(* What a text begins with.                                                *)

LEMMA StartsIs ==
  ASSUME NEW X, NEW s \in Seq(X), NEW t \in Seq(X)
  PROVE  Uris!Starts(t, s) <=> Len(s) <= Len(t) /\ \A i \in 1 .. Len(s) : t[i] = s[i]
<1> DEFINE n == Len(s)
           a == SubSeq(s, 1, n)
           b == SubSeq(t, 1, n)
<1>1. Uris!Starts(t, s) <=> n <= Len(t) /\ a = b
  BY DEF Uris!Starts, Uris!IsPrefix
<1>2. a = s /\ n \in Nat /\ Len(t) \in Nat
  OBVIOUS
<1>3. ASSUME n <= Len(t) PROVE s = b <=> \A i \in 1 .. n : t[i] = s[i]
  <2>1. b \in Seq(X) /\ Len(b) = n /\ \A i \in 1 .. n : b[i] = t[i]
    BY <1>2, <1>3
  <2> HIDE DEF b
  <2> QED BY <2>1
<1> HIDE DEF a, b
<1> QED BY <1>1, <1>2, <1>3

LEMMA StartsOne ==
  ASSUME NEW X, NEW t \in Seq(X), NEW c \in X
  PROVE  Uris!Starts(t, <<c>>) <=> t # <<>> /\ t[1] = c
<1> DEFINE s == <<c>>
<1>1. s \in Seq(X) /\ Len(s) = 1 /\ s[1] = c
  OBVIOUS
<1> HIDE DEF s
<1>2. Uris!Starts(t, s) <=> 1 <= Len(t) /\ t[1] = c
  BY <1>1, StartsIs
<1>3. t # <<>> <=> 1 <= Len(t)
  OBVIOUS
<1> QED BY <1>2, <1>3 DEF s

LEMMA StartsTwo ==
  ASSUME NEW X, NEW t \in Seq(X), NEW c \in X, NEW d \in X
  PROVE  Uris!Starts(t, <<c, d>>) <=> Len(t) >= 2 /\ t[1] = c /\ t[2] = d
<1> DEFINE s == <<c, d>>
<1>1. s \in Seq(X) /\ Len(s) = 2 /\ s[1] = c /\ s[2] = d
  OBVIOUS
<1> HIDE DEF s
<1>2. Uris!Starts(t, s) <=> 2 <= Len(t) /\ t[1] = c /\ t[2] = d
  BY <1>1, StartsIs
<1>3. Len(t) >= 2 <=> 2 <= Len(t)
  OBVIOUS
<1> QED BY <1>2, <1>3 DEF s

-----------------------------------------------------------------------------
(* The authority.                                                          *)

LEMMA MarkedIs ==
  ASSUME NEW X, NEW c \in X, NEW v \in Seq(X)
  PROVE  /\ Uris!Marked(<<c>>, v) \in Seq(X)
         /\ v = <<>> => Uris!Marked(<<c>>, v) = <<>>
         /\ Uris!Marked(<<c>>, v) # <<>> => Uris!Marked(<<c>>, v)[1] = c
         /\ v # <<>> => Uris!Marked(<<c>>, v) # <<>>
<1>1. CASE v = <<>>
  <2>1. Uris!Marked(<<c>>, v) = <<>>
    BY <1>1 DEF Uris!Marked
  <2>2. <<>> \in Seq(X)
    OBVIOUS
  <2> QED BY <1>1, <2>1, <2>2
<1>2. CASE v # <<>>
  <2> DEFINE m == <<c>> \o v
  <2>1. Uris!Marked(<<c>>, v) = m
    BY <1>2 DEF Uris!Marked
  <2>2. m \in Seq(X) /\ m # <<>> /\ m[1] = c
    OBVIOUS
  <2> HIDE DEF m
  <2> QED BY <1>2, <2>1, <2>2
<1> QED BY <1>1, <1>2

\* What a text that is marked is when the mark is taken away
LEMMA MarkCut ==
  ASSUME NEW X, NEW c \in X, NEW v \in Seq(X)
  PROVE  Uris!After(Uris!Marked(<<c>>, v), {c}) = v
<1> DEFINE m == Uris!Marked(<<c>>, v)
           e == <<>>
<1>1. m \in Seq(X)
  BY MarkedIs
<1>2. e \in Seq(X) /\ Free(e, {c}) /\ c \in {c}
  BY DEF Free
<1>3. e \o m = m
  <2> HIDE DEF m
  <2> QED BY <1>1
<1> HIDE DEF e
<1>4. Cuts(e \o m, {c}, e, v)
  BY <1>2, MarkEnds
<1> QED BY <1>3, <1>4 DEF Cuts

AuthorityOf(u, p, h, r) == [user |-> u, passwd |-> p, host |-> h, port |-> r]

\* A host without ":" is the host, and what follows is the port
LEMMA HostNamed ==
  ASSUME Uris!Escapable, NEW h \in Seq(Codes(Uris!User)), NEW r \in Seq(Uris!Digit), NEW i
  PROVE  Uris!SplitUserHost(i, h \o Uris!Marked(<<Colon>>, r))
           = AuthorityOf(Uris!Before(i, {Colon}), Uris!After(i, {Colon}), h, r)
<1> DEFINE X == Codes(Uris!Passwd)
           m == Uris!Marked(<<Colon>>, r)
           t == h \o m
<1>1. Colon \in X /\ h \in Seq(X) /\ r \in Seq(X)
  BY CodesWithin
<1>2. m \in Seq(X)
  <2> HIDE DEF X
  <2> QED BY <1>1, MarkedIs
<1>3. t \in Seq(X)
  <2> HIDE DEF m
  <2> QED BY <1>1, <1>2
<1>4. Free(h, {Colon})
  <2>1. Codes(Uris!User) \cap {Colon} = {}
    BY CodeClasses
  <2> QED BY <2>1, FreeIn
<1>5. Cuts(t, {Colon}, h, r)
  <2> HIDE DEF X
  <2> QED BY <1>1, <1>4, MarkEnds
<1>6. LeftBracket \notin X
  BY CodeClasses
<1> HIDE DEF t, m
<1>7. Uris!Starts(t, <<LeftBracket>>) = FALSE
  <2> DEFINE Y == X \cup {LeftBracket}
  <2>1. t \in Seq(Y) /\ LeftBracket \in Y
    BY <1>3
  <2>2. t # <<>> => t[1] # LeftBracket
    BY <1>3, <1>6
  <2>3. Uris!Starts(t, <<LeftBracket>>) <=> t # <<>> /\ t[1] = LeftBracket
    <3> HIDE DEF Y
    <3> QED BY <2>1, StartsOne
  <2> QED BY <2>2, <2>3
<1>8. Uris!Starts(t, <<"[">>) = FALSE
  BY <1>7 DEF LeftBracket
<1>9. Uris!Literal(t) = <<>>
  BY <1>8 DEF Uris!Literal
<1>10. Len(<<>>) + 1 = 1 /\ SubSeq(t, 1, Len(t)) = t
  BY <1>3
<1>11. SubSeq(t, Len(<<>>) + 1, Len(t)) = t
  BY <1>10
<1>12. Uris!SplitHost(i, t, <<>>)
         = [user |-> Uris!Before(i, {":"}), passwd |-> Uris!After(i, {":"}),
            host |-> Uris!Before(t, {":"}), port |-> Uris!After(t, {":"})]
  BY <1>8, <1>11 DEF Uris!SplitHost
<1>13. Uris!Before(t, {":"}) = h /\ Uris!After(t, {":"}) = r
  BY <1>5 DEF Cuts, Colon
<1>14. Uris!SplitUserHost(i, t) = [user |-> Uris!Before(i, {":"}), passwd |-> Uris!After(i, {":"}),
                                   host |-> h, port |-> r]
  BY <1>9, <1>12, <1>13 DEF Uris!SplitUserHost
<1> QED BY <1>14 DEF AuthorityOf, Colon, t, m

\* An address in brackets
InBrackets(w) == (<<LeftBracket>> \o w) \o <<RightBracket>>
Addresses == Ipv6 \cup Ipvf

\* What addresses are made of
LEMMA AddressTyped ==
  ASSUME Uris!Escapable, NEW w \in Addresses
  PROVE  w \in Seq(Uris!Passwd) /\ w # <<>> /\ (w \in Ipv6 => w \in Seq(Uris!Digit \cup {".", ":"}))
<1>1. Uris!Digit \cup {".", ":"} \subseteq Uris!Passwd
  BY Within
<1>2. CASE w \in Ipv6
  <2>1. w \in Seq(Uris!Digit \cup {".", ":"}) /\ w # <<>>
    BY <1>2 DEF Uris!Escapable
  <2> DEFINE D == Uris!Digit \cup {".", ":"}
  <2>2. w \in Seq(D) /\ D \subseteq Uris!Passwd
    BY <1>1, <2>1
  <2> HIDE DEF D
  <2>3. w \in Seq(Uris!Passwd)
    BY <2>2, Widen
  <2> QED BY <2>1, <2>3
<1>3. CASE w \notin Ipv6
  BY <1>3 DEF Uris!Escapable, Addresses
<1> QED BY <1>2, <1>3

LEMMA BracketsIs ==
  ASSUME NEW P, NEW w \in Seq(P), w # <<>>, NEW X, P \subseteq X, LeftBracket \in X, RightBracket \in X
  PROVE  LET h == InBrackets(w) IN
         /\ h \in Seq(X) /\ Len(h) = Len(w) + 2 /\ h[1] = LeftBracket /\ h[Len(h)] = RightBracket
         /\ SubSeq(h, 2, Len(h) - 1) = w /\ \A i \in 2 .. Len(h) - 1 : h[i] = w[i - 1]
<1> DEFINE b == <<LeftBracket>> \o w
           h == b \o <<RightBracket>>
<1>0. w \in Seq(X) /\ Len(w) \in Nat /\ \A i \in 1 .. Len(w) : w[i] \in X
  OBVIOUS
<1>1. b \in Seq(X) /\ Len(b) = Len(w) + 1 /\ b[1] = LeftBracket
      /\ \A i \in 1 .. Len(w) : b[i + 1] = w[i]
  BY <1>0
<1> HIDE DEF b
<1>2. h \in Seq(X) /\ Len(h) = Len(b) + 1 /\ h[Len(b) + 1] = RightBracket
      /\ \A i \in 1 .. Len(b) : h[i] = b[i]
  BY <1>0, <1>1
<1> HIDE DEF h
<1>3. Len(h) = Len(w) + 2 /\ h[1] = LeftBracket /\ h[Len(h)] = RightBracket
  BY <1>0, <1>1, <1>2
<1>4. \A i \in 2 .. Len(h) - 1 : h[i] = w[i - 1]
  <2> TAKE i \in 2 .. Len(h) - 1
  <2>1. i - 1 \in 1 .. Len(w) /\ i \in 1 .. Len(b) /\ (i - 1) + 1 = i
    BY <1>0, <1>1, <1>3
  <2> QED BY <1>1, <1>2, <2>1
<1>5. SubSeq(h, 2, Len(h) - 1) = w
  <2> DEFINE s == SubSeq(h, 2, Len(h) - 1)
  <2>1. s \in Seq(X) /\ Len(s) = Len(w) /\ \A i \in 1 .. Len(w) : s[i] = h[i + 1]
    BY <1>0, <1>2, <1>3
  <2> HIDE DEF s
  <2>2. \A i \in 1 .. Len(w) : s[i] = w[i]
    <3> TAKE i \in 1 .. Len(w)
    <3>1. i + 1 \in 2 .. Len(h) - 1 /\ (i + 1) - 1 = i
      BY <1>0, <1>3
    <3> QED BY <1>4, <2>1, <3>1
  <2>3. s = w
    BY <1>0, <2>1, <2>2
  <2> QED BY <2>3 DEF s
<1> QED BY <1>2, <1>3, <1>4, <1>5 DEF h, b, InBrackets

\* An address in brackets is the host, and what follows is the port
LEMMA HostInBrackets ==
  ASSUME Uris!Escapable, NEW w \in Addresses, NEW r \in Seq(Uris!Digit), NEW i
  PROVE  Uris!SplitUserHost(i, InBrackets(w) \o Uris!Marked(<<Colon>>, r))
           = AuthorityOf(Uris!Before(i, {Colon}), Uris!After(i, {Colon}), InBrackets(w), r)
<1> DEFINE P == Uris!Passwd
           X == Codes(P) \cup {LeftBracket, RightBracket}
           h == InBrackets(w)
           b == <<LeftBracket>> \o w
           m == Uris!Marked(<<Colon>>, r)
           t == h \o m
           n == Len(h)
<1>1. w \in Seq(P) /\ w # <<>> /\ (w \in Ipv6 => w \in Seq(Uris!Digit \cup {".", ":"}))
  BY AddressTyped
<1>2. P \subseteq X /\ LeftBracket \in X /\ RightBracket \in X /\ Colon \in X /\ Uris!Digit \subseteq X
  <2>1. Uris!Digit \subseteq Codes(P)
    BY CodesWithin
  <2>2. Colon \in Codes(P)
    BY CodesWithin
  <2> QED BY <2>1, <2>2 DEF Codes
<1>3. P \cap {LeftBracket, RightBracket} = {} /\ LeftBracket # RightBracket
  BY PlainClasses DEF LeftBracket, RightBracket
<1> HIDE DEF P, X
<1>4. r \in Seq(X)
  BY <1>2
<1>5. /\ h \in Seq(X) /\ n = Len(w) + 2 /\ h[1] = LeftBracket /\ h[n] = RightBracket
      /\ SubSeq(h, 2, n - 1) = w /\ \A k \in 2 .. n - 1 : h[k] = w[k - 1]
  BY <1>1, <1>2, BracketsIs
<1>6. m \in Seq(X) /\ (m # <<>> => m[1] = Colon)
  <2> HIDE DEF m
  <2> QED BY <1>2, <1>4, MarkedIs DEF m
<1>7. b \in Seq(X) /\ Len(b) = Len(w) + 1 /\ Len(w) \in Nat \ {0} /\ Free(b, {RightBracket})
  <2>1. /\ w \in Seq(X) /\ b \in Seq(X) /\ Len(b) = Len(w) + 1 /\ Len(w) \in Nat \ {0}
        /\ b[1] = LeftBracket /\ \A k \in 1 .. Len(w) : b[k + 1] = w[k] /\ w[k] \in P
    BY <1>1, <1>2
  <2> HIDE DEF b
  <2>2. \A k \in 1 .. Len(b) : k = 1 \/ (k - 1 \in 1 .. Len(w) /\ (k - 1) + 1 = k)
    BY <2>1
  <2>3. \A k \in 1 .. Len(b) : b[k] # RightBracket
    BY <1>3, <2>1, <2>2, ZenonT(60)
  <2> QED BY <2>1, <2>3 DEF Free
<1>8. t = b \o (<<RightBracket>> \o m)
  <2>1. h = b \o <<RightBracket>>
    BY DEF InBrackets
  <2>2. \A x, y, z \in Seq(X) : (x \o y) \o z = x \o (y \o z)
    BY ONLY ConcatAssociative
  <2>3. <<RightBracket>> \in Seq(X)
    BY <1>2
  <2> DEFINE c == <<RightBracket>>
  <2> HIDE DEF b, h, m, c
  <2>4. (b \o c) \o m = b \o (c \o m)
    BY <1>6, <1>7, <2>2, <2>3 DEF c
  <2> QED BY <2>1, <2>4 DEF c
<1>9. t \in Seq(X) /\ SubSeq(t, 1, n) = h /\ SubSeq(t, n + 1, Len(t)) = m /\ t # <<>> /\ t[1] = LeftBracket
  <2>1. n \in Nat \ {0}
    BY <1>5, <1>7
  <2>0. h \in Seq(X) /\ m \in Seq(X) /\ Len(h) = n
    BY <1>5, <1>6
  <2> HIDE DEF h, m
  <2>2. t \in Seq(X) /\ Len(t) = n + Len(m) /\ Len(m) \in Nat
        /\ (\A k \in 1 .. n : t[k] = h[k]) /\ \A k \in 1 .. Len(m) : t[n + k] = m[k]
    BY <2>0
  <2> HIDE DEF t
  <2>3. t # <<>> /\ t[1] = LeftBracket
    BY <1>5, <2>1, <2>2
  <2>4. SubSeq(t, 1, n) = h
    BY <1>5, <2>1, <2>2
  <2>5. SubSeq(t, n + 1, Len(t)) = m
    BY <1>6, <2>1, <2>2
  <2> QED BY <2>2, <2>3, <2>4, <2>5
<1>10. Uris!First(t, {RightBracket}) = n
  <2>1. RightBracket \in {RightBracket}
    OBVIOUS
  <2> HIDE DEF b, m, t
  <2>2. Uris!First(b \o (<<RightBracket>> \o m), {RightBracket}) = Len(b) + 1
    BY <1>2, <1>6, <1>7, <2>1, FirstEnds
  <2>3. n = Len(b) + 1
    BY <1>5, <1>7
  <2> HIDE DEF n, h
  <2> QED BY <1>8, <2>2, <2>3
<1> HIDE DEF t, m, h, b
<1>11. Uris!Starts(t, <<LeftBracket>>) = TRUE
  <2>1. Uris!Starts(t, <<LeftBracket>>) <=> t # <<>> /\ t[1] = LeftBracket
    BY <1>2, <1>9, StartsOne
  <2> QED BY <1>9, <2>1
<1>12. Uris!Literal(t) = h
  BY <1>9, <1>10, <1>11 DEF Uris!Literal, LeftBracket, RightBracket
<1>13. Uris!WellFormed(h, m)
  <2>1. Len(h) = n /\ n > 2 /\ n \in Nat
    BY <1>5, <1>7 DEF n
  <2>2. Uris!IsLiteral(h)
    BY <1>5, <2>1 DEF Uris!IsLiteral, Uris!Last, LeftBracket, RightBracket
  <2>3. CASE w \in Ipv6
    <3> DEFINE D == Uris!Digit \cup {".", ":"}
    <3>1. \A k \in 2 .. n - 1 : h[k] \in D
      <4> TAKE k \in 2 .. n - 1
      <4>1. k - 1 \in 1 .. Len(w) /\ w \in Seq(D)
        BY <1>1, <1>5, <1>7, <2>3
      <4>2. w[k - 1] \in D
        <5> HIDE DEF D
        <5> QED BY <4>1
      <4> QED BY <1>5, <4>2
    <3>2. \A k \in 2 .. Len(h) - 1 : h[k] \in Uris!Digit \cup {":", "."}
      BY <2>1, <3>1
    <3> QED BY <1>6, <2>1, <2>2, <3>2 DEF Uris!WellFormed, Colon
  <2>4. CASE w \in Ipvf
    <3>1. SubSeq(h, 2, Len(h) - 1) \in Ipvf
      BY <1>5, <2>1, <2>4
    <3> QED BY <1>6, <2>1, <2>2, <3>1 DEF Uris!WellFormed, Colon
  <2> QED BY <2>3, <2>4 DEF Addresses
<1>14. h # <<>>
  BY <1>5, <1>7 DEF n
<1>15. Uris!After(m, {":"}) = r
  BY <1>2, <1>4, MarkCut DEF m, Colon
<1>16. SubSeq(t, Len(h) + 1, Len(t)) = m
  BY <1>9 DEF n
<1>17. Uris!SplitHost(i, t, h)
         = [user |-> Uris!Before(i, {":"}), passwd |-> Uris!After(i, {":"}), host |-> h, port |-> r]
  BY <1>13, <1>14, <1>15, <1>16 DEF Uris!SplitHost
<1>18. Uris!SplitUserHost(i, t)
         = [user |-> Uris!Before(i, {":"}), passwd |-> Uris!After(i, {":"}), host |-> h, port |-> r]
  BY <1>12, <1>17 DEF Uris!SplitUserHost
<1> QED BY <1>18 DEF AuthorityOf, Colon, t, m, h

HostChars == Codes(Uris!Passwd) \cup {LeftBracket, RightBracket}
AuthorityChars == HostChars \cup {AtSign}
Hosts == Seq(Codes(Uris!User)) \cup {InBrackets(w) : w \in Addresses}

LEMMA HoldsIs ==
  ASSUME NEW X, NEW t \in Seq(X), NEW c
  PROVE  Uris!Holds(t, c) <=> ~Free(t, {c})
BY DEF Uris!Holds, Uris!ToSet, Free

\* What is written of a text, a mark and another text
LEMMA MarkedTyped ==
  ASSUME NEW X, NEW u \in Seq(X), NEW c \in X, NEW v \in Seq(X)
  PROVE  u \o Uris!Marked(<<c>>, v) \in Seq(X)
<1> DEFINE m == Uris!Marked(<<c>>, v)
<1>1. m \in Seq(X)
  BY MarkedIs
<1> HIDE DEF m
<1>2. u \o m \in Seq(X)
  BY <1>1
<1> QED BY <1>2 DEF m

LEMMA HostTyped ==
  ASSUME Uris!Escapable, NEW h \in Hosts
  PROVE  h \in Seq(HostChars)
<1>1. Codes(Uris!User) \subseteq HostChars
  BY CodesWithin DEF HostChars
<1>2. CASE h \in Seq(Codes(Uris!User))
  BY <1>1, <1>2, Widen
<1>3. CASE h \notin Seq(Codes(Uris!User))
  <2>1. PICK w \in Addresses : h = InBrackets(w)
    BY <1>3 DEF Hosts
  <2>2. w \in Seq(Uris!Passwd) /\ w # <<>>
    BY AddressTyped
  <2>3. Uris!Passwd \subseteq HostChars /\ LeftBracket \in HostChars /\ RightBracket \in HostChars
    BY DEF HostChars, Codes
  <2>4. InBrackets(w) \in Seq(HostChars)
    BY <2>2, <2>3, BracketsIs
  <2> QED BY <2>1, <2>4
<1> QED BY <1>2, <1>3

\* Either host, with its port, is split from it
LEMMA HostComesBack ==
  ASSUME Uris!Escapable, NEW h \in Hosts, NEW r \in Seq(Uris!Digit), NEW i
  PROVE  /\ Uris!SplitUserHost(i, h \o Uris!Marked(<<Colon>>, r))
              = AuthorityOf(Uris!Before(i, {Colon}), Uris!After(i, {Colon}), h, r)
         /\ h \o Uris!Marked(<<Colon>>, r) \in Seq(HostChars)
<1>1. h \in Seq(HostChars)
  BY HostTyped
<1>2. Colon \in HostChars /\ Uris!Digit \subseteq HostChars
  <2>1. Colon \in Codes(Uris!Passwd)
    BY CodesWithin
  <2>2. Uris!Digit \subseteq Codes(Uris!Passwd)
    BY CodesWithin
  <2> QED BY <2>1, <2>2 DEF HostChars
<1>3. r \in Seq(HostChars)
  BY <1>2, Widen
<1>4. h \o Uris!Marked(<<Colon>>, r) \in Seq(HostChars)
  BY <1>1, <1>2, <1>3, MarkedTyped
<1>5. Uris!SplitUserHost(i, h \o Uris!Marked(<<Colon>>, r))
        = AuthorityOf(Uris!Before(i, {Colon}), Uris!After(i, {Colon}), h, r)
  <2>1. CASE h \in Seq(Codes(Uris!User))
    BY <2>1, HostNamed
  <2>2. CASE h \notin Seq(Codes(Uris!User))
    <3>1. PICK w \in Addresses : h = InBrackets(w)
      BY <2>2 DEF Hosts
    <3>2. Uris!SplitUserHost(i, InBrackets(w) \o Uris!Marked(<<Colon>>, r))
            = AuthorityOf(Uris!Before(i, {Colon}), Uris!After(i, {Colon}), InBrackets(w), r)
      BY HostInBrackets
    <3> QED BY <3>1, <3>2
  <2> QED BY <2>1, <2>2
<1> QED BY <1>4, <1>5

\* An authority that is joined is split into its parts
LEMMA PartsComeBack ==
  ASSUME Uris!Escapable, NEW u \in Seq(Codes(Uris!User)), NEW p \in Seq(Codes(Uris!Passwd)),
         NEW h \in Hosts, NEW r \in Seq(Uris!Digit)
  PROVE  /\ Uris!JoinAuthority(AuthorityOf(u, p, h, r)) \in Seq(AuthorityChars)
         /\ Uris!SplitAuthority(Uris!JoinAuthority(AuthorityOf(u, p, h, r))) = AuthorityOf(u, p, h, r)
<1> DEFINE a == AuthorityOf(u, p, h, r)
           i == u \o Uris!Marked(<<Colon>>, p)
           t == h \o Uris!Marked(<<Colon>>, r)
           X == Codes(Uris!Passwd)
           Y == AuthorityChars
           j == Uris!JoinAuthority(a)
<1>1. j = Uris!JoinUserHost(i, t)
  <2>1. a.user = u /\ a.passwd = p /\ a.host = h /\ a.port = r
    BY DEF AuthorityOf
  <2> HIDE DEF a
  <2> QED BY <2>1 DEF Uris!JoinAuthority, Colon
<1>x. X \subseteq HostChars /\ HostChars \subseteq Y /\ AtSign \in Y /\ Colon \in X /\ u \in Seq(X)
  <2>1. Colon \in X
    BY CodesWithin
  <2>2. Codes(Uris!User) \subseteq X
    BY CodesWithin
  <2>3. u \in Seq(X)
    BY <2>2, Widen
  <2> QED BY <2>1, <2>3 DEF AuthorityChars, HostChars
<1>n. AtSign \notin HostChars /\ AtSign \notin X
  <2>1. AtSign \notin X
    BY CodeClasses
  <2>2. AtSign # LeftBracket /\ AtSign # RightBracket
    BY DEF AtSign, LeftBracket, RightBracket
  <2> QED BY <2>1, <2>2 DEF HostChars
<1>2. i \in Seq(X)
  BY <1>x, MarkedTyped
<1>3. Cuts(i, {Colon}, u, p)
  <2>1. Codes(Uris!User) \cap {Colon} = {}
    BY CodeClasses
  <2>2. Free(u, {Colon})
    BY <2>1, FreeIn
  <2>3. Colon \in {Colon} /\ p \in Seq(X)
    OBVIOUS
  <2> HIDE DEF X
  <2> QED BY <1>x, <2>2, <2>3, MarkEnds
<1>4. /\ Uris!SplitUserHost(i, t) = AuthorityOf(Uris!Before(i, {Colon}), Uris!After(i, {Colon}), h, r)
      /\ t \in Seq(HostChars)
  BY HostComesBack
<1>5. Uris!SplitUserHost(i, t) = a
  BY <1>3, <1>4 DEF Cuts
<1> HIDE DEF i, t, a, X, Y
<1>6. i \in Seq(Y) /\ t \in Seq(Y) /\ Free(i, {AtSign}) /\ Free(t, {AtSign})
  <2>1. i \in Seq(HostChars) /\ X \cap {AtSign} = {} /\ HostChars \cap {AtSign} = {}
    BY <1>2, <1>x, <1>n, Widen
  <2>2. i \in Seq(Y)
    BY <1>x, <2>1, Widen
  <2>3. t \in Seq(Y)
    BY <1>x, <1>4, Widen
  <2>4. Free(i, {AtSign})
    BY <1>2, <2>1, FreeIn
  <2>5. Free(t, {AtSign})
    BY <1>4, <2>1, FreeIn
  <2> QED BY <2>2, <2>3, <2>4, <2>5
<1>7. CASE i = <<>>
  <2>1. j = t
    BY <1>1, <1>7 DEF Uris!JoinUserHost
  <2>2. ~Uris!Holds(t, AtSign)
    BY <1>6, HoldsIs
  <2>3. Uris!SplitAuthority(t) = Uris!SplitUserHost(<<>>, t)
    BY <2>2 DEF Uris!SplitAuthority, AtSign
  <2>4. Uris!SplitAuthority(t) = a
    BY <1>5, <1>7, <2>3
  <2> HIDE DEF j
  <2> QED BY <1>6, <2>1, <2>4 DEF j, a, Y
<1>8. CASE i # <<>>
  <2>1. j = (i \o <<AtSign>>) \o t
    BY <1>1, <1>8 DEF Uris!JoinUserHost, AtSign
  <2>2. j = i \o (<<AtSign>> \o t)
    <3> DEFINE c == <<AtSign>>
    <3>1. c \in Seq(Y)
      BY <1>x
    <3>2. \A x, y, z \in Seq(Y) : (x \o y) \o z = x \o (y \o z)
      BY ONLY ConcatAssociative, SMTT(30)
    <3> HIDE DEF c, j
    <3>3. (i \o c) \o t = i \o (c \o t)
      BY <1>6, <3>1, <3>2
    <3> QED BY <2>1, <3>3 DEF c
  <2>3. Cuts(i \o (<<AtSign>> \o t), {AtSign}, i, t)
    <3>1. AtSign \in {AtSign}
      OBVIOUS
    <3> QED BY <1>x, <1>6, <3>1, EndsAt
  <2>4. /\ i \o (<<AtSign>> \o t) \in Seq(Y)
        /\ Len(i \o (<<AtSign>> \o t)) = Len(i) + 1 + Len(t) /\ Len(i) \in Nat /\ Len(t) \in Nat
        /\ (i \o (<<AtSign>> \o t))[Len(i) + 1] = AtSign
    BY <1>x, <1>6, CutAt
  <2> HIDE DEF j
  <2>5. j \in Seq(Y) /\ Len(j) = Len(i) + 1 + Len(t) /\ j[Len(i) + 1] = AtSign /\ Cuts(j, {AtSign}, i, t)
    BY <2>2, <2>3, <2>4
  <2>6. Len(i) + 1 \in 1 .. Len(j)
    BY <2>4, <2>5
  <2>7. Uris!Holds(j, AtSign)
    BY <2>5, <2>6, HoldsIs DEF Free
  <2>8. Uris!SplitAuthority(j) = Uris!SplitUserHost(Uris!Before(j, {AtSign}), Uris!After(j, {AtSign}))
    BY <2>7 DEF Uris!SplitAuthority, AtSign
  <2>9. Uris!SplitAuthority(j) = a
    BY <1>5, <2>5, <2>8 DEF Cuts
  <2> QED BY <2>5, <2>9 DEF j, a, Y
<1> QED BY <1>7, <1>8

-----------------------------------------------------------------------------
(* The authority and the path.                                             *)

LEMMA Joins2 ==
  ASSUME NEW X, NEW x \in Seq(X), NEW y \in Seq(X)
  PROVE  /\ x \o y \in Seq(X) /\ Len(x \o y) = Len(x) + Len(y) /\ Len(x) \in Nat /\ Len(y) \in Nat
         /\ \A i \in 1 .. Len(x) : (x \o y)[i] = x[i]
         /\ \A i \in 1 .. Len(y) : (x \o y)[Len(x) + i] = y[i]
OBVIOUS

LEMMA RestIs ==
  ASSUME NEW X, NEW x \in Seq(X), NEW y \in Seq(X)
  PROVE  SubSeq(x \o y, Len(x) + 1, Len(x \o y)) = y
<1> DEFINE t == x \o y
           s == SubSeq(t, Len(x) + 1, Len(t))
<1>1. /\ t \in Seq(X) /\ Len(t) = Len(x) + Len(y) /\ Len(x) \in Nat /\ Len(y) \in Nat
      /\ \A i \in 1 .. Len(y) : t[Len(x) + i] = y[i]
  BY Joins2
<1> HIDE DEF t
<1>2. s \in Seq(X) /\ Len(s) = Len(y) /\ \A i \in 1 .. Len(y) : s[i] = t[Len(x) + i]
  BY <1>1
<1> HIDE DEF s
<1>3. s \in Seq(X) /\ y \in Seq(X) /\ Len(s) = Len(y) /\ \A i \in 1 .. Len(s) : s[i] = y[i]
  BY <1>1, <1>2
<1>4. s = y
  BY ONLY <1>3
<1> QED BY <1>4 DEF s, t

LEMMA FirstAndRest ==
  ASSUME NEW X, NEW t \in Seq(X), t # <<>>
  PROVE  t = <<t[1]>> \o Tail(t) /\ Tail(t) \in Seq(X) /\ t[1] \in X
<1> DEFINE c == t[1]
           r == Tail(t)
           s == <<c>> \o r
<1>0. Len(t) \in Nat \ {0}
  OBVIOUS
<1>1. c \in X /\ r \in Seq(X) /\ Len(r) = Len(t) - 1 /\ Len(t) \in Nat \ {0}
      /\ \A i \in 1 .. Len(t) - 1 : r[i] = t[i + 1]
  BY <1>0, HeadTailProperties
<1>2. t[1] = c
  OBVIOUS
<1> HIDE DEF c, r
<1>3. s \in Seq(X) /\ Len(s) = Len(t) /\ s[1] = c /\ \A i \in 1 .. Len(r) : s[i + 1] = r[i]
  BY <1>1
<1> HIDE DEF s
<1>4. \A i \in 1 .. Len(t) : s[i] = t[i]
  <2> TAKE i \in 1 .. Len(t)
  <2>1. i = 1 \/ (i - 1 \in 1 .. Len(r) /\ (i - 1) + 1 = i)
    BY <1>1
  <2> QED BY <1>1, <1>2, <1>3, <2>1
<1>5. t = s
  BY <1>3, <1>4
<1> QED BY <1>1, <1>5 DEF s, c, r

HierChars == Codes(Uris!Pchar) \cup AuthorityChars

LEMMA HierClasses ==
  ASSUME Uris!Escapable
  PROVE  /\ AuthorityChars \cap {Slash} = {} /\ HierChars \cap {QuestionMark, NumberSign} = {}
         /\ Slash \in HierChars /\ Codes(Uris!Pchar) \subseteq HierChars /\ AuthorityChars \subseteq HierChars
<1>1. /\ Slash \notin {LeftBracket, RightBracket, AtSign}
      /\ QuestionMark \notin {LeftBracket, RightBracket, AtSign}
      /\ NumberSign \notin {LeftBracket, RightBracket, AtSign}
  BY DEF Slash, LeftBracket, RightBracket, AtSign, QuestionMark, NumberSign
<1>2. Codes(Uris!Passwd) \cap {Slash, QuestionMark, NumberSign} = {}
  BY CodeClasses
<1>3. Codes(Uris!Pchar) \cap {QuestionMark, NumberSign} = {}
  BY CodeClasses
<1>4. Slash \in Codes(Uris!Pchar)
  BY CodesWithin
<1> QED BY <1>1, <1>2, <1>3, <1>4 DEF HierChars, AuthorityChars, HostChars

\* An authority and a path that are joined are split, whichever of them is empty
LEMMA HierComesBack ==
  ASSUME Uris!Escapable, NEW A \in Seq(AuthorityChars), NEW p \in Seq(Codes(Uris!Pchar)),
         A # <<>> /\ p # <<>> => p[1] = Slash
  PROVE  /\ Uris!JoinPath(A, p) \in Seq(HierChars)
         /\ Uris!Authority(Uris!JoinPath(A, p)) = A
         /\ Uris!Path(Uris!JoinPath(A, p)) = p
         /\ \/ A = <<>> /\ Uris!JoinPath(A, p) = p
            \/ Uris!JoinPath(A, p) # <<>> /\ Uris!JoinPath(A, p)[1] = Slash
<1> DEFINE H == HierChars
           S == Slash
           ss == <<S, S>>
           h == Uris!JoinPath(A, p)
<1>c. AuthorityChars \cap {S} = {} /\ S \in H /\ Codes(Uris!Pchar) \subseteq H /\ AuthorityChars \subseteq H
  BY HierClasses
<1>t. A \in Seq(H) /\ p \in Seq(H)
  BY <1>c, Widen
<1>s. ss \in Seq(H) /\ Len(ss) = 2 /\ ss[1] = S /\ ss[2] = S
  BY <1>c
<1>f. Free(A, {S})
  BY <1>c, FreeIn
<1>1. CASE A = <<>> /\ ~Uris!Starts(p, ss)
  <2>1. h = p
    BY <1>1 DEF Uris!JoinPath, Slash
  <2>2. Uris!Authority(p) = <<>>
    BY <1>1 DEF Uris!Authority, Slash
  <2>3. Uris!Path(p) = p
    BY <1>1 DEF Uris!Path, Slash
  <2> QED BY <1>t, <1>1, <2>1, <2>2, <2>3
<1>2. CASE ~(A = <<>> /\ ~Uris!Starts(p, ss))
  <2>1. h = (ss \o A) \o p
    BY <1>2 DEF Uris!JoinPath, Slash
  <2>2. p # <<>> => p[1] = S
    <3>1. CASE A # <<>>
      BY <3>1
    <3>2. CASE A = <<>>
      <4>1. Uris!Starts(p, ss)
        BY <1>2, <3>2
      <4>2. Uris!Starts(p, <<S, S>>) <=> Len(p) >= 2 /\ p[1] = S /\ p[2] = S
        BY <1>t, <1>c, StartsTwo
      <4> QED BY <4>1, <4>2
    <3> QED BY <3>1, <3>2
  <2> DEFINE x == ss \o A
             y == A \o p
  <2>3. x \in Seq(H) /\ Len(x) = 2 + Len(A) /\ Len(A) \in Nat
        /\ (\A i \in 1 .. 2 : x[i] = ss[i])
    <3> HIDE DEF ss
    <3>1. x \in Seq(H) /\ Len(x) = Len(ss) + Len(A) /\ Len(A) \in Nat
          /\ \A i \in 1 .. Len(ss) : x[i] = ss[i]
      BY <1>s, <1>t, Joins2
    <3> HIDE DEF x
    <3> QED BY <1>s, <3>1
  <2>4. y \in Seq(H)
    BY <1>t, Joins2
  <2>5. h = ss \o y
    <3> \A a, b, c \in Seq(H) : (a \o b) \o c = a \o (b \o c)
      BY ONLY ConcatAssociative
    <3> HIDE DEF ss
    <3> QED BY <1>s, <1>t, <2>1
  <2> HIDE DEF x, y, h, ss
  <2>6. h \in Seq(H) /\ Len(h) >= 2 /\ h[1] = S /\ h[2] = S
    <3>1. h = x \o p
      BY <2>1 DEF x
    <3>2. x \o p \in Seq(H) /\ Len(x \o p) = Len(x) + Len(p) /\ Len(p) \in Nat
          /\ \A i \in 1 .. Len(x) : (x \o p)[i] = x[i]
      BY <1>t, <2>3, Joins2
    <3>3. 1 \in 1 .. Len(x) /\ 2 \in 1 .. Len(x)
      BY <2>3
    <3> QED BY <1>s, <2>3, <3>1, <3>2, <3>3
  <2>7. Uris!Starts(h, ss)
    <3>1. Uris!Starts(h, <<S, S>>) <=> Len(h) >= 2 /\ h[1] = S /\ h[2] = S
      BY <1>c, <2>6, StartsTwo
    <3> QED BY <2>6, <3>1 DEF ss
  <2>8. SubSeq(h, 3, Len(h)) = y
    <3>1. SubSeq(ss \o y, Len(ss) + 1, Len(ss \o y)) = y
      BY <1>s, <2>4, RestIs
    <3> QED BY <1>s, <2>5, <3>1
  <2>9. SubSeq(h, 3 + Len(A), Len(h)) = p
    <3>1. SubSeq(x \o p, Len(x) + 1, Len(x \o p)) = p
      BY <1>t, <2>3, RestIs
    <3>2. Len(x) + 1 = 3 + Len(A) /\ h = x \o p
      BY <2>1, <2>3 DEF x
    <3> QED BY <3>1, <3>2
  <2>10. Uris!Before(y, {S}) = A
    <3>1. CASE p = <<>>
      <4>1. y = A
        BY <1>t, <3>1, NoneAfter DEF y
      <4>2. Cuts(A, {S}, A, <<>>)
        BY <1>t, <1>f, Whole
      <4> QED BY <4>1, <4>2 DEF Cuts
    <3>2. CASE p # <<>>
      <4> DEFINE r == Tail(p)
      <4>1. p = <<S>> \o r /\ r \in Seq(H)
        BY <1>t, <2>2, <3>2, FirstAndRest
      <4> HIDE DEF r
      <4>2. Cuts(A \o (<<S>> \o r), {S}, A, r)
        <5>1. S \in {S}
          OBVIOUS
        <5> QED BY <1>c, <1>t, <1>f, <4>1, <5>1, EndsAt
      <4> QED BY <4>1, <4>2 DEF Cuts, y
    <3> QED BY <3>1, <3>2
  <2>11. Uris!Starts(h, <<"/", "/">>)
    BY <2>7 DEF ss, Slash
  <2>12. Uris!Authority(h) = A
    BY <2>8, <2>10, <2>11 DEF Uris!Authority, Slash
  <2>13. Uris!Path(h) = p
    BY <2>9, <2>11, <2>12 DEF Uris!Path
  <2>14. h # <<>>
    BY <2>6
  <2> QED BY <2>6, <2>12, <2>13, <2>14 DEF h
<1> QED BY <1>1, <1>2

-----------------------------------------------------------------------------
(* What follows the scheme.                                                *)

RestChars == HierChars \cup Codes(Uris!Quefrag) \cup {NumberSign}

\* The query and the fragment, as they are written
Ending(q, f) == Uris!Marked(<<QuestionMark>>, q) \o Uris!Marked(<<NumberSign>>, f)

LEMMA RestClasses ==
  ASSUME Uris!Escapable
  PROVE  /\ HierChars \subseteq RestChars /\ Codes(Uris!Quefrag) \subseteq RestChars
         /\ QuestionMark \in Codes(Uris!Quefrag) /\ NumberSign \in RestChars /\ QuestionMark \in RestChars
         /\ QuestionMark # NumberSign
         /\ HierChars \cap {QuestionMark, NumberSign} = {} /\ Codes(Uris!Quefrag) \cap {NumberSign} = {}
<1>1. QuestionMark \in Uris!Quefrag /\ QuestionMark # NumberSign
  BY DEF QuestionMark, NumberSign, Uris!Quefrag
<1>2. HierChars \cap {QuestionMark, NumberSign} = {}
  BY HierClasses
<1>3. Codes(Uris!Quefrag) \cap {NumberSign} = {}
  BY CodeClasses
<1> QED BY <1>1, <1>2, <1>3 DEF RestChars, Codes

LEMMA EndingTyped ==
  ASSUME Uris!Escapable, NEW q \in Seq(Codes(Uris!Quefrag)), NEW f \in Seq(Codes(Uris!Quefrag))
  PROVE  /\ Uris!Marked(<<QuestionMark>>, q) \in Seq(RestChars)
         /\ Uris!Marked(<<NumberSign>>, f) \in Seq(RestChars)
         /\ Ending(q, f) \in Seq(RestChars)
         /\ Ending(q, f) # <<>> => Ending(q, f)[1] \in {QuestionMark, NumberSign}
<1> DEFINE X == RestChars
           Q == Codes(Uris!Quefrag)
           m == Uris!Marked(<<QuestionMark>>, q)
           n == Uris!Marked(<<NumberSign>>, f)
<1>1. Q \subseteq X /\ QuestionMark \in X /\ NumberSign \in X
  BY RestClasses
<1>2. q \in Seq(X) /\ f \in Seq(X)
  BY <1>1, Widen
<1> HIDE DEF X, Q
<1>3. m \in Seq(X) /\ (m # <<>> => m[1] = QuestionMark)
  BY <1>1, <1>2, MarkedIs
<1>4. n \in Seq(X) /\ (n # <<>> => n[1] = NumberSign)
  BY <1>1, <1>2, MarkedIs
<1> HIDE DEF m, n
<1> DEFINE e == m \o n
<1>5. e \in Seq(X)
  BY <1>3, <1>4
<1>6. CASE m = <<>>
  <2>1. e = n
    BY <1>4, <1>6, NoneAfter
  <2> HIDE DEF e
  <2>2. e # <<>> => e[1] \in {QuestionMark, NumberSign}
    BY <1>4, <2>1
  <2> QED BY <1>3, <1>4, <1>5, <2>2 DEF Ending, e, m, n, X
<1>7. CASE m # <<>>
  <2>1. e[1] = m[1]
    <3>1. \A i \in 1 .. Len(m) : e[i] = m[i]
      BY <1>3, <1>4, Joins2
    <3>2. 1 \in 1 .. Len(m)
      BY <1>3, <1>7
    <3> QED BY <3>1, <3>2
  <2> HIDE DEF e
  <2>2. e # <<>> => e[1] \in {QuestionMark, NumberSign}
    BY <1>3, <1>7, <2>1
  <2> QED BY <1>3, <1>4, <1>5, <2>2 DEF Ending, e, m, n, X
<1> QED BY <1>6, <1>7

\* A text and what ends it are what they were made of
LEMMA RestComesBack ==
  ASSUME Uris!Escapable, NEW h \in Seq(HierChars),
         NEW q \in Seq(Codes(Uris!Quefrag)), NEW f \in Seq(Codes(Uris!Quefrag))
  PROVE  LET rest == h \o Ending(q, f) IN
         /\ rest \in Seq(RestChars)
         /\ Uris!Before(rest, {QuestionMark, NumberSign}) = h
         /\ Uris!After(Uris!Before(rest, {NumberSign}), {QuestionMark}) = q
         /\ Uris!After(rest, {NumberSign}) = f
<1> DEFINE X == RestChars
           Q == Codes(Uris!Quefrag)
           m == Uris!Marked(<<QuestionMark>>, q)
           n == Uris!Marked(<<NumberSign>>, f)
           e == Ending(q, f)
           rest == h \o e
           hq == h \o m
           D == {QuestionMark, NumberSign}
<1>1. /\ HierChars \subseteq X /\ Q \subseteq X /\ QuestionMark \in X /\ NumberSign \in X
      /\ HierChars \cap D = {} /\ Q \cap {NumberSign} = {} /\ QuestionMark # NumberSign
      /\ QuestionMark \in Q
  BY RestClasses
<1>2. h \in Seq(X) /\ q \in Seq(X) /\ f \in Seq(X)
  BY <1>1, Widen
<1>3. m \in Seq(X) /\ n \in Seq(X) /\ e \in Seq(X)
  BY EndingTyped
<1>4. /\ Free(h, D) /\ Free(h, {QuestionMark}) /\ Free(h, {NumberSign})
  <2>1. HierChars \cap {QuestionMark} = {} /\ HierChars \cap {NumberSign} = {}
    BY <1>1
  <2> QED BY <1>1, <2>1, FreeIn
<1>5. /\ QuestionMark \in D /\ NumberSign \in D /\ QuestionMark \in {QuestionMark}
      /\ NumberSign \in {NumberSign}
  OBVIOUS
<1>e. e = m \o n
  BY DEF Ending
<1> HIDE DEF e, X, D
<1>6. rest \in Seq(X)
  BY <1>2, <1>3
<1>7. Cuts(hq, {QuestionMark}, h, q)
  BY <1>1, <1>2, <1>4, <1>5, MarkEnds
<1>8. rest = hq \o n
  <2>1. \A a, b, c \in Seq(X) : (a \o b) \o c = a \o (b \o c)
    BY ONLY ConcatAssociative
  <2> HIDE DEF m, n
  <2> QED BY <1>2, <1>3, <1>e, <2>1, SMTT(30)
<1>9. Cuts(hq \o n, {NumberSign}, hq, f)
  <2>1. hq \in Seq(X)
    <3> HIDE DEF m
    <3> QED BY <1>2, <1>3
  <2>2. Free(hq, {NumberSign})
    <3> DEFINE Y == HierChars \cup Q
    <3>1. h \in Seq(Y)
      BY Widen
    <3>2. q \in Seq(Y) /\ QuestionMark \in Y
      BY <1>1, Widen
    <3>3. Y \cap {NumberSign} = {}
      BY <1>1 DEF D
    <3> HIDE DEF Y, Q
    <3>4. m \in Seq(Y)
      BY <3>2, MarkedIs
    <3> HIDE DEF m
    <3>5. hq \in Seq(Y)
      BY <3>1, <3>4
    <3> HIDE DEF hq
    <3> QED BY <3>3, <3>5, FreeIn
  <2> HIDE DEF hq
  <2> QED BY <1>1, <1>2, <1>5, <2>1, <2>2, MarkEnds
<1>10. Uris!Before(rest, D) = h
  <2>1. CASE q = <<>>
    <3>1. m = <<>>
      BY <2>1 DEF Uris!Marked
    <3>2. e = n
      <4> HIDE DEF n
      <4> QED BY <1>3, <1>e, <3>1, NoneAfter
    <3>3. Cuts(h \o n, D, h, f)
      BY <1>1, <1>2, <1>4, <1>5, MarkEnds
    <3> QED BY <3>2, <3>3 DEF Cuts
  <2>2. CASE q # <<>>
    <3> DEFINE c == <<QuestionMark>>
               v == q \o n
    <3>1. m = c \o q
      BY <2>2 DEF Uris!Marked
    <3>2. c \in Seq(X)
      BY <1>1
    <3>3. v \in Seq(X)
      <4> HIDE DEF n
      <4> QED BY <1>2, <1>3
    <3>4. e = c \o v
      <4>1. \A x, y, z \in Seq(X) : (x \o y) \o z = x \o (y \o z)
        BY ONLY ConcatAssociative
      <4> HIDE DEF m, n, c
      <4> QED BY <1>2, <1>3, <1>e, <3>1, <3>2, <4>1
    <3> HIDE DEF v
    <3>5. Cuts(h \o (<<QuestionMark>> \o v), D, h, v)
      BY <1>1, <1>2, <1>4, <1>5, <3>3, EndsAt
    <3> QED BY <3>4, <3>5 DEF Cuts
  <2> QED BY <2>1, <2>2
<1>11. Uris!Before(rest, {NumberSign}) = hq /\ Uris!After(rest, {NumberSign}) = f
  BY <1>8, <1>9 DEF Cuts
<1>12. Uris!After(hq, {QuestionMark}) = q
  BY <1>7 DEF Cuts
<1> HIDE DEF hq
<1> QED BY <1>6, <1>10, <1>11, <1>12 DEF X, D, e

-----------------------------------------------------------------------------
(* The scheme.                                                             *)

\* A ":" in the text is not what ends a scheme
Schemeless(t) ==
  \A n \in 1 .. Len(t) : t[n] = Colon => \E j \in 1 .. n - 1 : t[j] \in {Slash, QuestionMark, NumberSign}

SchemeEnds == {Colon, Slash, QuestionMark, NumberSign}

LEMMA SchemeIs ==
  ASSUME NEW uri
  PROVE  Uris!Scheme(uri) = IF /\ Uris!Before(uri, SchemeEnds) # <<>>
                               /\ Uris!Starts(uri, Append(Uris!Before(uri, SchemeEnds), Colon))
                            THEN Uris!Before(uri, SchemeEnds) ELSE <<>>
BY DEF Uris!Scheme, SchemeEnds, Colon, Slash, QuestionMark, NumberSign

\* What has no scheme is not given one
LEMMA NoScheme ==
  ASSUME NEW X, NEW t \in Seq(X), Colon \in X, Schemeless(t)
  PROVE  Uris!Scheme(t) = <<>>
<1> DEFINE n == Uris!First(t, SchemeEnds)
           b == Uris!Before(t, SchemeEnds)
           s == Append(b, Colon)
<1>1. FirstAt(t, SchemeEnds, n)
  BY FirstIs
<1>2. b \in Seq(X)
  BY CutTyped
<1>3. b = Uris!Until(t, n)
  BY DEF Uris!Before
<1> HIDE DEF n, b
<1>4. s \in Seq(X) /\ Len(s) = Len(b) + 1 /\ s[Len(b) + 1] = Colon /\ Len(b) \in Nat
      /\ \A i \in 1 .. Len(b) : s[i] = b[i]
  BY <1>2
<1> HIDE DEF s
<1> SUFFICES ASSUME b # <<>>, Uris!Starts(t, s) PROVE FALSE
  <2>1. ~(b # <<>> /\ Uris!Starts(t, s))
    OBVIOUS
  <2> QED BY <2>1, SchemeIs DEF b, s
<1>5. Len(s) <= Len(t) /\ \A i \in 1 .. Len(s) : t[i] = s[i]
  BY <1>4, StartsIs
<1>l. Len(t) \in Nat
  OBVIOUS
<1>6. n # 0
  <2>1. ASSUME n = 0 PROVE FALSE
    <3>1. b = t
      BY <1>3, <2>1 DEF Uris!Until
    <3> QED BY <1>4, <1>5, <1>l, <3>1
  <2> QED BY <2>1
<1>7. n \in 1 .. Len(t) /\ \A j \in 1 .. Len(t) : j < n => t[j] \notin SchemeEnds
  BY <1>1, <1>6 DEF FirstAt
<1>8. Len(b) = n - 1
  <2>1. b = SubSeq(t, 1, n - 1)
    BY <1>3, <1>6 DEF Uris!Until
  <2> QED BY <1>7, <2>1
<1>9. t[n] = Colon
  <2>1. Len(b) + 1 \in 1 .. Len(s) /\ Len(b) + 1 = n
    BY <1>4, <1>7, <1>8
  <2> QED BY <1>4, <1>5, <2>1
<1>10. PICK j \in 1 .. n - 1 : t[j] \in {Slash, QuestionMark, NumberSign}
  BY <1>7, <1>9 DEF Schemeless
<1>11. j \in 1 .. Len(t) /\ j < n
  BY <1>7, <1>l
<1> QED BY <1>7, <1>10, <1>11 DEF SchemeEnds

\* A scheme that is joined is the scheme of the text
LEMMA SchemeComesBack ==
  ASSUME NEW X, SchemeChars \subseteq X, NEW s \in Seq(SchemeChars), s # <<>>, NEW v \in Seq(X), Colon \in X
  PROVE  LET uri == s \o (<<Colon>> \o v) IN
         uri \in Seq(X) /\ Uris!Scheme(uri) = s /\ Uris!After(uri, {Colon}) = v
<1> DEFINE uri == s \o (<<Colon>> \o v)
           p == Append(s, Colon)
<1>1. s \in Seq(X)
  BY Widen
<1>2. Free(s, SchemeEnds) /\ Free(s, {Colon}) /\ Colon \in SchemeEnds /\ Colon \in {Colon}
  <2>1. SchemeChars \cap {Colon} = {} /\ SchemeChars \cap SchemeEnds = {}
    BY SchemeClass DEF SchemeEnds
  <2> QED BY <2>1, FreeIn DEF SchemeEnds
<1>3. Cuts(uri, SchemeEnds, s, v)
  BY <1>1, <1>2, EndsAt
<1>4. Cuts(uri, {Colon}, s, v)
  BY <1>1, <1>2, EndsAt
<1>5. /\ uri \in Seq(X)
      /\ Len(uri) = Len(s) + 1 + Len(v) /\ Len(s) \in Nat /\ Len(v) \in Nat
      /\ uri[Len(s) + 1] = Colon
      /\ \A i \in 1 .. Len(s) : uri[i] = s[i]
  BY <1>1, CutAt
<1> HIDE DEF uri
<1>6. p \in Seq(X) /\ Len(p) = Len(s) + 1 /\ p[Len(s) + 1] = Colon
      /\ \A i \in 1 .. Len(s) : p[i] = s[i]
  BY <1>1
<1> HIDE DEF p
<1>7. Uris!Starts(uri, p)
  <2>1. \A i \in 1 .. Len(p) : i = Len(s) + 1 \/ i \in 1 .. Len(s)
    BY <1>5, <1>6
  <2>2. \A i \in 1 .. Len(p) : uri[i] = p[i]
    BY <1>5, <1>6, <2>1
  <2>3. Len(p) <= Len(uri)
    BY <1>5, <1>6
  <2> QED BY <1>5, <1>6, <2>2, <2>3, StartsIs
<1>8. Uris!Scheme(uri) = s
  <2>1. Uris!Before(uri, SchemeEnds) = s
    BY <1>3 DEF Cuts
  <2> QED BY <1>7, <2>1, SchemeIs DEF p
<1>9. Uris!After(uri, {Colon}) = v
  BY <1>4 DEF Cuts
<1> QED BY <1>5, <1>8, <1>9 DEF uri

\* What ends a text does not make what is before it a scheme
LEMMA EndingIsSchemeless ==
  ASSUME NEW X, NEW h \in Seq(X), NEW e \in Seq(X), Schemeless(h),
         e # <<>> => e[1] \in {QuestionMark, NumberSign}
  PROVE  Schemeless(h \o e)
<1> DEFINE t == h \o e
<1>1. /\ t \in Seq(X) /\ Len(t) = Len(h) + Len(e) /\ Len(h) \in Nat /\ Len(e) \in Nat
      /\ \A i \in 1 .. Len(h) : t[i] = h[i]
      /\ \A i \in 1 .. Len(e) : t[Len(h) + i] = e[i]
  BY Joins2
<1> HIDE DEF t
<1> SUFFICES ASSUME NEW n \in 1 .. Len(t), t[n] = Colon
             PROVE  \E j \in 1 .. n - 1 : t[j] \in {Slash, QuestionMark, NumberSign}
  BY DEF Schemeless, t
<1>2. CASE n <= Len(h)
  <2>1. n \in 1 .. Len(h) /\ h[n] = Colon
    BY <1>1, <1>2
  <2>2. PICK j \in 1 .. n - 1 : h[j] \in {Slash, QuestionMark, NumberSign}
    BY <2>1 DEF Schemeless
  <2>3. j \in 1 .. Len(h)
    BY <1>1, <2>1
  <2> QED BY <1>1, <2>2, <2>3
<1>3. CASE ~(n <= Len(h))
  <2>1. Len(e) # 0 /\ 1 \in 1 .. Len(e) /\ Len(h) + 1 <= n
    BY <1>1, <1>3
  <2>2. e[1] \in {QuestionMark, NumberSign}
    <3>1. e # <<>>
      BY <2>1
    <3> QED BY <3>1
  <2>3. t[Len(h) + 1] \in {QuestionMark, NumberSign}
    BY <1>1, <2>1, <2>2
  <2>4. n # Len(h) + 1
    BY <2>3 DEF Colon, QuestionMark, NumberSign
  <2>5. Len(h) + 1 \in 1 .. n - 1
    BY <1>1, <2>1, <2>4
  <2> QED BY <2>3, <2>5
<1> QED BY <1>2, <1>3

\* A text that begins with "/"
LEMMA SlashesAreSchemeless ==
  ASSUME NEW X, NEW t \in Seq(X), t # <<>>, t[1] = Slash
  PROVE  Schemeless(t)
<1> SUFFICES ASSUME NEW n \in 1 .. Len(t), t[n] = Colon
             PROVE  \E j \in 1 .. n - 1 : t[j] \in {Slash, QuestionMark, NumberSign}
  BY DEF Schemeless
<1>1. n # 1
  BY DEF Colon, Slash
<1>2. 1 \in 1 .. n - 1
  BY <1>1
<1> QED BY <1>2

\* A path whose first segment has no ":"
LEMMA SegmentIsSchemeless ==
  ASSUME NEW X, NEW t \in Seq(X), ~Uris!Holds(Uris!Before(t, {Slash}), Colon)
  PROVE  Schemeless(t)
<1> DEFINE m == Uris!First(t, {Slash})
           b == Uris!Before(t, {Slash})
<1>1. FirstAt(t, {Slash}, m)
  BY FirstIs
<1>2. b \in Seq(X)
  BY CutTyped
<1>3. b = Uris!Until(t, m)
  BY DEF Uris!Before
<1>4. Free(b, {Colon})
  BY <1>2, HoldsIs
<1> HIDE DEF m, b
<1> SUFFICES ASSUME NEW n \in 1 .. Len(t), t[n] = Colon,
                    ~\E j \in 1 .. n - 1 : t[j] \in {Slash, QuestionMark, NumberSign}
             PROVE  FALSE
  BY DEF Schemeless
<1>5. CASE m = 0
  <2>1. b = t
    BY <1>3, <1>5 DEF Uris!Until
  <2> QED BY <1>4, <2>1 DEF Free
<1>6. CASE m # 0
  <2>1. m \in 1 .. Len(t) /\ t[m] = Slash /\ Len(t) \in Nat
    BY <1>1, <1>6 DEF FirstAt
  <2>2. ~(m < n)
    <3>1. m < n => m \in 1 .. n - 1
      BY <2>1
    <3> QED BY <2>1, <3>1
  <2>3. m # n
    BY <2>1 DEF Colon, Slash
  <2>4. n \in 1 .. m - 1
    BY <2>1, <2>2, <2>3
  <2>5. b = SubSeq(t, 1, m - 1)
    BY <1>3, <1>6 DEF Uris!Until
  <2>6. Len(b) = m - 1 /\ b[n] = t[n]
    BY <2>1, <2>4, <2>5
  <2> QED BY <1>4, <2>4, <2>6 DEF Free
<1> QED BY <1>5, <1>6

-----------------------------------------------------------------------------
(* The tree.                                                               *)

CodedAuthorities == [user : Seq(Codes(Uris!User)), passwd : Seq(Codes(Uris!Passwd)), host : Hosts,
                port : Seq(Uris!Digit)]
CodedTrees == [scheme : Seq(SchemeChars), authority : CodedAuthorities, path : Seq(Codes(Uris!Pchar)),
               query : Seq(PairsOf(KeyCodes, ValueCodes) \ EmptyPairs), fragment : Seq(Codes(Uris!Quefrag))]

\* A path is not taken for anything else
PathStands(e) ==
  /\ e.path # <<>> /\ e.authority # Uris!NoAuthority => e.path[1] = Slash
  /\ e.authority = Uris!NoAuthority /\ e.scheme = <<>> => ~Uris!Holds(Uris!Before(e.path, {Slash}), Colon)

\* The authority that is empty is the text that is empty
LEMMA NoAuthorityIs ==
  ASSUME Uris!Escapable
  PROVE  Uris!JoinAuthority(Uris!NoAuthority) = <<>> /\ Uris!SplitAuthority(<<>>) = Uris!NoAuthority
<1> DEFINE e == <<>>
<1>1. e \in Seq(Codes(Uris!User)) /\ e \in Seq(Codes(Uris!Passwd)) /\ e \in Seq(Uris!Digit)
  OBVIOUS
<1>2. e \in Hosts
  BY <1>1 DEF Hosts
<1>3. Uris!Marked(<<":">>, e) = e
  BY DEF Uris!Marked
<1>4. e \o e = e
  OBVIOUS
<1>5. Uris!NoAuthority = AuthorityOf(e, e, e, e)
  BY DEF Uris!NoAuthority, AuthorityOf
<1> HIDE DEF e
<1>6. Uris!SplitAuthority(Uris!JoinAuthority(AuthorityOf(e, e, e, e))) = AuthorityOf(e, e, e, e)
  BY <1>1, <1>2, PartsComeBack
<1> DEFINE a == AuthorityOf(e, e, e, e)
<1>7. a.user = e /\ a.passwd = e /\ a.host = e /\ a.port = e
  BY DEF AuthorityOf
<1> HIDE DEF a
<1>8. Uris!JoinUserHost(e, e) = e
  BY DEF Uris!JoinUserHost, e
<1>9. Uris!JoinAuthority(a) = e
  BY <1>3, <1>4, <1>7, <1>8 DEF Uris!JoinAuthority
<1> QED BY <1>5, <1>6, <1>9 DEF a, e

\* The authority of a tree, and that there is none, come back
LEMMA AuthorityComesBack ==
  ASSUME Uris!Escapable, NEW a \in CodedAuthorities
  PROVE  /\ Uris!JoinAuthority(a) \in Seq(AuthorityChars)
         /\ Uris!SplitAuthority(Uris!JoinAuthority(a)) = a
         /\ (Uris!JoinAuthority(a) = <<>> <=> a = Uris!NoAuthority)
<1>1. /\ a.user \in Seq(Codes(Uris!User)) /\ a.passwd \in Seq(Codes(Uris!Passwd))
      /\ a.host \in Hosts /\ a.port \in Seq(Uris!Digit)
      /\ a = AuthorityOf(a.user, a.passwd, a.host, a.port)
  BY DEF CodedAuthorities, AuthorityOf
<1> DEFINE u == a.user  p == a.passwd  h == a.host  r == a.port
<1>2. /\ u \in Seq(Codes(Uris!User)) /\ p \in Seq(Codes(Uris!Passwd)) /\ h \in Hosts
      /\ r \in Seq(Uris!Digit) /\ a = AuthorityOf(u, p, h, r)
  BY <1>1
<1> HIDE DEF u, p, h, r
<1>3. /\ Uris!JoinAuthority(a) \in Seq(AuthorityChars)
      /\ Uris!SplitAuthority(Uris!JoinAuthority(a)) = a
  BY <1>2, PartsComeBack
<1>4. Uris!JoinAuthority(a) = <<>> <=> a = Uris!NoAuthority
  BY <1>3, NoAuthorityIs
<1> QED BY <1>3, <1>4

\* The text of a tree: its scheme, and the rest
LEMMA JoinIs ==
  ASSUME Uris!Escapable, NEW e \in CodedTrees, NEW h \in Seq(HierChars),
         h = Uris!JoinPath(Uris!JoinAuthority(e.authority), e.path),
         NEW q \in Seq(Codes(Uris!Quefrag)), q = Uris!JoinQuery(e.query)
  PROVE  LET rest == h \o Ending(q, e.fragment) IN
         Uris!Join(e) = IF e.scheme = <<>> THEN rest ELSE e.scheme \o (<<Colon>> \o rest)
<1> DEFINE X == RestChars
           s == e.scheme
           f == e.fragment
           m == Uris!Marked(<<QuestionMark>>, q)
           n == Uris!Marked(<<NumberSign>>, f)
           rest == h \o (m \o n)
           S == IF s = <<>> THEN <<>> ELSE Append(s, Colon)
           c == <<Colon>>
<1>1. s \in Seq(SchemeChars) /\ f \in Seq(Codes(Uris!Quefrag))
  BY DEF CodedTrees
<1>2. HierChars \subseteq X /\ SchemeChars \subseteq X /\ Colon \in X
  <2>1. HierChars \subseteq X /\ Codes(Uris!Quefrag) \subseteq X
    BY RestClasses
  <2>2. SchemeChars \subseteq Codes(Uris!Quefrag)
    BY CodesWithin
  <2>3. Colon \in Codes(Uris!Pchar) /\ Codes(Uris!Pchar) \subseteq HierChars
    BY CodesWithin, HierClasses
  <2> QED BY <2>1, <2>2, <2>3
<1>3. m \in Seq(X) /\ n \in Seq(X)
  BY <1>1, EndingTyped
<1>4. s \in Seq(X) /\ h \in Seq(X)
  BY <1>1, <1>2, Widen
<1>5. Uris!Join(e) = ((S \o h) \o m) \o n
  BY DEF Uris!Join, Colon, QuestionMark, NumberSign
<1>6. \A x, y, z \in Seq(X) : (x \o y) \o z = x \o (y \o z)
  BY ONLY ConcatAssociative
<1>7. Ending(q, f) = m \o n
  BY DEF Ending
<1>c. c \in Seq(X) /\ Append(s, Colon) = s \o c
  BY <1>2, <1>4
<1> HIDE DEF m, n, f, s, X, c
<1>8. CASE s = <<>>
  <2>1. S = <<>>
    BY <1>8
  <2>2. S \o h = h
    BY <1>4, <2>1, NoneAfter
  <2>3. (h \o m) \o n = h \o (m \o n)
    BY <1>3, <1>4, <1>6
  <2> HIDE DEF S
  <2> QED BY <1>5, <1>7, <1>8, <2>2, <2>3 DEF s, f
<1>9. CASE s # <<>>
  <2>1. S = s \o c
    BY <1>c, <1>9
  <2>2. S \in Seq(X)
    BY <1>4, <1>c, <2>1
  <2>n. m \o n \in Seq(X) /\ rest \in Seq(X)
    BY <1>3, <1>4
  <2> HIDE DEF S
  <2>3. S \o h \in Seq(X)
    BY <1>4, <2>2
  <2>4. ((S \o h) \o m) \o n = (S \o h) \o (m \o n)
    BY <1>3, <1>6, <2>3
  <2>5. (S \o h) \o (m \o n) = S \o rest
    BY <1>4, <1>6, <2>2, <2>n
  <2>6. S \o rest = s \o (c \o rest)
    <3> HIDE DEF rest
    <3> QED BY <1>4, <1>6, <1>c, <2>1, <2>n, ZenonT(60)
  <2>7. Uris!Join(e) = s \o (c \o (h \o (m \o n)))
    BY <1>5, <2>4, <2>5, <2>6
  <2> QED BY <1>7, <1>9, <2>7 DEF s, f, c
<1> QED BY <1>8, <1>9

\* A tree that is joined is what its text is split into
LEMMA CodedComesBack ==
  ASSUME Uris!Escapable, NEW e \in CodedTrees, PathStands(e)
  PROVE  Uris!SplitTree(Uris!Join(e)) = e
<1> DEFINE s == e.scheme
           a == e.authority
           p == e.path
           f == e.fragment
           A == Uris!JoinAuthority(a)
           h == Uris!JoinPath(A, p)
           q == Uris!JoinQuery(e.query)
           rest == h \o Ending(q, f)
<1>1. /\ s \in Seq(SchemeChars) /\ a \in CodedAuthorities /\ p \in Seq(Codes(Uris!Pchar))
      /\ e.query \in Seq(PairsOf(KeyCodes, ValueCodes) \ EmptyPairs)
      /\ f \in Seq(Codes(Uris!Quefrag))
      /\ e = [scheme |-> s, authority |-> a, path |-> p, query |-> e.query, fragment |-> f]
  BY DEF CodedTrees
<1>2. /\ A \in Seq(AuthorityChars) /\ Uris!SplitAuthority(A) = a
      /\ (A = <<>> <=> a = Uris!NoAuthority)
  BY <1>1, AuthorityComesBack
<1>3. A # <<>> /\ p # <<>> => p[1] = Slash
  BY <1>2 DEF PathStands
<1>4. /\ h \in Seq(HierChars) /\ Uris!Authority(h) = A /\ Uris!Path(h) = p
      /\ \/ A = <<>> /\ h = p
         \/ h # <<>> /\ h[1] = Slash
  <2> HIDE DEF A, p
  <2> QED BY <1>1, <1>2, <1>3, HierComesBack DEF p
<1>5. q \in Seq(Codes(Uris!Quefrag)) /\ Uris!SplitQuery(q) = e.query
  <2> DEFINE g == e.query
  <2>1. Separate(KeyCodes, ValueCodes, QueryCodes) /\ QueryCodes \cup {Ampersand} = Codes(Uris!Quefrag)
    BY CodeClasses
  <2>2. g \in Seq(PairsOf(KeyCodes, ValueCodes) \ EmptyPairs)
    BY <1>1
  <2> HIDE DEF g
  <2>3. Uris!JoinQuery(g) \in Seq(QueryCodes \cup {Ampersand}) /\ Uris!SplitQuery(Uris!JoinQuery(g)) = g
    BY <2>1, <2>2, QueryComesBack
  <2> QED BY <2>1, <2>3 DEF g
<1>6. /\ rest \in Seq(RestChars)
      /\ Uris!Before(rest, {QuestionMark, NumberSign}) = h
      /\ Uris!After(Uris!Before(rest, {NumberSign}), {QuestionMark}) = q
      /\ Uris!After(rest, {NumberSign}) = f
  <2> HIDE DEF h, q, f
  <2> QED BY <1>1, <1>4, <1>5, RestComesBack, ZenonT(60) DEF f
<1>7. Uris!Join(e) = IF s = <<>> THEN rest ELSE s \o (<<Colon>> \o rest)
  BY <1>4, <1>5, JoinIs
<1>e. Ending(q, f) \in Seq(RestChars)
      /\ (Ending(q, f) # <<>> => Ending(q, f)[1] \in {QuestionMark, NumberSign})
  BY <1>1, <1>5, EndingTyped
<1>c. /\ Colon \in RestChars /\ SchemeChars \subseteq RestChars /\ h \in Seq(RestChars)
  <2>1. HierChars \subseteq RestChars /\ Codes(Uris!Quefrag) \subseteq RestChars
    BY RestClasses
  <2>2. SchemeChars \subseteq Codes(Uris!Quefrag)
    BY CodesWithin
  <2>3. Colon \in Codes(Uris!Pchar) /\ Codes(Uris!Pchar) \subseteq HierChars
    BY CodesWithin, HierClasses
  <2>4. h \in Seq(RestChars)
    <3> HIDE DEF h
    <3> QED BY <1>4, <2>1, Widen
  <2> QED BY <2>1, <2>2, <2>3, <2>4
<1> HIDE DEF rest, h, q, A
<1>8. Uris!SplitRest(s, rest) = e
  BY <1>1, <1>2, <1>4, <1>5, <1>6 DEF Uris!SplitRest, QuestionMark, NumberSign
<1>9. CASE s = <<>>
  <2>1. Schemeless(h)
    <3>1. CASE A = <<>> /\ h = p
      <4>1. ~Uris!Holds(Uris!Before(h, {Slash}), Colon)
        BY <1>2, <1>9, <3>1 DEF PathStands
      <4> QED BY <1>c, <4>1, SegmentIsSchemeless
    <3>2. CASE h # <<>> /\ h[1] = Slash
      BY <1>c, <3>2, SlashesAreSchemeless
    <3> QED BY <1>4, <3>1, <3>2
  <2>2. Schemeless(rest)
    BY <1>c, <1>e, <2>1, EndingIsSchemeless DEF rest
  <2>3. Uris!Scheme(rest) = <<>>
    BY <1>6, <1>c, <2>2, NoScheme
  <2>4. Uris!SplitScheme(<<>>, rest) = Uris!SplitRest(<<>>, rest)
    BY DEF Uris!SplitScheme
  <2> QED BY <1>7, <1>8, <1>9, <2>3, <2>4 DEF Uris!SplitTree
<1>10. CASE s # <<>>
  <2> DEFINE uri == s \o (<<Colon>> \o rest)
  <2>1. Uris!Scheme(uri) = s /\ Uris!After(uri, {Colon}) = rest
    <3> HIDE DEF s
    <3> QED BY <1>1, <1>6, <1>c, <1>10, SchemeComesBack
  <2>2. Uris!Join(e) = uri
    BY <1>7, <1>10
  <2> HIDE DEF uri
  <2>3. Uris!SplitScheme(s, uri) = Uris!SplitRest(s, rest)
    BY <1>10, <2>1 DEF Uris!SplitScheme, Colon
  <2> QED BY <1>8, <2>1, <2>2, <2>3 DEF Uris!SplitTree
<1> QED BY <1>9, <1>10

-----------------------------------------------------------------------------
(* Escapes.                                                                *)

Charset == DOMAIN Escape

\* s is t, some of its characters escaped
Spells(s, t) ==
  DOMAIN s = DOMAIN t /\ \A i \in DOMAIN t : s[i] = t[i] \/ s[i] = Escape[t[i]]

\* Characters have escapes, and escapes are not characters
LEMMA SignsAre ==
  ASSUME Uris!Escapable
  PROVE  /\ Uris!Quefrag \subseteq Charset /\ SpaceSign \in Charset /\ Uris!Digit \subseteq Charset
         /\ Uris!Quefrag \cap Uris!Escapes = {} /\ Charset \cap Uris!Escapes = {}
         /\ \A c \in Charset : Escape[c] \in Uris!Escapes
<1>1. Uris!Quefrag \subseteq Charset /\ SpaceSign \in Charset
  BY DEF Uris!Escapable, Charset, SpaceSign, Uris!Delims
<1>2. Charset \cap Uris!Escapes = {}
  BY DEF Uris!Escapable, Charset
<1>3. \A c \in Charset : Escape[c] \in Uris!Escapes
  BY DEF Uris!Escapes, Charset
<1>4. Uris!Digit \subseteq Uris!Quefrag
  <2>1. Uris!Digit \subseteq Uris!User /\ Uris!User \subseteq Uris!Passwd /\ Uris!Passwd \subseteq Uris!Pchar
        /\ Uris!Pchar \subseteq Uris!Quefrag
    BY Within
  <2> QED BY <2>1
<1> QED BY <1>1, <1>2, <1>3, <1>4

\* An escape means the character it is of
LEMMA MeantIs ==
  ASSUME Uris!Escapable
  PROVE  /\ \A c \in Charset : Uris!Meant(c) = c /\ Uris!Meant(Escape[c]) = c
         /\ \A x \in Uris!Escapes : Uris!Meant(x) \in Charset
<1>1. \A c \in Charset : Uris!Meant(c) = c
  BY SignsAre DEF Uris!Meant, Charset
<1>2. \A c, d \in Charset : Escape[c] = Escape[d] => c = d
  BY DEF Uris!Escapable, Charset
<1>3. ASSUME NEW c \in Charset PROVE Uris!Meant(Escape[c]) = c
  <2>1. Escape[c] \in Uris!Escapes
    BY SignsAre
  <2> DEFINE d == CHOOSE d \in Charset : Escape[d] = Escape[c]
  <2>2. d \in Charset /\ Escape[d] = Escape[c]
    OBVIOUS
  <2>3. d = c
    <3> HIDE DEF d
    <3> QED BY <1>2, <2>2
  <2> QED BY <2>1, <2>3 DEF Uris!Meant, Charset
<1>4. ASSUME NEW x \in Uris!Escapes PROVE Uris!Meant(x) \in Charset
  <2>1. PICK c \in Charset : x = Escape[c]
    BY DEF Uris!Escapes, Charset
  <2> QED BY <1>3, <2>1
<1> QED BY <1>1, <1>3, <1>4

\* Decoding takes the escapes away
LEMMA DecodesTo ==
  ASSUME Uris!Escapable, NEW t \in Seq(Charset), NEW s, Spells(s, t)
  PROVE  Uris!DecodeText(s) = t
<1>1. DOMAIN t = 1 .. Len(t) /\ (\A i \in 1 .. Len(t) : t[i] \in Charset) /\ t = [i \in 1 .. Len(t) |-> t[i]]
  OBVIOUS
<1>2. \A i \in 1 .. Len(t) : Uris!Meant(s[i]) = t[i]
  BY <1>1, MeantIs DEF Spells
<1>3. Uris!DecodeText(s) = [i \in 1 .. Len(t) |-> t[i]]
  BY <1>1, <1>2 DEF Spells, Uris!DecodeText
<1> QED BY <1>1, <1>3

LEMMA EscapesDecode ==
  ASSUME Uris!Escapable, NEW t \in Seq(Charset \cup Uris!Escapes)
  PROVE  /\ Uris!DecodeText(t) \in Seq(Charset) /\ Len(Uris!DecodeText(t)) = Len(t)
         /\ \A i \in 1 .. Len(t) : t[i] \in Charset => Uris!DecodeText(t)[i] = t[i]
<1>1. DOMAIN t = 1 .. Len(t) /\ Len(t) \in Nat /\ \A i \in 1 .. Len(t) : t[i] \in Charset \cup Uris!Escapes
  OBVIOUS
<1> DEFINE d == Uris!DecodeText(t)
           n == Len(t)
<1>2. d = [i \in 1 .. n |-> Uris!Meant(t[i])]
  BY <1>1 DEF Uris!DecodeText
<1>3. \A i \in 1 .. n : Uris!Meant(t[i]) \in Charset /\ (t[i] \in Charset => Uris!Meant(t[i]) = t[i])
  BY <1>1, MeantIs
<1> HIDE DEF d
<1>4. d \in [1 .. n -> Charset]
  BY <1>2, <1>3
<1>5. d \in Seq(Charset) /\ Len(d) = n
  BY <1>1, <1>4
<1>6. \A i \in 1 .. n : t[i] \in Charset => d[i] = t[i]
  BY <1>2, <1>3
<1>7. d \in Seq(Charset) /\ Len(d) = Len(t) /\ \A i \in 1 .. Len(t) : t[i] \in Charset => d[i] = t[i]
  BY <1>5, <1>6
<1> QED BY <1>7 DEF d

\* Encoding changes what a text is written with, and not what it spells
LEMMA EncodeSpells ==
  ASSUME Uris!Escapable, NEW t \in Seq(Charset), NEW C
  PROVE  /\ Uris!EncodeText(t, C) \in Seq(Codes(C)) /\ Len(Uris!EncodeText(t, C)) = Len(t)
         /\ Spells(Uris!EncodeText(t, C), t)
         /\ \A i \in 1 .. Len(t) : t[i] \in C => Uris!EncodeText(t, C)[i] = t[i]
<1> DEFINE s == Uris!EncodeText(t, C)
           n == Len(t)
<1>1. DOMAIN t = 1 .. n /\ n \in Nat /\ \A i \in 1 .. n : t[i] \in Charset
  OBVIOUS
<1>2. s = [i \in 1 .. n |-> IF t[i] \in C THEN t[i] ELSE Escape[t[i]]]
  BY <1>1 DEF Uris!EncodeText
<1>3. \A i \in 1 .. n : (IF t[i] \in C THEN t[i] ELSE Escape[t[i]]) \in Codes(C)
  BY <1>1, SignsAre DEF Codes
<1> HIDE DEF s
<1>4. s \in [1 .. n -> Codes(C)]
  BY <1>2, <1>3
<1>5. s \in Seq(Codes(C)) /\ Len(s) = n
  BY <1>1, <1>4
<1>6. Spells(s, t)
  BY <1>1, <1>2 DEF Spells
<1>7. \A i \in 1 .. n : t[i] \in C => s[i] = t[i]
  BY <1>2
<1> QED BY <1>5, <1>6, <1>7 DEF s

\* A key or a value of a query is encoded and decoded
LEMMA QueryEncodes ==
  ASSUME Uris!Escapable, NEW t \in Seq(Charset), NEW C, PlusSign \notin C
  PROVE  /\ Uris!EncodeQuery(t, C) \in Seq(Codes(C) \cup {PlusSign})
         /\ Len(Uris!EncodeQuery(t, C)) = Len(t)
         /\ Uris!DecodeElt(Uris!EncodeQuery(t, C)) = t
<1> DEFINE s == Uris!EncodeQuery(t, C)
           n == Len(t)
           r == [i \in DOMAIN s |-> IF s[i] = PlusSign THEN SpaceSign ELSE s[i]]
           E(i) == IF t[i] = SpaceSign THEN PlusSign ELSE IF t[i] \in C THEN t[i] ELSE Escape[t[i]]
<1>1. DOMAIN t = 1 .. n /\ n \in Nat /\ \A i \in 1 .. n : t[i] \in Charset
  OBVIOUS
<1>2. s = [i \in 1 .. n |-> E(i)]
  BY <1>1 DEF Uris!EncodeQuery, SpaceSign, PlusSign
<1>3. \A i \in 1 .. n : E(i) \in Codes(C) \cup {PlusSign}
  BY <1>1, SignsAre DEF Codes
<1> HIDE DEF s
<1>4. s \in [1 .. n -> Codes(C) \cup {PlusSign}]
  BY <1>2, <1>3
<1>5. s \in Seq(Codes(C) \cup {PlusSign}) /\ Len(s) = n
  BY <1>1, <1>4
<1>6. PlusSign \in Charset
  BY NoSignIsEscape DEF Signed, Charset
<1>7. \A i \in 1 .. n : r[i] = t[i] \/ r[i] = Escape[t[i]]
  <2> TAKE i \in 1 .. n
  <2>1. r[i] = IF E(i) = PlusSign THEN SpaceSign ELSE E(i)
    BY <1>2
  <2>2. CASE t[i] = SpaceSign
    BY <2>1, <2>2
  <2>3. CASE t[i] # SpaceSign /\ t[i] \in C
    BY <2>1, <2>3
  <2>4. CASE t[i] # SpaceSign /\ t[i] \notin C
    <3>1. Escape[t[i]] # PlusSign
      BY <1>1, <1>6, SignsAre
    <3> QED BY <2>1, <2>4, <3>1
  <2> QED BY <2>2, <2>3, <2>4
<1>8. Spells(r, t)
  <2>1. DOMAIN r = 1 .. n
    BY <1>2
  <2> HIDE DEF r
  <2> QED BY <1>1, <1>7, <2>1 DEF Spells
<1>9. Uris!DecodeElt(s) = Uris!DecodeText(r)
  BY DEF Uris!DecodeElt, SpaceSign, PlusSign
<1>10. Uris!DecodeText(r) = t
  <2> HIDE DEF r
  <2> QED BY <1>8, DecodesTo
<1> QED BY <1>5, <1>9, <1>10 DEF s

LEMMA EltTyped ==
  ASSUME Uris!Escapable, NEW t \in Seq(Charset \cup Uris!Escapes)
  PROVE  Uris!DecodeElt(t) \in Seq(Charset) /\ Len(Uris!DecodeElt(t)) = Len(t)
<1> DEFINE n == Len(t)
           X == Charset \cup Uris!Escapes
           r == [i \in 1 .. n |-> IF t[i] = PlusSign THEN SpaceSign ELSE t[i]]
<1>1. DOMAIN t = 1 .. n /\ n \in Nat /\ \A i \in 1 .. n : t[i] \in X
  OBVIOUS
<1>2. SpaceSign \in X
  BY SignsAre
<1>3. r \in [1 .. n -> X]
  BY <1>1, <1>2
<1>4. Uris!DecodeElt(t) = Uris!DecodeText(r)
  BY <1>1 DEF Uris!DecodeElt, SpaceSign, PlusSign
<1> HIDE DEF r, X
<1>5. r \in Seq(X) /\ Len(r) = n
  BY <1>1, <1>3
<1>6. Uris!DecodeText(r) \in Seq(Charset) /\ Len(Uris!DecodeText(r)) = Len(r)
  BY <1>5, EscapesDecode DEF X
<1> QED BY <1>4, <1>5, <1>6

-----------------------------------------------------------------------------
(* What a tree must be to be valid.                                        *)

LEMMA AllInIs ==
  ASSUME NEW C, NEW t \in Seq(Codes(C))
  PROVE  Uris!AllIn(t, C)
BY DEF Uris!AllIn, Uris!ToSet, Codes

LEMMA AllInTyped ==
  ASSUME NEW X, NEW C, NEW t \in Seq(X), Uris!AllIn(t, C)
  PROVE  t \in Seq(Codes(C) \cup {PercentSign})
<1> DEFINE D == Codes(C) \cup {PercentSign}
<1>1. Len(t) \in Nat /\ DOMAIN t = 1 .. Len(t) /\ t = [i \in 1 .. Len(t) |-> t[i]]
  OBVIOUS
<1>2. \A i \in 1 .. Len(t) : t[i] \in D
  BY <1>1 DEF Uris!AllIn, Uris!ToSet, Codes, PercentSign
<1> HIDE DEF D
<1>3. t \in [1 .. Len(t) -> D]
  BY <1>1, <1>2
<1>4. \A k \in Nat : [1 .. k -> D] \subseteq Seq(D)
  OBVIOUS
<1> QED BY <1>1, <1>3, <1>4 DEF D

LEMMA DigitsTyped ==
  ASSUME NEW X, NEW t \in Seq(X), Uris!ToSet(t) \subseteq Uris!Digit
  PROVE  t \in Seq(Uris!Digit)
<1> DEFINE D == Uris!Digit
<1>1. Len(t) \in Nat /\ DOMAIN t = 1 .. Len(t) /\ t = [i \in 1 .. Len(t) |-> t[i]]
  OBVIOUS
<1>2. \A i \in 1 .. Len(t) : t[i] \in D
  BY <1>1 DEF Uris!ToSet
<1> HIDE DEF D
<1>3. t \in [1 .. Len(t) -> D]
  BY <1>1, <1>2
<1>4. \A k \in Nat : [1 .. k -> D] \subseteq Seq(D)
  OBVIOUS
<1> QED BY <1>1, <1>3, <1>4 DEF D

LEMMA SchemeTyped ==
  ASSUME NEW X, NEW t \in Seq(X), t # <<>> => Uris!ValidScheme(t)
  PROVE  t \in Seq(SchemeChars)
<1> DEFINE D == SchemeChars
<1>1. Len(t) \in Nat /\ t = [i \in 1 .. Len(t) |-> t[i]]
  OBVIOUS
<1>2. \A i \in 1 .. Len(t) : t[i] \in D
  <2> TAKE i \in 1 .. Len(t)
  <2>1. t # <<>> /\ (i = 1 \/ i \in 2 .. Len(t))
    BY <1>1
  <2> QED BY <2>1 DEF Uris!ValidScheme, SchemeChars
<1> HIDE DEF D
<1>3. t \in [1 .. Len(t) -> D]
  BY <1>1, <1>2
<1>4. \A k \in Nat : [1 .. k -> D] \subseteq Seq(D)
  OBVIOUS
<1> QED BY <1>1, <1>3, <1>4 DEF D

-----------------------------------------------------------------------------
(* Hosts.                                                                  *)

\* What begins with a bracket is a literal
LEMMA HostTypeIs ==
  ASSUME NEW X, NEW h \in Seq(X), LeftBracket \in X
  PROVE  /\ h # <<>> /\ h[1] = LeftBracket => Uris!HostType(h) = "literal"
         /\ ~(h # <<>> /\ h[1] = LeftBracket) =>
              Uris!HostType(h) = IF h \in Ipv4 THEN "ipv4" ELSE "name"
<1>1. Uris!Starts(h, <<LeftBracket>>) <=> h # <<>> /\ h[1] = LeftBracket
  BY StartsOne
<1>2. Uris!HostType(h)
        = IF Uris!Starts(h, <<LeftBracket>>) THEN "literal" ELSE IF h \in Ipv4 THEN "ipv4" ELSE "name"
  BY DEF Uris!HostType, LeftBracket
<1> QED BY <1>1, <1>2

LEMMA NameIs ==
  ASSUME Uris!Escapable, NEW h \in Seq(Codes(Uris!User))
  PROVE  /\ Uris!HostType(h) = IF h \in Ipv4 THEN "ipv4" ELSE "name"
         /\ Uris!AllIn(h, Uris!RegName) /\ h # <<"malformed">>
<1> DEFINE U == Codes(Uris!User)
           X == U \cup {LeftBracket}
<1>1. LeftBracket \notin U
  BY CodeClasses
<1>2. "malformed" \notin U
  BY DEF Codes, Uris!Escapable, Uris!User, Uris!Unreserved, Uris!SubDelims, Uris!Alpha, Uris!Digit
<1>3. Uris!AllIn(h, Uris!RegName)
  BY AllInIs, Within
<1>u. h \in Seq(U)
  OBVIOUS
<1> HIDE DEF U
<1>4. h \in Seq(X) /\ LeftBracket \in X
  BY <1>u
<1>5. h # <<>> => h[1] # LeftBracket
  BY <1>1, <1>u
<1>6. h # <<"malformed">>
  <2>1. \A i \in 1 .. Len(h) : h[i] \in U
    BY <1>u
  <2> SUFFICES ASSUME h = <<"malformed">> PROVE FALSE
    OBVIOUS
  <2>2. Len(h) = 1 /\ h[1] = "malformed"
    OBVIOUS
  <2> QED BY <1>2, <2>1, <2>2
<1> HIDE DEF X
<1>7. Uris!HostType(h) = IF h \in Ipv4 THEN "ipv4" ELSE "name"
  BY <1>4, <1>5, HostTypeIs
<1> QED BY <1>3, <1>6, <1>7

LEMMA LiteralIs ==
  ASSUME Uris!Escapable, NEW w \in Addresses
  PROVE  LET h == InBrackets(w) IN
         Uris!HostType(h) = "literal" /\ Uris!ValidLiteral(h) /\ h # <<"malformed">> /\ h # <<>>
<1> DEFINE h == InBrackets(w)
           X == HostChars
<1>1. w \in Seq(Uris!Passwd) /\ w # <<>>
  BY AddressTyped
<1>2. Uris!Passwd \subseteq X /\ LeftBracket \in X /\ RightBracket \in X
  BY DEF HostChars, Codes
<1> HIDE DEF X
<1>3. /\ h \in Seq(X) /\ Len(h) = Len(w) + 2 /\ h[1] = LeftBracket /\ h[Len(h)] = RightBracket
      /\ SubSeq(h, 2, Len(h) - 1) = w
  BY <1>1, <1>2, BracketsIs
<1>4. Len(w) \in Nat \ {0}
  BY <1>1
<1> HIDE DEF h
<1>5. h # <<>> /\ Len(h) >= 2 /\ Len(h) # 1
  BY <1>3, <1>4
<1>6. h # <<"malformed">>
  BY <1>5
<1>7. Uris!HostType(h) = "literal"
  BY <1>2, <1>3, <1>5, HostTypeIs
<1>8. Uris!ValidLiteral(h)
  BY <1>3, <1>5 DEF Uris!ValidLiteral, Uris!IsLiteral, Uris!Last, LeftBracket, RightBracket, Addresses
<1> QED BY <1>5, <1>6, <1>7, <1>8 DEF h

\* A literal is an address in brackets
LEMMA LiteralIn ==
  ASSUME NEW X, NEW h \in Seq(X), Uris!ValidLiteral(h)
  PROVE  \E w \in Addresses : h = InBrackets(w)
<1> DEFINE n == Len(h)
           w == SubSeq(h, 2, n - 1)
           b == <<LeftBracket>> \o w
           g == b \o <<RightBracket>>
<1>1. n \in Nat /\ n >= 2 /\ h[1] = LeftBracket /\ h[n] = RightBracket /\ w \in Addresses
  BY DEF Uris!ValidLiteral, Uris!IsLiteral, Uris!Last, LeftBracket, RightBracket, Addresses
<1>2. w \in Seq(X) /\ Len(w) = n - 2 /\ \A i \in 1 .. n - 2 : w[i] = h[i + 1]
  <2>1. 2 \in Int /\ n - 1 \in Int /\ n \in Int
    BY <1>1
  <2>2. \A i \in 2 .. n - 1 : h[i] \in X
    BY <1>1
  <2>3. /\ w \in Seq(X) /\ Len(w) = IF 2 <= n - 1 THEN n - 1 - 2 + 1 ELSE 0
        /\ \A i \in 1 .. n - 1 - 2 + 1 : w[i] = h[2 + i - 1]
    BY <2>1, <2>2, SubSeqProperties
  <2> HIDE DEF w
  <2>4. Len(w) = n - 2
    <3> DEFINE k == n
               l == Len(w)
    <3>1. k \in Nat /\ k >= 2 /\ l = IF 2 <= k - 1 THEN k - 1 - 2 + 1 ELSE 0
      BY <1>1, <2>3
    <3> HIDE DEF k, l
    <3>2. l = k - 2
      BY <3>1
    <3> QED BY <3>2 DEF k, l
  <2>5. \A i \in 1 .. n - 2 : i \in 1 .. n - 1 - 2 + 1 /\ 2 + i - 1 = i + 1
    BY <1>1
  <2>6. \A i \in 1 .. n - 2 : w[i] = h[i + 1]
    BY <2>3, <2>5
  <2> QED BY <2>3, <2>4, <2>6
<1>3. LeftBracket \in X /\ RightBracket \in X
  <2>1. 1 \in 1 .. n /\ n \in 1 .. n
    BY <1>1
  <2> QED BY <1>1, <2>1
<1> HIDE DEF w
<1>4. b \in Seq(X) /\ Len(b) = n - 1 /\ b[1] = LeftBracket /\ \A i \in 1 .. n - 2 : b[i + 1] = w[i]
  BY <1>1, <1>2, <1>3
<1> HIDE DEF b
<1>5. g \in Seq(X) /\ Len(g) = n /\ g[n] = RightBracket /\ \A i \in 1 .. n - 1 : g[i] = b[i]
  BY <1>1, <1>3, <1>4
<1> HIDE DEF g
<1>6. \A i \in 1 .. n : g[i] = h[i]
  <2> TAKE i \in 1 .. n
  <2>1. i = 1 \/ i = n \/ (i - 1 \in 1 .. n - 2 /\ (i - 1) + 1 = i /\ i \in 1 .. n - 1)
    BY <1>1
  <2>2. 1 \in 1 .. n - 1
    BY <1>1
  <2> QED BY <1>1, <1>2, <1>4, <1>5, <2>1, <2>2
<1>7. g = h
  BY <1>5, <1>6
<1> QED BY <1>1, <1>7 DEF g, b, InBrackets

\* What is in a text, it or its escape, is the text where it has no escapes
LEMMA SpelledSame ==
  ASSUME Uris!Escapable, NEW t \in Seq(Charset), NEW s \in Seq(Charset), Spells(s, t)
  PROVE  s = t
<1>1. /\ DOMAIN s = 1 .. Len(s) /\ DOMAIN t = 1 .. Len(t) /\ Len(s) \in Nat /\ Len(t) \in Nat
      /\ (\A i \in 1 .. Len(s) : s[i] \in Charset) /\ \A i \in 1 .. Len(t) : t[i] \in Charset
  OBVIOUS
<1>2. Len(s) = Len(t)
  <2> DEFINE a == Len(s)
             b == Len(t)
  <2>1. 1 .. a = 1 .. b /\ a \in Nat /\ b \in Nat
    BY <1>1 DEF Spells
  <2> HIDE DEF a, b
  <2>2. ~(a < b) /\ ~(b < a)
    <3>1. a < b => b \in 1 .. b /\ b \notin 1 .. a
      BY <2>1
    <3>2. b < a => a \in 1 .. a /\ a \notin 1 .. b
      BY <2>1
    <3> QED BY <2>1, <3>1, <3>2
  <2>3. a = b
    BY <2>1, <2>2
  <2> QED BY <2>3 DEF a, b
<1>3. \A i \in 1 .. Len(t) : s[i] = t[i]
  BY <1>1, <1>2, SignsAre DEF Spells
<1> QED BY <1>2, <1>3

LEMMA AddressBytes ==
  ASSUME Uris!Escapable, NEW h \in Ipv4
  PROVE  h \in Seq(Uris!User) /\ h # <<>>
<1> DEFINE D == Uris!Digit \cup {"."}
<1>1. h \in Seq(D) /\ h # <<>>
  BY DEF Uris!Escapable
<1>2. D \subseteq Uris!User
  BY Within
<1> HIDE DEF D
<1> QED BY <1>1, <1>2, Widen

\* The host of a tree, as uri_tree_precode_check() takes it
HostFits(h, typeHost) ==
  /\ typeHost = "literal" /\ h # <<>> => Uris!ValidLiteral(h)
  /\ typeHost = "ipv4" /\ h # <<>> => h \in Ipv4
HostTypes == {"name", "literal", "ipv4"}

\* A host of the type asked for is encoded as one that is split the same
LEMMA HostEncodes ==
  ASSUME Uris!Escapable, NEW h \in Seq(Charset), NEW typeHost \in HostTypes, HostFits(h, typeHost)
  PROVE  LET g == Uris!EncodeHost(h, typeHost) IN
         /\ g \in Hosts /\ Spells(g, h) /\ (g = <<>> <=> h = <<>>)
         /\ Uris!HostType(g) = "name" => Uris!DecodeText(g) = h
         /\ Uris!HostType(g) # "name" => g = h
<1> DEFINE U == Codes(Uris!User)
           g == Uris!EncodeHost(h, typeHost)
<1>u. /\ Uris!User \subseteq U /\ Uris!User \subseteq Charset
  <2>1. Uris!User \subseteq U
    BY DEF Codes
  <2>2. Uris!User \subseteq Uris!Passwd /\ Uris!Passwd \subseteq Uris!Pchar /\ Uris!Pchar \subseteq Uris!Quefrag
    BY Within
  <2>3. Uris!Quefrag \subseteq Charset
    BY SignsAre
  <2> QED BY <2>1, <2>2, <2>3
<1>s. Spells(h, h)
  BY DEF Spells
<1>d. ASSUME Spells(g, h) PROVE Uris!DecodeText(g) = h
  <2> HIDE DEF g
  <2> QED BY <1>d, DecodesTo
<1>1. CASE typeHost = "name"
  <2>1. /\ Uris!EncodeText(h, Uris!User) \in Seq(U)
        /\ Len(Uris!EncodeText(h, Uris!User)) = Len(h)
        /\ Spells(Uris!EncodeText(h, Uris!User), h)
    BY EncodeSpells
  <2>2. g = Uris!EncodeText(h, Uris!User)
    BY <1>1, Within DEF Uris!EncodeHost
  <2> HIDE DEF g, U
  <2>3. g \in Seq(U) /\ Len(g) = Len(h) /\ Spells(g, h)
    BY <2>1, <2>2
  <2>4. g = <<>> <=> h = <<>>
    BY <2>3
  <2>5. g \in Hosts
    BY <2>3 DEF Hosts, U
  <2>6. ASSUME Uris!HostType(g) # "name" PROVE g = h
    <3>1. g \in Ipv4
      BY <2>3, <2>6, NameIs DEF U
    <3>2. g \in Seq(Uris!User)
      BY <3>1, AddressBytes
    <3>3. g \in Seq(Charset)
      BY <1>u, <3>2, Widen
    <3> QED BY <2>3, <3>3, SpelledSame
  <2>7. Uris!DecodeText(g) = h
    BY <1>d, <2>3
  <2> QED BY <2>3, <2>4, <2>5, <2>6, <2>7 DEF g
<1>2. CASE typeHost # "name"
  <2>1. g = h
    BY <1>2 DEF Uris!EncodeHost
  <2>2. h \in Hosts
    <3>1. CASE h = <<>>
      <4>1. <<>> \in Seq(U)
        OBVIOUS
      <4> QED BY <3>1, <4>1 DEF Hosts
    <3>2. CASE h # <<>> /\ typeHost = "literal"
      <4>1. Uris!ValidLiteral(h)
        BY <3>2 DEF HostFits
      <4>2. \E w \in Addresses : h = InBrackets(w)
        BY <4>1, LiteralIn
      <4> QED BY <4>2 DEF Hosts
    <3>3. CASE h # <<>> /\ typeHost = "ipv4"
      <4>1. h \in Ipv4
        BY <3>3 DEF HostFits
      <4>2. h \in Seq(Uris!User)
        BY <4>1, AddressBytes
      <4>3. h \in Seq(U)
        <5> HIDE DEF U
        <5> QED BY <1>u, <4>2, Widen
      <4> QED BY <4>3 DEF Hosts
    <3> QED BY <1>2, <3>1, <3>2, <3>3 DEF HostTypes
  <2>3. Spells(g, h)
    BY <1>s, <2>1
  <2>4. Uris!DecodeText(g) = h
    BY <1>d, <2>3
  <2> HIDE DEF g
  <2> QED BY <2>1, <2>2, <2>3, <2>4 DEF g
<1> QED BY <1>1, <1>2

-----------------------------------------------------------------------------
(* Pairs of a query.                                                       *)

LEMMA ValueEncodes ==
  ASSUME Uris!Escapable, NEW v \in Values(Charset)
  PROVE  LET w == [j \in DOMAIN v |-> Uris!EncodeQuery(v[j], Uris!QueryVal)] IN
         /\ w \in Values(ValueCodes)
         /\ [j \in DOMAIN w |-> Uris!DecodeElt(w[j])] = v
         /\ w \in {<<>>, << <<>> >>} => v \in {<<>>, << <<>> >>}
<1> DEFINE w == [j \in DOMAIN v |-> Uris!EncodeQuery(v[j], Uris!QueryVal)]
           d == [j \in DOMAIN w |-> Uris!DecodeElt(w[j])]
<1>1. CASE v = <<>>
  <2>1. w = <<>>
    BY <1>1
  <2>2. d = <<>>
    BY <2>1
  <2> QED BY <1>1, <2>1, <2>2 DEF Values
<1>2. CASE v # <<>>
  <2>1. PICK t \in Seq(Charset) : v = <<t>>
    BY <1>2 DEF Values
  <2> DEFINE e == Uris!EncodeQuery(t, Uris!QueryVal)
  <2>2. PlusSign \notin Uris!QueryVal
    BY PlainClasses
  <2>3. e \in Seq(ValueCodes) /\ Len(e) = Len(t) /\ Uris!DecodeElt(e) = t
    BY <2>2, QueryEncodes DEF ValueCodes
  <2>4. w = <<e>>
    BY <2>1
  <2> HIDE DEF e, w
  <2>5. d = <<Uris!DecodeElt(e)>>
    BY <2>4
  <2>6. e = <<>> => t = <<>>
    BY <2>3
  <2> QED BY <2>1, <2>3, <2>4, <2>5, <2>6 DEF Values, w
<1> QED BY <1>1, <1>2

LEMMA PairEncodes ==
  ASSUME Uris!Escapable, NEW p \in PairsOf(Charset, Charset) \ EmptyPairs
  PROVE  /\ Uris!EncodePair(p) \in PairsOf(KeyCodes, ValueCodes) \ EmptyPairs
         /\ Uris!DecodePair(Uris!EncodePair(p)) = p
<1> DEFINE k == p[1]
           v == p[2]
           a == Uris!EncodeQuery(k, Uris!QueryKey)
           w == [j \in DOMAIN v |-> Uris!EncodeQuery(v[j], Uris!QueryVal)]
<1>1. k \in Seq(Charset) /\ v \in Values(Charset) /\ p = <<k, v>> /\ <<k, v>> \notin EmptyPairs
  BY DEF PairsOf
<1>2. PlusSign \notin Uris!QueryKey
  BY PlainClasses
<1> HIDE DEF k, v
<1>3. a \in Seq(KeyCodes) /\ Len(a) = Len(k) /\ Uris!DecodeElt(a) = k
  BY <1>1, <1>2, QueryEncodes DEF KeyCodes
<1>4. /\ w \in Values(ValueCodes)
      /\ [j \in DOMAIN w |-> Uris!DecodeElt(w[j])] = v
      /\ w \in {<<>>, << <<>> >>} => v \in {<<>>, << <<>> >>}
  BY <1>1, ValueEncodes
<1>5. a = <<>> => k = <<>>
  BY <1>1, <1>3
<1>6. Uris!EncodePair(p) = <<a, w>>
  BY DEF Uris!EncodePair, k, v
<1> HIDE DEF a, w
<1>7. <<a, w>> \in PairsOf(KeyCodes, ValueCodes) /\ <<a, w>> \notin EmptyPairs
  BY <1>1, <1>3, <1>4, <1>5 DEF PairsOf, EmptyPairs
<1>8. Uris!DecodePair(<<a, w>>) = <<Uris!DecodeElt(a), [j \in DOMAIN w |-> Uris!DecodeElt(w[j])]>>
  BY DEF Uris!DecodePair
<1> QED BY <1>1, <1>3, <1>4, <1>6, <1>7, <1>8

LEMMA PairsEncode ==
  ASSUME Uris!Escapable, NEW q \in Seq(PairsOf(Charset, Charset) \ EmptyPairs)
  PROVE  LET e == [i \in DOMAIN q |-> Uris!EncodePair(q[i])] IN
         /\ e \in Seq(PairsOf(KeyCodes, ValueCodes) \ EmptyPairs)
         /\ [i \in DOMAIN e |-> Uris!DecodePair(e[i])] = q
<1> DEFINE P == PairsOf(Charset, Charset) \ EmptyPairs
           Q == PairsOf(KeyCodes, ValueCodes) \ EmptyPairs
           n == Len(q)
           e == [i \in 1 .. n |-> Uris!EncodePair(q[i])]
<1>0. q \in Seq(P)
  OBVIOUS
<1> HIDE DEF P, Q
<1>1. n \in Nat /\ DOMAIN q = 1 .. n /\ (\A i \in 1 .. n : q[i] \in P) /\ q = [i \in 1 .. n |-> q[i]]
  BY <1>0
<1>2. \A i \in 1 .. n : Uris!EncodePair(q[i]) \in Q /\ Uris!DecodePair(Uris!EncodePair(q[i])) = q[i]
  BY <1>1, PairEncodes DEF P, Q
<1>3. e \in [1 .. n -> Q]
  BY <1>2
<1>4. \A k \in Nat : [1 .. k -> Q] \subseteq Seq(Q)
  OBVIOUS
<1>5. e \in Seq(Q)
  BY <1>1, <1>3, <1>4
<1>6. [i \in DOMAIN e |-> Uris!DecodePair(e[i])] = [i \in 1 .. n |-> q[i]]
  BY <1>2
<1> QED BY <1>1, <1>5, <1>6 DEF Q

-----------------------------------------------------------------------------
(* The path.                                                               *)

LEMMA BeforeHolds ==
  ASSUME NEW X, NEW t \in Seq(X), NEW C, NEW c, Uris!Holds(Uris!Before(t, C), c)
  PROVE  \E k \in 1 .. Len(t) : t[k] = c /\ \A j \in 1 .. Len(t) : j < k => t[j] \notin C
<1> DEFINE m == Uris!First(t, C)
           b == Uris!Before(t, C)
<1>1. FirstAt(t, C, m)
  BY FirstIs
<1>2. b \in Seq(X)
  BY CutTyped
<1>3. b = Uris!Until(t, m)
  BY DEF Uris!Before
<1>4. PICK k \in 1 .. Len(b) : b[k] = c
  BY <1>2, HoldsIs DEF Free
<1> HIDE DEF m, b
<1>5. CASE m = 0
  <2>1. b = t /\ Free(t, C)
    BY <1>1, <1>3, <1>5 DEF FirstAt, Uris!Until
  <2> QED BY <1>4, <2>1 DEF Free
<1>6. CASE m # 0
  <2>1. m \in 1 .. Len(t) /\ Len(t) \in Nat /\ \A j \in 1 .. Len(t) : j < m => t[j] \notin C
    BY <1>1, <1>6 DEF FirstAt
  <2>2. b = SubSeq(t, 1, m - 1)
    BY <1>3, <1>6 DEF Uris!Until
  <2>3. Len(b) = m - 1 /\ k < m /\ k \in 1 .. Len(t) /\ b[k] = t[k]
    BY <1>4, <2>1, <2>2
  <2>4. \A j \in 1 .. Len(t) : j < k => j < m
    BY <2>1, <2>3
  <2> QED BY <1>4, <2>1, <2>3, <2>4
<1> QED BY <1>5, <1>6

\* How much of a text is before the first of C
LEMMA BeforeEnds ==
  ASSUME NEW X, NEW t \in Seq(X), NEW C, NEW k \in 1 .. Len(t), ~(k <= Len(Uris!Before(t, C)))
  PROVE  \E n \in 1 .. k : t[n] \in C
<1> DEFINE m == Uris!First(t, C)
           b == Uris!Before(t, C)
<1>1. FirstAt(t, C, m) /\ Len(t) \in Nat
  BY FirstIs
<1>3. b = Uris!Until(t, m)
  BY DEF Uris!Before
<1> HIDE DEF m, b
<1>4. m # 0
  <2>1. ASSUME m = 0 PROVE FALSE
    <3>1. b = t
      BY <1>3, <2>1 DEF Uris!Until
    <3> QED BY <3>1 DEF b
  <2> QED BY <2>1
<1>5. m \in 1 .. Len(t) /\ t[m] \in C
  BY <1>1, <1>4 DEF FirstAt
<1>6. b = SubSeq(t, 1, m - 1)
  BY <1>3, <1>4 DEF Uris!Until
<1>7. Len(b) = m - 1
  BY <1>1, <1>5, <1>6
<1>8. m \in 1 .. k
  <2>1. ~(k <= Len(b))
    BY DEF b
  <2> QED BY <1>5, <1>7, <2>1
<1> QED BY <1>5, <1>8

\* A path is encoded so that a ":" in its first segment makes no scheme
LEMMA PathEncodes ==
  ASSUME Uris!Escapable, NEW t \in Seq(Charset), NEW b \in BOOLEAN
  PROVE  LET g == Uris!EncodePath(t, b) IN
         /\ g \in Seq(Codes(Uris!Pchar)) /\ (g = <<>> <=> t = <<>>) /\ Spells(g, t)
         /\ t # <<>> /\ t[1] = Slash => g[1] = Slash
         /\ b => ~Uris!Holds(Uris!Before(g, {Slash}), Colon)
<1> DEFINE P == Codes(Uris!Pchar)
           c == Uris!EncodeText(t, Uris!Pchar)
           f == Len(Uris!Before(c, {Slash}))
           n == Len(t)
           G(i) == IF b /\ i <= f /\ c[i] = Colon THEN Escape[Colon] ELSE c[i]
           g == Uris!EncodePath(t, b)
<1>1. n \in Nat /\ DOMAIN t = 1 .. n /\ \A i \in 1 .. n : t[i] \in Charset
  OBVIOUS
<1>2. c \in Seq(P) /\ Len(c) = n /\ Spells(c, t)
      /\ \A i \in 1 .. n : t[i] \in Uris!Pchar => c[i] = t[i]
  BY EncodeSpells
<1>3. Colon \in Charset /\ Colon \notin Uris!Escapes /\ Slash \notin Uris!Escapes
      /\ Slash \in Uris!Pchar /\ Slash # Colon /\ Escape[Colon] \in Uris!Escapes
  <2>1. Colon \in Charset /\ Colon \notin Uris!Escapes /\ Slash \notin Uris!Escapes
    BY NoSignIsEscape DEF Signed, Charset
  <2>2. Slash \in Uris!Pchar
    BY Within
  <2>3. Slash # Colon
    BY DEF Slash, Colon
  <2> QED BY <2>1, <2>2, <2>3, SignsAre
<1>p. Escape[Colon] \in P
  BY <1>3 DEF Codes
<1> HIDE DEF P, c
<1>4. DOMAIN c = 1 .. n /\ \A i \in 1 .. n : c[i] \in P
  BY <1>1, <1>2
<1>5. g = [i \in 1 .. n |-> G(i)]
  BY <1>4 DEF Uris!EncodePath, c, Slash, Colon
<1> HIDE DEF f, g
<1>6. \A i \in 1 .. n : G(i) \in P
  BY <1>4, <1>p
<1>7. g \in [1 .. n -> P]
  BY <1>5, <1>6
<1>8. \A k \in Nat : [1 .. k -> P] \subseteq Seq(P)
  OBVIOUS
<1>9. g \in Seq(P) /\ Len(g) = n
  BY <1>1, <1>7, <1>8
<1>10. g = <<>> <=> t = <<>>
  BY <1>9
<1>11. Spells(g, t)
  <2>1. \A i \in 1 .. n : G(i) = t[i] \/ G(i) = Escape[t[i]]
    <3> TAKE i \in 1 .. n
    <3>1. c[i] = t[i] \/ c[i] = Escape[t[i]]
      BY <1>1, <1>2 DEF Spells
    <3>2. CASE G(i) = c[i]
      BY <3>1, <3>2
    <3>3. CASE G(i) # c[i]
      <4>1. c[i] = Colon /\ G(i) = Escape[Colon]
        BY <3>3
      <4>2. Escape[t[i]] # Colon
        BY <1>1, <1>3, SignsAre
      <4> QED BY <3>1, <4>1, <4>2
    <3> QED BY <3>2, <3>3
  <2> QED BY <1>1, <1>5, <2>1 DEF Spells
<1>12. ASSUME t # <<>>, t[1] = Slash PROVE g[1] = Slash
  <2>1. 1 \in 1 .. n
    BY <1>1, <1>12
  <2>2. c[1] = Slash
    BY <1>2, <1>3, <1>12, <2>1
  <2>3. G(1) = Slash
    BY <1>3, <2>2
  <2> QED BY <1>5, <2>1, <2>3
<1>13. ASSUME b, Uris!Holds(Uris!Before(g, {Slash}), Colon) PROVE FALSE
  <2>1. PICK k \in 1 .. Len(g) : g[k] = Colon /\ \A j \in 1 .. Len(g) : j < k => g[j] \notin {Slash}
    BY <1>9, <1>13, BeforeHolds
  <2>2. k \in 1 .. n /\ G(k) = Colon
    BY <1>5, <1>9, <2>1
  <2>3. c[k] = Colon /\ ~(k <= f)
    BY <1>3, <1>13, <2>2
  <2>4. PICK m \in 1 .. k : c[m] \in {Slash}
    BY <1>2, <2>2, <2>3, BeforeEnds DEF f
  <2>5. m \in 1 .. n /\ m < k
    BY <1>1, <1>3, <2>2, <2>3, <2>4
  <2>6. g[m] = Slash
    BY <1>3, <1>5, <2>4, <2>5
  <2> QED BY <1>9, <2>1, <2>5, <2>6
<1> QED BY <1>9, <1>10, <1>11, <1>12, <1>13 DEF g, P

\* A host that is encoded is valid
LEMMA HostIsValid ==
  ASSUME Uris!Escapable, NEW h \in Hosts
  PROVE  /\ Uris!HostType(h) = "name" => Uris!AllIn(h, Uris!RegName)
         /\ Uris!HostType(h) = "literal" => Uris!ValidLiteral(h)
         /\ h # <<"malformed">>
<1>1. CASE h \in Seq(Codes(Uris!User))
  BY <1>1, NameIs
<1>2. CASE h \notin Seq(Codes(Uris!User))
  <2>1. PICK w \in Addresses : h = InBrackets(w)
    BY <1>2 DEF Hosts
  <2>2. /\ Uris!HostType(InBrackets(w)) = "literal" /\ Uris!ValidLiteral(InBrackets(w))
        /\ InBrackets(w) # <<"malformed">>
    BY LiteralIs
  <2> QED BY <2>1, <2>2
<1> QED BY <1>1, <1>2

LEMMA PairIsValid ==
  ASSUME Uris!Escapable, NEW p \in PairsOf(KeyCodes, ValueCodes)
  PROVE  Uris!AllIn(p[1], Uris!Quefrag) /\ \A j \in DOMAIN p[2] : Uris!AllIn(p[2][j], Uris!Quefrag)
<1> DEFINE Q == Codes(Uris!Quefrag)
<1>1. KeyCodes \subseteq Q /\ ValueCodes \subseteq Q
  <2>1. Separate(KeyCodes, ValueCodes, QueryCodes) /\ QueryCodes \cup {Ampersand} = Q
    BY CodeClasses
  <2> QED BY <2>1 DEF Separate
<1>2. p[1] \in Seq(KeyCodes) /\ p[2] \in Values(ValueCodes)
  BY DEF PairsOf
<1>3. p[1] \in Seq(Q)
  <2> HIDE DEF Q
  <2> QED BY <1>1, <1>2, Widen
<1>4. \A j \in DOMAIN p[2] : p[2][j] \in Seq(ValueCodes)
  BY <1>2 DEF Values
<1>5. \A j \in DOMAIN p[2] : p[2][j] \in Seq(Q)
  <2> HIDE DEF Q
  <2> QED BY <1>1, <1>4, Widen
<1> QED BY <1>3, <1>5, AllInIs

\* A tree of codes is valid, and has nothing to normalize
LEMMA CodedIsValid ==
  ASSUME Uris!Escapable, NEW e \in CodedTrees, PathStands(e), e.scheme # <<>> => Uris!ValidScheme(e.scheme)
  PROVE  Uris!Valid(e) /\ e.authority # Uris!BadAuthority /\ Uris!Normalize(e) = e
<1> DEFINE a == e.authority
           q == e.query
<1>1. /\ a.user \in Seq(Codes(Uris!User)) /\ a.passwd \in Seq(Codes(Uris!Passwd))
      /\ a.host \in Hosts /\ a.port \in Seq(Uris!Digit)
      /\ e.path \in Seq(Codes(Uris!Pchar))
      /\ q \in Seq(PairsOf(KeyCodes, ValueCodes) \ EmptyPairs)
      /\ e.fragment \in Seq(Codes(Uris!Quefrag))
  BY DEF CodedTrees, CodedAuthorities
<1>2. Uris!AllIn(a.user, Uris!User) /\ Uris!AllIn(a.passwd, Uris!Passwd)
      /\ Uris!AllIn(e.path, Uris!Pchar) /\ Uris!AllIn(e.fragment, Uris!Quefrag)
  BY <1>1, AllInIs
<1>3. Uris!ToSet(a.port) \subseteq Uris!Digit
  BY <1>1 DEF Uris!ToSet
<1>4. /\ Uris!HostType(a.host) = "name" => Uris!AllIn(a.host, Uris!RegName)
      /\ Uris!HostType(a.host) = "literal" => Uris!ValidLiteral(a.host)
      /\ a.host # <<"malformed">>
  BY <1>1, HostIsValid
<1>5. \A i \in DOMAIN q : /\ Uris!AllIn(q[i][1], Uris!Quefrag)
                          /\ \A j \in DOMAIN q[i][2] : Uris!AllIn(q[i][2][j], Uris!Quefrag)
  <2> TAKE i \in DOMAIN q
  <2>1. q[i] \in PairsOf(KeyCodes, ValueCodes)
    BY <1>1
  <2> QED BY <2>1, PairIsValid
<1>6. Uris!Valid(e)
  BY <1>2, <1>3, <1>4, <1>5 DEF Uris!Valid, PathStands, Slash, Colon
<1>7. a # Uris!BadAuthority
  <2>1. Uris!BadAuthority.host = <<"malformed">>
    BY DEF Uris!BadAuthority, Uris!NoAuthority
  <2> QED BY <1>4, <2>1
<1>8. Uris!Without(q, EmptyPairs) = q
  <2> HIDE DEF q
  <2> QED BY <1>1, WithoutNone
<1>9. Uris!Normalize(e) = [e EXCEPT !.query = q]
  BY <1>8 DEF Uris!Normalize, EmptyPairs
<1>10. [e EXCEPT !.query = q] = e
  BY DEF CodedTrees
<1> QED BY <1>6, <1>7, <1>9, <1>10

-----------------------------------------------------------------------------
(* Any tree.                                                               *)

\* Trees whose texts are over X
AuthoritiesOf(X) == [user : Seq(X), passwd : Seq(X), host : Seq(X), port : Seq(X)]
TreesOf(X) == [scheme : Seq(X), authority : AuthoritiesOf(X), path : Seq(X),
               query : Seq(PairsOf(X, X)), fragment : Seq(X)]

\* Normalizing drops the empty pairs and changes nothing else of the shape
LEMMA NormalizeTyped ==
  ASSUME NEW X, NEW t \in TreesOf(X)
  PROVE  /\ Uris!Normalize(t) \in TreesOf(X)
         /\ Uris!Normalize(t).query \in Seq(PairsOf(X, X) \ EmptyPairs)
<1> DEFINE q == t.query
           w == Uris!Without(q, EmptyPairs)
<1>1. q \in Seq(PairsOf(X, X))
  BY DEF TreesOf
<1> HIDE DEF q
<1>2. w \in Seq(PairsOf(X, X) \ EmptyPairs)
  BY <1>1, WithoutIs
<1> HIDE DEF w
<1>3. w \in Seq(PairsOf(X, X))
  BY <1>2
<1>4. Uris!Normalize(t) = [t EXCEPT !.query = w]
  BY DEF Uris!Normalize, EmptyPairs, w, q
<1> QED BY <1>2, <1>3, <1>4 DEF TreesOf

LEMMA TextEncodes ==
  ASSUME Uris!Escapable, NEW t \in Seq(Charset), NEW C
  PROVE  /\ Uris!EncodeText(t, C) \in Seq(Codes(C)) /\ (Uris!EncodeText(t, C) = <<>> <=> t = <<>>)
         /\ Uris!DecodeText(Uris!EncodeText(t, C)) = t
<1> DEFINE s == Uris!EncodeText(t, C)
<1>1. s \in Seq(Codes(C)) /\ Len(s) = Len(t) /\ Spells(s, t)
  BY EncodeSpells
<1> HIDE DEF s
<1>2. s = <<>> <=> t = <<>>
  BY <1>1
<1>3. Uris!DecodeText(s) = t
  BY <1>1, DecodesTo
<1> QED BY <1>1, <1>2, <1>3 DEF s

\* An authority that can be encoded is decoded to itself
LEMMA AuthorityEncodes ==
  ASSUME Uris!Escapable, NEW a \in AuthoritiesOf(Charset), NEW typeHost \in HostTypes, HostFits(a.host, typeHost),
         Uris!ToSet(a.port) \subseteq Uris!Digit
  PROVE  LET e == Uris!EncodeAuthority(a, typeHost) IN
         /\ e \in CodedAuthorities /\ Uris!DecodeAuthority(e) = a
         /\ (e = Uris!NoAuthority <=> a = Uris!NoAuthority)
<1> DEFINE u == Uris!EncodeText(a.user, Uris!User)
           p == Uris!EncodeText(a.passwd, Uris!Passwd)
           g == Uris!EncodeHost(a.host, typeHost)
           e == Uris!EncodeAuthority(a, typeHost)
<1>1. /\ a.user \in Seq(Charset) /\ a.passwd \in Seq(Charset) /\ a.host \in Seq(Charset)
      /\ a.port \in Seq(Charset)
      /\ a = [user |-> a.user, passwd |-> a.passwd, host |-> a.host, port |-> a.port]
  BY DEF AuthoritiesOf
<1>2. u \in Seq(Codes(Uris!User)) /\ (u = <<>> <=> a.user = <<>>) /\ Uris!DecodeText(u) = a.user
  BY <1>1, TextEncodes
<1>3. p \in Seq(Codes(Uris!Passwd)) /\ (p = <<>> <=> a.passwd = <<>>) /\ Uris!DecodeText(p) = a.passwd
  BY <1>1, TextEncodes
<1>4. /\ g \in Hosts /\ (g = <<>> <=> a.host = <<>>)
      /\ Uris!HostType(g) = "name" => Uris!DecodeText(g) = a.host
      /\ Uris!HostType(g) # "name" => g = a.host
  BY <1>1, HostEncodes
<1>5. a.port \in Seq(Uris!Digit)
  BY <1>1, DigitsTyped
<1>6. e = [user |-> u, passwd |-> p, host |-> g, port |-> a.port]
  BY DEF Uris!EncodeAuthority
<1> HIDE DEF u, p, g, e
<1>7. e.user = u /\ e.passwd = p /\ e.host = g /\ e.port = a.port
  BY <1>6
<1>8. e \in CodedAuthorities
  BY <1>2, <1>3, <1>4, <1>5, <1>6 DEF CodedAuthorities
<1>9. (IF Uris!HostType(g) = "name" THEN Uris!DecodeText(g) ELSE g) = a.host
  BY <1>4
<1>10. Uris!DecodeAuthority(e) = a
  BY <1>1, <1>2, <1>3, <1>7, <1>9 DEF Uris!DecodeAuthority
<1>11. e = Uris!NoAuthority <=> u = <<>> /\ p = <<>> /\ g = <<>> /\ a.port = <<>>
  BY <1>6, <1>7 DEF Uris!NoAuthority
<1>12. a = Uris!NoAuthority <=> a.user = <<>> /\ a.passwd = <<>> /\ a.host = <<>> /\ a.port = <<>>
  BY <1>1 DEF Uris!NoAuthority
<1>13. e = Uris!NoAuthority <=> a = Uris!NoAuthority
  BY <1>2, <1>3, <1>4, <1>11, <1>12
<1> QED BY <1>8, <1>10, <1>13 DEF e

\* A tree that is encoded is a tree of codes, and is what it was when it is decoded
LEMMA TreeEncodes ==
  ASSUME Uris!Escapable, NEW t \in TreesOf(Charset), NEW typeHost \in HostTypes, Uris!Encodable(t, typeHost),
         t.query \in Seq(PairsOf(Charset, Charset) \ EmptyPairs)
  PROVE  LET e == Uris!Encode(t, typeHost) IN
         /\ e \in CodedTrees /\ PathStands(e) /\ e.scheme = t.scheme
         /\ Uris!Decode(e) = t
<1> DEFINE a == t.authority
           A == Uris!EncodeAuthority(a, typeHost)
           b == a = Uris!NoAuthority /\ t.scheme = <<>>
           P == Uris!EncodePath(t.path, b)
           Q == [i \in DOMAIN t.query |-> Uris!EncodePair(t.query[i])]
           F == Uris!EncodeText(t.fragment, Uris!Quefrag)
           e == Uris!Encode(t, typeHost)
<1>1. /\ t.scheme \in Seq(Charset) /\ a \in AuthoritiesOf(Charset) /\ t.path \in Seq(Charset)
      /\ t.fragment \in Seq(Charset)
      /\ t = [scheme |-> t.scheme, authority |-> a, path |-> t.path, query |-> t.query,
              fragment |-> t.fragment]
  BY DEF TreesOf
<1>2. /\ t.scheme # <<>> => Uris!ValidScheme(t.scheme)
      /\ Uris!ToSet(a.port) \subseteq Uris!Digit /\ HostFits(a.host, typeHost)
      /\ t.path # <<>> /\ a # Uris!NoAuthority => t.path[1] = Slash
  BY DEF Uris!Encodable, HostFits, Slash
<1>3. A \in CodedAuthorities /\ Uris!DecodeAuthority(A) = a /\ (A = Uris!NoAuthority <=> a = Uris!NoAuthority)
  BY <1>1, <1>2, AuthorityEncodes
<1>4. t.scheme \in Seq(SchemeChars)
  BY <1>1, <1>2, SchemeTyped
<1>b. b \in BOOLEAN
  OBVIOUS
<1>5. /\ P \in Seq(Codes(Uris!Pchar)) /\ (P = <<>> <=> t.path = <<>>) /\ Spells(P, t.path)
      /\ t.path # <<>> /\ t.path[1] = Slash => P[1] = Slash
      /\ b => ~Uris!Holds(Uris!Before(P, {Slash}), Colon)
  <2> HIDE DEF b
  <2> QED BY <1>1, <1>b, PathEncodes
<1>6. Q \in Seq(PairsOf(KeyCodes, ValueCodes) \ EmptyPairs) /\ [i \in DOMAIN Q |-> Uris!DecodePair(Q[i])] = t.query
  <2> DEFINE q == t.query
             E == [i \in DOMAIN q |-> Uris!EncodePair(q[i])]
  <2>1. q \in Seq(PairsOf(Charset, Charset) \ EmptyPairs)
    OBVIOUS
  <2> HIDE DEF q
  <2>2. E \in Seq(PairsOf(KeyCodes, ValueCodes) \ EmptyPairs) /\ [i \in DOMAIN E |-> Uris!DecodePair(E[i])] = q
    BY <2>1, PairsEncode
  <2> QED BY <2>2 DEF q
<1>7. F \in Seq(Codes(Uris!Quefrag)) /\ Uris!DecodeText(F) = t.fragment
  BY <1>1, TextEncodes
<1>8. Uris!DecodeText(P) = t.path
  <2> HIDE DEF P
  <2> QED BY <1>1, <1>5, DecodesTo
<1>10. e = [scheme |-> t.scheme, authority |-> A, path |-> P, query |-> Q, fragment |-> F]
  BY DEF Uris!Encode
<1> HIDE DEF A, P, Q, F, e
<1>11. /\ e.scheme = t.scheme /\ e.authority = A /\ e.path = P /\ e.query = Q /\ e.fragment = F
  BY <1>10
<1>12. e \in CodedTrees
  BY <1>3, <1>4, <1>5, <1>6, <1>7, <1>10 DEF CodedTrees
<1>13. PathStands(e)
  <2>1. ASSUME P # <<>>, A # Uris!NoAuthority PROVE P[1] = Slash
    <3>1. t.path # <<>> /\ a # Uris!NoAuthority
      BY <1>3, <1>5, <2>1
    <3>2. t.path[1] = Slash
      BY <1>2, <3>1
    <3> QED BY <1>5, <3>1, <3>2
  <2>2. ASSUME A = Uris!NoAuthority, t.scheme = <<>> PROVE ~Uris!Holds(Uris!Before(P, {Slash}), Colon)
    <3>1. b
      BY <1>3, <2>2
    <3> QED BY <1>5, <3>1
  <2> QED BY <1>11, <2>1, <2>2 DEF PathStands
<1>14. Uris!Decode(e) = t
  <2>1. Uris!Decode(e) = [scheme |-> t.scheme, authority |-> a, path |-> t.path, query |-> t.query,
                          fragment |-> t.fragment]
    BY <1>3, <1>6, <1>7, <1>8, <1>11 DEF Uris!Decode
  <2> QED BY <1>1, <2>1
<1> QED BY <1>11, <1>12, <1>13, <1>14 DEF e

\* A tree that can be encoded is the tree of its URI
LEMMA TreeReturns ==
  ASSUME Uris!Escapable, NEW t \in TreesOf(Charset), NEW typeHost \in HostTypes
  PROVE  Uris!TreeComesBack(t, typeHost)
<1> DEFINE n == Uris!Normalize(t)
           e == Uris!Encode(n, typeHost)
<1> SUFFICES ASSUME Uris!Encodable(n, typeHost) PROVE Uris!Split(Uris!Unsplit(t, typeHost)) = n
  BY DEF Uris!TreeComesBack
<1>1. n \in TreesOf(Charset) /\ n.query \in Seq(PairsOf(Charset, Charset) \ EmptyPairs)
  BY NormalizeTyped
<1> HIDE DEF n
<1>2. e \in CodedTrees /\ PathStands(e) /\ e.scheme = n.scheme /\ Uris!Decode(e) = n
  BY <1>1, TreeEncodes
<1>3. e.scheme # <<>> => Uris!ValidScheme(e.scheme)
  BY <1>2 DEF Uris!Encodable
<1> HIDE DEF e
<1>4. Uris!SplitTree(Uris!Join(e)) = e
  BY <1>2, CodedComesBack
<1>5. Uris!Valid(e) /\ e.authority # Uris!BadAuthority /\ Uris!Normalize(e) = e
  BY <1>2, <1>3, CodedIsValid
<1>6. Uris!Split(Uris!Join(e)) = n
  BY <1>2, <1>4, <1>5 DEF Uris!Split, Uris!Checked
<1> QED BY <1>6 DEF Uris!Unsplit, e, n

-----------------------------------------------------------------------------
(* What a URI is split into.                                               *)

LEMMA PieceTyped ==
  ASSUME NEW X, NEW t \in Seq(X), NEW m \in Nat \ {0}, NEW n \in 0 .. Len(t)
  PROVE  SubSeq(t, m, n) \in Seq(X)
<1>1. m \in Int /\ n \in Int /\ \A i \in m .. n : t[i] \in X
  OBVIOUS
<1> QED BY <1>1, SubSeqProperties

\* What an authority is split into, unless it is malformed
LEMMA HostSplit ==
  ASSUME NEW X, NEW i \in Seq(X), NEW t \in Seq(X)
  PROVE  Uris!SplitUserHost(i, t) = Uris!BadAuthority \/ Uris!SplitUserHost(i, t) \in AuthoritiesOf(X)
<1> DEFINE l == Uris!Literal(t)
           r == SubSeq(t, Len(l) + 1, Len(t))
<1>1. l \in Seq(X)
  <2>1. Uris!First(t, {RightBracket}) \in 0 .. Len(t)
    <3>1. FirstAt(t, {RightBracket}, Uris!First(t, {RightBracket}))
      BY FirstIs
    <3> QED BY <3>1 DEF FirstAt
  <2>2. SubSeq(t, 1, Uris!First(t, {RightBracket})) \in Seq(X)
    <3> DEFINE n == Uris!First(t, {RightBracket})
    <3>1. n \in 0 .. Len(t) /\ 1 \in Nat \ {0}
      BY <2>1
    <3> HIDE DEF n
    <3>2. SubSeq(t, 1, n) \in Seq(X)
      BY <3>1, PieceTyped
    <3> QED BY <3>2 DEF n
  <2>3. <<>> \in Seq(X)
    OBVIOUS
  <2> QED BY <2>2, <2>3 DEF Uris!Literal, RightBracket
<1> HIDE DEF l
<1>2. r \in Seq(X)
  <2>1. Len(l) + 1 \in Nat \ {0} /\ Len(t) \in 0 .. Len(t)
    BY <1>1
  <2> QED BY <2>1, PieceTyped
<1> HIDE DEF r
<1>3. /\ Uris!Before(i, {":"}) \in Seq(X) /\ Uris!After(i, {":"}) \in Seq(X)
      /\ Uris!Before(t, {":"}) \in Seq(X) /\ Uris!After(r, {":"}) \in Seq(X)
  BY <1>2, CutTyped
<1> DEFINE h == IF l = <<>> THEN Uris!Before(t, {":"}) ELSE l
           a == [user |-> Uris!Before(i, {":"}), passwd |-> Uris!After(i, {":"}), host |-> h,
                 port |-> Uris!After(r, {":"})]
<1>4. h \in Seq(X)
  BY <1>1, <1>3
<1>5. a \in AuthoritiesOf(X)
  BY <1>3, <1>4 DEF AuthoritiesOf
<1>6. Uris!SplitUserHost(i, t) = Uris!SplitHost(i, t, l)
  BY DEF Uris!SplitUserHost, l
<1>7. Uris!SplitHost(i, t, l) = Uris!BadAuthority \/ Uris!SplitHost(i, t, l) = a
  BY DEF Uris!SplitHost, r
<1> QED BY <1>5, <1>6, <1>7

LEMMA AuthoritySplit ==
  ASSUME NEW X, NEW t \in Seq(X)
  PROVE  Uris!SplitAuthority(t) = Uris!BadAuthority \/ Uris!SplitAuthority(t) \in AuthoritiesOf(X)
<1>1. Uris!Before(t, {"@"}) \in Seq(X) /\ Uris!After(t, {"@"}) \in Seq(X)
  BY CutTyped
<1>2. <<>> \in Seq(X)
  OBVIOUS
<1>3. CASE Uris!Holds(t, "@")
  BY <1>1, <1>3, HostSplit DEF Uris!SplitAuthority
<1>4. CASE ~Uris!Holds(t, "@")
  BY <1>2, <1>4, HostSplit DEF Uris!SplitAuthority
<1> QED BY <1>3, <1>4

LEMMA HierTyped ==
  ASSUME NEW X, NEW h \in Seq(X)
  PROVE  Uris!Authority(h) \in Seq(X) /\ Uris!Path(h) \in Seq(X)
<1> DEFINE a == Uris!Authority(h)
           s == SubSeq(h, 3, Len(h))
<1>1. s \in Seq(X)
  BY PieceTyped
<1>2. Uris!Before(s, {"/"}) \in Seq(X) /\ <<>> \in Seq(X)
  <2> HIDE DEF s
  <2> QED BY <1>1, CutTyped
<1>3. a \in Seq(X)
  BY <1>2 DEF Uris!Authority
<1> HIDE DEF a
<1>4. SubSeq(h, 3 + Len(a), Len(h)) \in Seq(X)
  <2>1. 3 + Len(a) \in Nat \ {0} /\ Len(h) \in 0 .. Len(h)
    BY <1>3
  <2> QED BY <2>1, PieceTyped
<1>5. Uris!Path(h) \in Seq(X)
  BY <1>4 DEF Uris!Path, a
<1> QED BY <1>3, <1>5 DEF a

\* What a URI is split into, unless its authority is malformed
LEMMA TreeSplit ==
  ASSUME NEW X, NEW uri \in Seq(X), Uris!SplitTree(uri).authority # Uris!BadAuthority
  PROVE  Uris!SplitTree(uri) \in TreesOf(X)
<1> DEFINE s == Uris!Scheme(uri)
           r == IF s = <<>> THEN uri ELSE Uris!After(uri, {":"})
           h == Uris!Before(r, {"?", "#"})
           a == Uris!SplitAuthority(Uris!Authority(h))
           p == Uris!Path(h)
           b == Uris!Before(r, {"#"})
           c == Uris!After(b, {"?"})
           q == Uris!SplitQuery(c)
           f == Uris!After(r, {"#"})
           T == Uris!SplitTree(uri)
<1>1. s \in Seq(X)
  <2>1. Uris!Before(uri, {":", "/", "?", "#"}) \in Seq(X) /\ <<>> \in Seq(X)
    BY CutTyped
  <2> QED BY <2>1 DEF Uris!Scheme
<1>2. r \in Seq(X)
  BY CutTyped
<1>0. T = [scheme |-> s, authority |-> a, path |-> p, query |-> q, fragment |-> f]
  BY DEF Uris!SplitTree, Uris!SplitScheme, Uris!SplitRest
<1> HIDE DEF s, r, T
<1>3. h \in Seq(X) /\ b \in Seq(X) /\ f \in Seq(X)
  BY <1>2, CutTyped
<1> HIDE DEF h, b, f
<1>4. c \in Seq(X)
  BY <1>3, CutTyped
<1> HIDE DEF c
<1>5. q \in Seq(PairsOf(X, X))
  BY <1>4, SplitTyped
<1>6. Uris!Authority(h) \in Seq(X) /\ p \in Seq(X)
  BY <1>3, HierTyped
<1>7. a = Uris!BadAuthority \/ a \in AuthoritiesOf(X)
  BY <1>6, AuthoritySplit
<1> HIDE DEF a, p, q
<1>8. T.authority = a
  BY <1>0
<1>9. a # Uris!BadAuthority
  BY <1>8 DEF T
<1>10. a \in AuthoritiesOf(X)
  BY <1>7, <1>9
<1> QED BY <1>0, <1>1, <1>3, <1>5, <1>6, <1>10 DEF TreesOf, T

\* Characters that are valid somewhere in a URI, and their escapes
LEMMA CodesAreSigns ==
  ASSUME Uris!Escapable
  PROVE  /\ Codes(Uris!User) \subseteq Charset \cup Uris!Escapes
         /\ Codes(Uris!Passwd) \subseteq Charset \cup Uris!Escapes
         /\ Codes(Uris!Pchar) \subseteq Charset \cup Uris!Escapes
         /\ Codes(Uris!Quefrag) \subseteq Charset \cup Uris!Escapes
         /\ SchemeChars \subseteq Charset /\ Uris!User \subseteq Charset /\ Uris!Passwd \subseteq Charset
         /\ LeftBracket \in Charset /\ RightBracket \in Charset
<1>1. Uris!Quefrag \subseteq Charset /\ LeftBracket \in Charset /\ RightBracket \in Charset
  BY SignsAre, NoSignIsEscape DEF Signed, Charset
<1>2. /\ Uris!User \subseteq Uris!Passwd /\ Uris!Passwd \subseteq Uris!Pchar
      /\ Uris!Pchar \subseteq Uris!Quefrag /\ SchemeChars \subseteq Uris!Quefrag
  BY Within
<1> QED BY <1>1, <1>2 DEF Codes

\* A text that is valid is decoded to a text
LEMMA ValidDecodes ==
  ASSUME Uris!Escapable, NEW X, NEW t \in Seq(X), NEW C, Uris!AllIn(t, C),
         Codes(C) \subseteq Charset \cup Uris!Escapes
  PROVE  /\ Uris!DecodeText(t) \in Seq(Charset) /\ Len(Uris!DecodeText(t)) = Len(t)
         /\ \A i \in 1 .. Len(t) : t[i] \in Charset => Uris!DecodeText(t)[i] = t[i]
         /\ Uris!DecodeElt(t) \in Seq(Charset)
<1> DEFINE Y == Charset \cup Uris!Escapes
<1>1. t \in Seq(Codes(C) \cup {PercentSign})
  BY AllInTyped
<1>2. t \in Seq(Y)
  <2>1. Codes(C) \cup {PercentSign} \subseteq Y
    BY DEF Uris!Escapable, Uris!Delims, Charset, PercentSign
  <2> HIDE DEF Codes, Y
  <2> QED BY <1>1, <2>1, Widen
<1> QED BY <1>2, EscapesDecode, EltTyped

\* A host that is valid is decoded to a text
LEMMA HostDecodes ==
  ASSUME Uris!Escapable, NEW X, NEW h \in Seq(X),
         Uris!HostType(h) = "name" => Uris!AllIn(h, Uris!RegName),
         Uris!HostType(h) = "literal" => Uris!ValidLiteral(h)
  PROVE  (IF Uris!HostType(h) = "name" THEN Uris!DecodeText(h) ELSE h) \in Seq(Charset)
<1>1. CASE Uris!HostType(h) = "name"
  <2>1. Uris!AllIn(h, Uris!User) /\ Codes(Uris!User) \subseteq Charset \cup Uris!Escapes
    BY <1>1, Within, CodesAreSigns
  <2>2. Uris!DecodeText(h) \in Seq(Charset)
    BY <2>1, ValidDecodes
  <2> QED BY <1>1, <2>2
<1>2. CASE Uris!HostType(h) = "literal"
  <2>1. PICK w \in Addresses : h = InBrackets(w)
    BY <1>2, LiteralIn
  <2>2. w \in Seq(Uris!Passwd) /\ w # <<>>
    BY AddressTyped
  <2>3. Uris!Passwd \subseteq Charset /\ LeftBracket \in Charset /\ RightBracket \in Charset
    BY CodesAreSigns
  <2>4. InBrackets(w) \in Seq(Charset)
    BY <2>2, <2>3, BracketsIs
  <2> QED BY <1>2, <2>1, <2>4
<1>3. CASE Uris!HostType(h) # "name" /\ Uris!HostType(h) # "literal"
  <2>1. h \in Ipv4
    BY <1>3 DEF Uris!HostType
  <2>2. h \in Seq(Uris!User) /\ Uris!User \subseteq Charset
    BY <2>1, AddressBytes, CodesAreSigns
  <2>3. h \in Seq(Charset)
    BY <2>2, Widen
  <2> QED BY <1>3, <2>3
<1> QED BY <1>1, <1>2, <1>3

LEMMA PairDecodes ==
  ASSUME Uris!Escapable, NEW X, NEW p \in PairsOf(X, X), Uris!AllIn(p[1], Uris!Quefrag),
         \A j \in DOMAIN p[2] : Uris!AllIn(p[2][j], Uris!Quefrag)
  PROVE  Uris!DecodePair(p) \in PairsOf(Charset, Charset)
<1> DEFINE k == p[1]
           v == p[2]
           w == [j \in DOMAIN v |-> Uris!DecodeElt(v[j])]
<1>1. k \in Seq(X) /\ v \in Values(X)
  BY DEF PairsOf
<1>2. Codes(Uris!Quefrag) \subseteq Charset \cup Uris!Escapes
  BY CodesAreSigns
<1>3. Uris!AllIn(k, Uris!Quefrag) /\ \A j \in DOMAIN v : Uris!AllIn(v[j], Uris!Quefrag)
  OBVIOUS
<1>4. Uris!DecodePair(p) = <<Uris!DecodeElt(k), w>>
  BY DEF Uris!DecodePair
<1> HIDE DEF k, v
<1>5. Uris!DecodeElt(k) \in Seq(Charset)
  BY <1>1, <1>2, <1>3, ValidDecodes
<1>6. w \in Values(Charset)
  <2>1. CASE v = <<>>
    <3>1. w = <<>>
      BY <2>1
    <3> QED BY <3>1 DEF Values
  <2>2. CASE v # <<>>
    <3>1. PICK t \in Seq(X) : v = <<t>>
      BY <1>1, <2>2 DEF Values
    <3>2. 1 \in DOMAIN v /\ v[1] = t
      BY <3>1
    <3>3. Uris!AllIn(t, Uris!Quefrag)
      BY <1>3, <3>2
    <3>4. Uris!DecodeElt(t) \in Seq(Charset)
      BY <1>2, <3>3, ValidDecodes
    <3>5. w = <<Uris!DecodeElt(t)>>
      BY <3>1
    <3> HIDE DEF w
    <3> QED BY <3>4, <3>5 DEF Values
  <2> QED BY <2>1, <2>2
<1> HIDE DEF w
<1> QED BY <1>4, <1>5, <1>6 DEF PairsOf

\* A query that is valid is decoded to pairs of texts
LEMMA QueryDecodes ==
  ASSUME Uris!Escapable, NEW X, NEW q \in Seq(PairsOf(X, X)),
         \A i \in DOMAIN q : /\ Uris!AllIn(q[i][1], Uris!Quefrag)
                             /\ \A j \in DOMAIN q[i][2] : Uris!AllIn(q[i][2][j], Uris!Quefrag)
  PROVE  [i \in DOMAIN q |-> Uris!DecodePair(q[i])] \in Seq(PairsOf(Charset, Charset))
<1> DEFINE P == PairsOf(X, X)
           Q == PairsOf(Charset, Charset)
           d == [i \in DOMAIN q |-> Uris!DecodePair(q[i])]
<1>0. q \in Seq(P)
  OBVIOUS
<1> HIDE DEF P, Q
<1>1. Len(q) \in Nat /\ DOMAIN q = 1 .. Len(q) /\ \A i \in 1 .. Len(q) : q[i] \in P
  BY <1>0
<1>2. \A i \in 1 .. Len(q) : Uris!DecodePair(q[i]) \in Q
  <2> TAKE i \in 1 .. Len(q)
  <2> DEFINE p == q[i]
  <2>1. p \in P /\ Uris!AllIn(p[1], Uris!Quefrag) /\ \A j \in DOMAIN p[2] : Uris!AllIn(p[2][j], Uris!Quefrag)
    BY <1>1
  <2> HIDE DEF p
  <2>2. Uris!DecodePair(p) \in Q
    BY <2>1, PairDecodes DEF P, Q
  <2> QED BY <2>2 DEF p
<1>3. d \in [1 .. Len(q) -> Q]
  BY <1>1, <1>2
<1>4. \A k \in Nat : [1 .. k -> Q] \subseteq Seq(Q)
  OBVIOUS
<1>5. d \in Seq(Q)
  BY <1>1, <1>3, <1>4
<1> QED BY <1>5 DEF Q

\* An authority that is valid is decoded to one that can be encoded
LEMMA AuthorityDecodes ==
  ASSUME Uris!Escapable, NEW X, NEW a \in AuthoritiesOf(X),
         Uris!AllIn(a.user, Uris!User), Uris!AllIn(a.passwd, Uris!Passwd),
         Uris!ToSet(a.port) \subseteq Uris!Digit,
         Uris!HostType(a.host) = "name" => Uris!AllIn(a.host, Uris!RegName),
         Uris!HostType(a.host) = "literal" => Uris!ValidLiteral(a.host)
  PROVE  /\ Uris!DecodeAuthority(a) \in AuthoritiesOf(Charset) /\ Uris!DecodeAuthority(a).port = a.port
         /\ a = Uris!NoAuthority => Uris!DecodeAuthority(a) = Uris!NoAuthority
<1> DEFINE u == a.user
           p == a.passwd
           g == a.host
           r == a.port
           h == IF Uris!HostType(g) = "name" THEN Uris!DecodeText(g) ELSE g
           d == Uris!DecodeAuthority(a)
<1>1. u \in Seq(X) /\ p \in Seq(X) /\ g \in Seq(X) /\ r \in Seq(X)
  BY DEF AuthoritiesOf
<1>2. /\ Codes(Uris!User) \subseteq Charset \cup Uris!Escapes
      /\ Codes(Uris!Passwd) \subseteq Charset \cup Uris!Escapes
      /\ Uris!Digit \subseteq Charset
  BY CodesAreSigns, SignsAre
<1>3. d = [user |-> Uris!DecodeText(u), passwd |-> Uris!DecodeText(p), host |-> h, port |-> r]
  BY DEF Uris!DecodeAuthority
<1>4. /\ Uris!AllIn(u, Uris!User) /\ Uris!AllIn(p, Uris!Passwd) /\ Uris!ToSet(r) \subseteq Uris!Digit
      /\ Uris!HostType(g) = "name" => Uris!AllIn(g, Uris!RegName)
      /\ Uris!HostType(g) = "literal" => Uris!ValidLiteral(g)
  OBVIOUS
<1>n. a = Uris!NoAuthority => u = <<>> /\ p = <<>> /\ g = <<>> /\ r = <<>>
  BY DEF Uris!NoAuthority
<1> HIDE DEF u, p, g, r, d
<1>5. Uris!DecodeText(u) \in Seq(Charset)
  BY <1>1, <1>2, <1>4, ValidDecodes
<1>6. Uris!DecodeText(p) \in Seq(Charset)
  BY <1>1, <1>2, <1>4, ValidDecodes
<1>7. h \in Seq(Charset)
  BY <1>1, <1>4, HostDecodes
<1>8. r \in Seq(Charset)
  <2>1. r \in Seq(Uris!Digit)
    BY <1>1, <1>4, DigitsTyped
  <2> QED BY <1>2, <2>1, Widen
<1>9. d \in AuthoritiesOf(Charset) /\ d.port = r
  BY <1>3, <1>5, <1>6, <1>7, <1>8 DEF AuthoritiesOf
<1>10. ASSUME a = Uris!NoAuthority PROVE d = Uris!NoAuthority
  <2>1. u = <<>> /\ p = <<>> /\ g = <<>> /\ r = <<>>
    BY <1>n, <1>10
  <2>2. Uris!DecodeText(<<>>) = <<>>
    BY DEF Uris!DecodeText
  <2>3. h = <<>>
    BY <2>1, <2>2
  <2> QED BY <1>3, <2>1, <2>2, <2>3 DEF Uris!NoAuthority
<1> QED BY <1>9, <1>10 DEF d, r

\* A tree that is valid is decoded to a tree that can be encoded
LEMMA TreeDecodes ==
  ASSUME Uris!Escapable, NEW X, NEW n \in TreesOf(X), Uris!Valid(n)
  PROVE  Uris!Decode(n) \in TreesOf(Charset) /\ Uris!Encodable(Uris!Normalize(Uris!Decode(n)), "name")
<1> DEFINE s == n.scheme
           a == n.authority
           A == Uris!DecodeAuthority(a)
           p == n.path
           P == Uris!DecodeText(p)
           q == n.query
           Q == [i \in DOMAIN q |-> Uris!DecodePair(q[i])]
           f == n.fragment
           F == Uris!DecodeText(f)
           t == Uris!Decode(n)
           m == Uris!Normalize(t)
<1>1. /\ s \in Seq(X) /\ a \in AuthoritiesOf(X) /\ p \in Seq(X) /\ q \in Seq(PairsOf(X, X)) /\ f \in Seq(X)
  BY DEF TreesOf
<1>2. /\ s # <<>> => Uris!ValidScheme(s)
      /\ Uris!AllIn(a.user, Uris!User) /\ Uris!AllIn(a.passwd, Uris!Passwd)
      /\ Uris!ToSet(a.port) \subseteq Uris!Digit
      /\ Uris!HostType(a.host) = "name" => Uris!AllIn(a.host, Uris!RegName)
      /\ Uris!HostType(a.host) = "literal" => Uris!ValidLiteral(a.host)
      /\ Uris!AllIn(p, Uris!Pchar) /\ Uris!AllIn(f, Uris!Quefrag)
      /\ p # <<>> /\ a # Uris!NoAuthority => p[1] = Slash
  BY DEF Uris!Valid, Slash
<1>q. \A i \in DOMAIN q : /\ Uris!AllIn(q[i][1], Uris!Quefrag)
                          /\ \A j \in DOMAIN q[i][2] : Uris!AllIn(q[i][2][j], Uris!Quefrag)
  BY DEF Uris!Valid
<1>3. t = [scheme |-> s, authority |-> A, path |-> P, query |-> Q, fragment |-> F]
  BY DEF Uris!Decode
<1> HIDE DEF s, a, p, q, f, t
<1>4. /\ Codes(Uris!Pchar) \subseteq Charset \cup Uris!Escapes
      /\ Codes(Uris!Quefrag) \subseteq Charset \cup Uris!Escapes /\ SchemeChars \subseteq Charset
  BY CodesAreSigns
<1>5. s \in Seq(Charset)
  <2>1. s \in Seq(SchemeChars)
    BY <1>1, <1>2, SchemeTyped
  <2> QED BY <1>4, <2>1, Widen
<1>6. /\ A \in AuthoritiesOf(Charset) /\ A.port = a.port
      /\ a = Uris!NoAuthority => A = Uris!NoAuthority
  BY <1>1, <1>2, AuthorityDecodes
<1>7. /\ P \in Seq(Charset) /\ Len(P) = Len(p)
      /\ \A i \in 1 .. Len(p) : p[i] \in Charset => P[i] = p[i]
  BY <1>1, <1>2, <1>4, ValidDecodes
<1>8. Q \in Seq(PairsOf(Charset, Charset))
  BY <1>1, <1>q, QueryDecodes
<1>9. F \in Seq(Charset)
  BY <1>1, <1>2, <1>4, ValidDecodes
<1> HIDE DEF A, P, Q, F
<1>10. t \in TreesOf(Charset)
  BY <1>3, <1>5, <1>6, <1>7, <1>8, <1>9 DEF TreesOf
<1>11. m.scheme = s /\ m.authority = A /\ m.path = P
  BY <1>3 DEF Uris!Normalize
<1> HIDE DEF m
<1>12. P # <<>> /\ A # Uris!NoAuthority => P[1] = Slash
  <2> SUFFICES ASSUME P # <<>>, A # Uris!NoAuthority PROVE P[1] = Slash
    OBVIOUS
  <2>1. p # <<>> /\ 1 \in 1 .. Len(p)
    BY <1>1, <1>7
  <2>2. p[1] = Slash
    BY <1>2, <1>6, <2>1
  <2>3. Slash \in Charset
    BY NoSignIsEscape DEF Signed, Charset
  <2> QED BY <1>7, <2>1, <2>2, <2>3
<1>13. Uris!Encodable(m, "name")
  BY <1>2, <1>6, <1>11, <1>12 DEF Uris!Encodable, Slash
<1> QED BY <1>10, <1>13 DEF t, m

\* A URI that can be split is split the same once it is made again
LEMMA UriReturns ==
  ASSUME Uris!Escapable, NEW X, NEW uri \in Seq(X)
  PROVE  Uris!UriComesBack(uri)
<1> DEFINE t == Uris!SplitTree(uri)
           n == Uris!Normalize(t)
           d == Uris!Split(uri)
<1> SUFFICES ASSUME d # Uris!Invalid
             PROVE  Uris!Encodable(Uris!Normalize(d), "name") /\ Uris!TreeComesBack(d, "name")
  BY DEF Uris!UriComesBack, Uris!MadeAgain
<1>1. n.authority # Uris!BadAuthority /\ Uris!Valid(n) /\ d = Uris!Decode(n)
  BY DEF Uris!Split, Uris!Checked
<1>2. t.authority # Uris!BadAuthority
  <2>1. n = [t EXCEPT !.query = Uris!Without(t.query, EmptyPairs)]
    BY DEF Uris!Normalize, EmptyPairs
  <2>2. t = [scheme |-> t.scheme, authority |-> t.authority, path |-> t.path, query |-> t.query,
             fragment |-> t.fragment]
    BY DEF Uris!SplitTree, Uris!SplitScheme, Uris!SplitRest
  <2> HIDE DEF t, n
  <2>3. n.authority = t.authority
    BY <2>1, <2>2
  <2> QED BY <1>1, <2>3
<1>3. t \in TreesOf(X)
  BY <1>2, TreeSplit
<1>4. n \in TreesOf(X)
  <2> HIDE DEF t
  <2> QED BY <1>3, NormalizeTyped
<1> HIDE DEF n, d
<1>5. d \in TreesOf(Charset) /\ Uris!Encodable(Uris!Normalize(d), "name")
  BY <1>1, <1>4, TreeDecodes
<1>6. Uris!TreeComesBack(d, "name")
  BY <1>5, TreeReturns DEF HostTypes
<1> QED BY <1>5, <1>6 DEF d

\* UrisExact: whatever is in the parts of a tree of characters, if
\* uri_help_unsplit() makes a URI of it, that URI is split into the tree with
\* its empty pairs dropped, and a URI of any signs that uri_help_split() can
\* split is one that can be made again, and is split the same. It rests on
\* UriAssumption: an escape is of one character and is not a character
THEOREM UrisAreExact ==
  ASSUME NEW Sign, input.op = "uri" => input.uri \in Seq(Sign),
         input.op = "tree" => input.tree \in TreesOf(Charset) /\ input.host \in HostTypes
  PROVE  UrisExact
<1>1. Uris!Escapable
  BY UriAssumption
<1>2. ASSUME input.op = "uri" PROVE Uris!UriComesBack(input.uri)
  BY <1>1, <1>2, UriReturns
<1>3. ASSUME input.op = "tree" PROVE Uris!TreeComesBack(input.tree, input.host)
  BY <1>1, <1>3, TreeReturns
<1> QED BY <1>2, <1>3 DEF UrisExact
=============================================================================
