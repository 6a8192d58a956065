------------------------------ MODULE Helpers ------------------------------
(***************************************************************************)
(* sonicprobe.helpers: the machine that substitutes variables in a line,   *)
(* and base 64 over a stream that is read by pieces.  Lines are sequences  *)
(* of characters, streams of bytes.                                        *)
(* Operators marked "Variant" are not part of the model: each is a defect  *)
(* that a property is shown to detect.                                     *)
(***************************************************************************)
EXTENDS Integers, Sequences, SequencesExt, FiniteSets, Functions

CONSTANTS
  Variables,     \* from the names of variables to their values
  Blank          \* the bytes that split() drops

-----------------------------------------------------------------------------
(* linesubst() and txtsubst().                                             *)

Backslash == "\\"

\* s, with its state, and what it adds to the line or to the name in hand
To(s, st) == [s EXCEPT !.st = st]
Out(s, t) == [s EXCEPT !.st = "NORM", !.out = @ \o t]
Name(s, t) == [s EXCEPT !.st = "TWO", !.curvar = @ \o t]

\* An unknown variable is replaced by nothing
Value(name) == IF name \in DOMAIN Variables THEN Variables[name] ELSE <<>>

\* Variant: a brace that does not end a name is forgotten
CharForgetful(s, c) ==
  CASE s.st = "NORM" -> IF c = "{" THEN To(s, "ONE") ELSE IF c = Backslash THEN To(s, "LIT") ELSE Out(s, <<c>>)
    [] s.st = "LIT"  -> Out(s, <<c>>)
    [] s.st = "ONE"  -> IF c = "{" THEN To(s, "TWO")
                        ELSE IF c = Backslash THEN To(Out(s, <<"{">>), "LIT") ELSE Out(s, <<"{", c>>)
    [] s.st = "TWO"  -> IF c = Backslash THEN To(s, "TLIT") ELSE IF c = "}" THEN To(s, "TERM") ELSE Name(s, <<c>>)
    [] s.st = "TLIT" -> Name(s, <<c>>)
    [] s.st = "TERM" -> IF c = "}" THEN [Out(s, Value(s.curvar)) EXCEPT !.curvar = <<>>]
                        ELSE IF c = Backslash THEN To(s, "TLIT") ELSE Name(s, <<"}", c>>)

Char(s, c) ==
  CASE s.st = "NORM" -> IF c = "{" THEN To(s, "ONE") ELSE IF c = Backslash THEN To(s, "LIT") ELSE Out(s, <<c>>)
    [] s.st = "LIT"  -> Out(s, <<c>>)
    [] s.st = "ONE"  -> IF c = "{" THEN To(s, "TWO")
                        ELSE IF c = Backslash THEN To(Out(s, <<"{">>), "LIT") ELSE Out(s, <<"{", c>>)
    [] s.st = "TWO"  -> IF c = Backslash THEN To(s, "TLIT") ELSE IF c = "}" THEN To(s, "TERM") ELSE Name(s, <<c>>)
    [] s.st = "TLIT" -> Name(s, <<c>>)
    [] s.st = "TERM" -> IF c = "}" THEN [Out(s, Value(s.curvar)) EXCEPT !.curvar = <<>>]
                        ELSE IF c = Backslash THEN To(Name(s, <<"}">>), "TLIT") ELSE Name(s, <<"}", c>>)

Run(line) ==
  LET after[k \in 0 .. Len(line)] ==
        IF k = 0 THEN [st |-> "NORM", out |-> <<>>, curvar |-> <<>>]
        ELSE Char(after[k - 1], line[k])
  IN after[Len(line)]

\* A line without "{{" and without "\" is returned as it is
Plain(line) ==
  /\ Backslash \notin ToSet(line)
  /\ \A i \in 1 .. Len(line) - 1 : SubSeq(line, i, i + 1) # <<"{", "{">>
Subst(line) == IF Plain(line) THEN line ELSE Run(line).out

-----------------------------------------------------------------------------
(* base64_encode_file() and base64_decode_file(), for a source whose       *)
(* read() returns the given pieces.  A group of base 64 is four symbols    *)
(* <<g, i>> of its bytes g, so that padding shows in the length of g.      *)

Group(g) == [i \in 1 .. 4 |-> <<g, i>>]
GroupsOf(t, n) == [i \in 1 .. (Len(t) + n - 1) \div n |->
                    SubSeq(t, n * (i - 1) + 1, IF n * i < Len(t) THEN n * i ELSE Len(t))]
B64encode(t) == FlattenSeq([i \in DOMAIN GroupsOf(t, 3) |-> Group(GroupsOf(t, 3)[i])])
\* Symbols that are not whole groups are an error
B64decode(t) == FlattenSeq([i \in DOMAIN GroupsOf(t, 4) |->
                  IF Len(GroupsOf(t, 4)[i]) = 4 THEN GroupsOf(t, 4)[i][1][1] ELSE <<"error">>])

\* Full reads of a chunk size that is rounded down to a multiple of three
Chunk(size) == (size \div 3) * 3
EncodeFile(t, size) == FlattenSeq([i \in DOMAIN GroupsOf(t, Chunk(size)) |-> B64encode(GroupsOf(t, Chunk(size))[i])])

\* b''.join(data.split())
Squeezed(data) ==
  FlattenSeq([i \in DOMAIN data |-> IF data[i] \in Blank THEN <<>> ELSE <<data[i]>>])

\* Variant: what is read is decoded at once
DecodeStepAtOnce(s, data) == [out |-> s.out \o B64decode(Squeezed(data)), pending |-> <<>>]

\* One read, at the end of the file an empty one, after which nothing is kept back
DecodeStep(s, data) ==
  LET pending == s.pending \o Squeezed(data)
      size == IF data = <<>> THEN Len(pending) ELSE (Len(pending) \div 4) * 4
  IN [out |-> s.out \o B64decode(SubSeq(pending, 1, size)),
      pending |-> SubSeq(pending, size + 1, Len(pending))]

Decoding(reads) ==
  LET after[k \in 0 .. Len(reads)] ==
        IF k = 0 THEN [out |-> <<>>, pending |-> <<>>] ELSE DecodeStep(after[k - 1], reads[k])
  IN after[Len(reads)]

DecodeFile(reads) == Decoding(Append(reads, <<>>)).out

-----------------------------------------------------------------------------
(* Properties.                                                             *)

\* A line that is written piece by piece -- characters, escaped characters, a brace that
\* stands alone, and variables whose names are escaped -- is substituted piece by piece.
WellWritten(p) ==
  /\ p.kind \in {"char", "brace"} => p.char \notin {"{", Backslash}
  /\ p.kind = "var" =>
       \A i \in DOMAIN p.name : p.name[i] \notin p.escaped =>
         /\ p.name[i] # Backslash
         /\ p.name[i] = "}" => i < Len(p.name) /\ p.name[i + 1] # "}"
Written(p) ==
  CASE p.kind = "char"   -> <<p.char>>
    [] p.kind = "escape" -> <<Backslash, p.char>>
    [] p.kind = "brace"  -> <<"{", p.char>>
    [] p.kind = "var"    -> <<"{", "{">> \o FlattenSeq([i \in DOMAIN p.name |->
                              IF p.name[i] \in p.escaped THEN <<Backslash, p.name[i]>> ELSE <<p.name[i]>>])
                            \o <<"}", "}">>
Meant(p) ==
  CASE p.kind \in {"char", "escape"} -> <<p.char>>
    [] p.kind = "brace" -> <<"{", p.char>>
    [] p.kind = "var" -> Value(p.name)

SubstByPieces(pieces) ==
  (\A i \in DOMAIN pieces : WellWritten(pieces[i])) =>
    Subst(FlattenSeq([i \in DOMAIN pieces |-> Written(pieces[i])])) =
      FlattenSeq([i \in DOMAIN pieces |-> Meant(pieces[i])])

\* A stream is encoded as a whole, in chunks of every size, and however what was encoded
\* is cut into reads, blanks between its symbols or not, it is decoded to what it was.
Base64Whole(t, size, reads) ==
  /\ EncodeFile(t, size) = B64encode(t)
  /\ (/\ \A i \in DOMAIN reads : reads[i] # <<>>
      /\ Squeezed(FlattenSeq(reads)) = EncodeFile(t, size)) => DecodeFile(reads) = t
=============================================================================
