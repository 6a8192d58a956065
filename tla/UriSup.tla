------------------------------- MODULE UriSup -------------------------------
(***************************************************************************)
(* sonicprobe.libs.urisup: splits a URI into a tree of its parts and makes *)
(* a URI of a tree.                                                        *)
(*                                                                         *)
(* A text is a sequence of characters, of which the escape of a character, *)
(* "%" and two digits, is one.  None and the empty text are both <<>>,     *)
(* which the code tells apart in one place, the value of a query: there it *)
(* is <<>> or <<text>>; and an authority whose parts are empty is none.  A *)
(* tree is a record of `scheme`, `authority`, `path`, `query`, a sequence  *)
(* of keys and values, and `fragment`.                                     *)
(* Operators marked "Variant" are not part of the model: each is a defect  *)
(* that a property is shown to detect.                                     *)
(***************************************************************************)
EXTENDS Integers, Sequences, SequencesExt, FiniteSets, Functions

CONSTANTS
  Escape,            \* from each character to its escape
  Ipv4, Ipv6, Ipvf   \* the texts that are such addresses, the last two without brackets

Alpha == {"g", "G"}
Digit == {"8"}
SubDelims == {"!", "&", "+", "=", ","}
Unreserved == Alpha \cup Digit \cup {"-", ".", "~"}
Escapes == {Escape[c] : c \in DOMAIN Escape}
User == Unreserved \cup SubDelims      \* and "%", see AllIn
Passwd == User \cup {":"}
RegName == User
Pchar == User \cup {":", "@", "/"}
Quefrag == Pchar \cup {"?"}
QueryKey == Quefrag \ {"&", "+", "="}
QueryVal == Quefrag \ {"&", "+"}

\* Characters other than these have escapes too; no escape is a character, and different
\* characters have different escapes.  An address has no character that would end it.
Delims == {"#", "[", "]", " ", "%"}
Escapable ==
  /\ Quefrag \cup Delims \subseteq DOMAIN Escape
  /\ Escapes \cap (DOMAIN Escape \cup {"malformed"}) = {}
  /\ \A c, d \in DOMAIN Escape : Escape[c] = Escape[d] => c = d
  /\ Ipv4 \subseteq Seq(Digit \cup {"."}) \ {<<>>}
  /\ Ipv6 \subseteq Seq(Digit \cup {".", ":"}) \ {<<>>}
  /\ Ipvf \subseteq Seq(Passwd) \ {<<>>}

NoAuthority == [user |-> <<>>, passwd |-> <<>>, host |-> <<>>, port |-> <<>>]
BadAuthority == [NoAuthority EXCEPT !.host = <<"malformed">>]
NoTree == [scheme |-> <<>>, authority |-> NoAuthority, path |-> <<>>, query |-> <<>>, fragment |-> <<>>]
Invalid == [NoTree EXCEPT !.authority = BadAuthority]

-----------------------------------------------------------------------------
(* Splitting.                                                              *)

\* s.split(c, 1) at the first character of C: what is before it, and what is after it
First(t, C)  == SelectInSeq(t, LAMBDA c : c \in C)
Until(t, n)  == IF n = 0 THEN t ELSE SubSeq(t, 1, n - 1)
Past(t, n)   == IF n = 0 THEN <<>> ELSE SubSeq(t, n + 1, Len(t))
Before(t, C) == Until(t, First(t, C))
After(t, C)  == Past(t, First(t, C))
Holds(t, c)  == c \in ToSet(t)
Starts(t, s) == IsPrefix(s, t)

\* Filters of a comprehension
Without(s, dropped) == FlattenSeq([i \in DOMAIN s |-> IF s[i] \in dropped THEN <<>> ELSE <<s[i]>>])

\* split_query(): an assignment without "=" has no value
Pair(a) == <<Before(a, {"="}), IF Holds(a, "=") THEN <<After(a, {"="})>> ELSE <<>>>>
Pairs(given) == [i \in DOMAIN given |-> Pair(given[i])]
Assign(s, c) ==
  IF c = "&" THEN [done |-> Append(s.done, s.last), last |-> <<>>] ELSE [s EXCEPT !.last = Append(@, c)]
Assigned(t) ==
  LET run[k \in 0 .. Len(t)] ==
        IF k = 0 THEN [done |-> <<>>, last |-> <<>>] ELSE Assign(run[k - 1], t[k])
  IN run[Len(t)]
Assignments(s) == Append(s.done, s.last)
SplitQuery(t) == Pairs(Without(Assignments(Assigned(t)), {<<>>}))

IsLiteral(t) == Len(t) >= 2 /\ t[1] = "[" /\ Last(t) = "]"

\* The host in brackets that a text begins with, and what may follow it
Literal(t) == IF Starts(t, <<"[">>) THEN SubSeq(t, 1, First(t, {"]"})) ELSE <<>>
WellFormed(literal, rest) ==
  /\ IsLiteral(literal) /\ Len(literal) > 2
  /\ \/ \A i \in 2 .. Len(literal) - 1 : literal[i] \in Digit \cup {":", "."}
     \/ SubSeq(literal, 2, Len(literal) - 1) \in Ipvf
  /\ rest # <<>> => rest[1] = ":"

\* split_authority(): a host in brackets ends with its bracket, another at the first ":"
SplitHost(userinfo, hostport, literal) ==
  LET rest == SubSeq(hostport, Len(literal) + 1, Len(hostport)) IN
  IF Starts(hostport, <<"[">>) /\ ~WellFormed(literal, rest) THEN BadAuthority
  ELSE [user |-> Before(userinfo, {":"}), passwd |-> After(userinfo, {":"}),
        host |-> IF literal = <<>> THEN Before(hostport, {":"}) ELSE literal,
        port |-> After(rest, {":"})]
SplitUserHost(userinfo, hostport) == SplitHost(userinfo, hostport, Literal(hostport))
SplitAuthority(t) ==
  IF Holds(t, "@") THEN SplitUserHost(Before(t, {"@"}), After(t, {"@"})) ELSE SplitUserHost(<<>>, t)

\* basic_urisplit(): the expression of RFC 3986, appendix B
Scheme(uri) ==
  LET prefix == Before(uri, {":", "/", "?", "#"}) IN
  IF prefix # <<>> /\ Starts(uri, Append(prefix, ":")) THEN prefix ELSE <<>>
Authority(hier) ==
  IF Starts(hier, <<"/", "/">>) THEN Before(SubSeq(hier, 3, Len(hier)), {"/"}) ELSE <<>>
Path(hier) ==
  IF Starts(hier, <<"/", "/">>) THEN SubSeq(hier, 3 + Len(Authority(hier)), Len(hier)) ELSE hier

\* uri_split_tree()
SplitRest(scheme, rest) ==
  [scheme |-> scheme,
   authority |-> SplitAuthority(Authority(Before(rest, {"?", "#"}))),
   path |-> Path(Before(rest, {"?", "#"})),
   query |-> SplitQuery(After(Before(rest, {"#"}), {"?"})),
   fragment |-> After(rest, {"#"})]
SplitScheme(scheme, uri) == SplitRest(scheme, IF scheme = <<>> THEN uri ELSE After(uri, {":"}))
SplitTree(uri) == SplitScheme(Scheme(uri), uri)

-----------------------------------------------------------------------------
(* Trees.                                                                  *)

\* uri_tree_normalize()
Normalize(tree) ==
  [tree EXCEPT !.query = Without(@, {<<>>} \X {<<>>, <<<<>>>>})]

\* Escapes are not validated: a "%" that begins none is taken too
AllIn(t, C) == ToSet(t) \subseteq C \cup Escapes \cup {"%"}
ValidScheme(t) == t[1] \in Alpha /\ \A i \in 2 .. Len(t) : t[i] \in Alpha \cup Digit \cup {"+", "-", "."}
ValidLiteral(t) == IsLiteral(t) /\ SubSeq(t, 2, Len(t) - 1) \in Ipv6 \cup Ipvf

HostType(host) ==
  IF Starts(host, <<"[">>) THEN "literal" ELSE IF host \in Ipv4 THEN "ipv4" ELSE "name"

\* uri_tree_validate()
Valid(tree) ==
  LET a == tree.authority IN
  /\ tree.scheme # <<>> => ValidScheme(tree.scheme)
  /\ AllIn(a.user, User) /\ AllIn(a.passwd, Passwd) /\ ToSet(a.port) \subseteq Digit
  /\ HostType(a.host) = "name" => AllIn(a.host, RegName)
  /\ HostType(a.host) = "literal" => ValidLiteral(a.host)
  /\ AllIn(tree.path, Pchar)
  /\ (tree.path # <<>> /\ a # NoAuthority) => tree.path[1] = "/"
  /\ (a = NoAuthority /\ tree.scheme = <<>>) => ~Holds(Before(tree.path, {"/"}), ":")
  /\ \A i \in DOMAIN tree.query :
       AllIn(tree.query[i][1], Quefrag) /\ \A j \in DOMAIN tree.query[i][2] : AllIn(tree.query[i][2][j], Quefrag)
  /\ AllIn(tree.fragment, Quefrag)

Meant(x) == IF x \in Escapes THEN CHOOSE c \in DOMAIN Escape : Escape[c] = x ELSE x
DecodeText(t) == [i \in DOMAIN t |-> Meant(t[i])]
\* query_elt_decode(): a "+" is a space
DecodeElt(t) == DecodeText([i \in DOMAIN t |-> IF t[i] = "+" THEN " " ELSE t[i]])
DecodePair(p) == <<DecodeElt(p[1]), [j \in DOMAIN p[2] |-> DecodeElt(p[2][j])]>>

DecodeAuthority(a) ==
  [user |-> DecodeText(a.user), passwd |-> DecodeText(a.passwd),
   host |-> IF HostType(a.host) = "name" THEN DecodeText(a.host) ELSE a.host, port |-> a.port]

\* uri_tree_decode()
Decode(tree) ==
  [scheme |-> tree.scheme, authority |-> DecodeAuthority(tree.authority), path |-> DecodeText(tree.path),
   query |-> [i \in DOMAIN tree.query |-> DecodePair(tree.query[i])], fragment |-> DecodeText(tree.fragment)]

\* uri_help_split()
Checked(tree) == IF tree.authority # BadAuthority /\ Valid(tree) THEN Decode(tree) ELSE Invalid
Split(uri) == Checked(Normalize(SplitTree(uri)))

\* uri_tree_precode_check()
Encodable(tree, typeHost) ==
  LET a == tree.authority IN
  /\ tree.scheme # <<>> => ValidScheme(tree.scheme)
  /\ ToSet(a.port) \subseteq Digit
  /\ (typeHost = "literal" /\ a.host # <<>>) => ValidLiteral(a.host)
  /\ (typeHost = "ipv4" /\ a.host # <<>>) => a.host \in Ipv4
  /\ (tree.path # <<>> /\ a # NoAuthority) => tree.path[1] = "/"

EncodeText(t, C) == [i \in DOMAIN t |-> IF t[i] \in C THEN t[i] ELSE Escape[t[i]]]

\* Variant: a "+" is left as it is in a query
QueryWithPlus(t, C) == [i \in DOMAIN t |-> IF t[i] = " " THEN "+" ELSE IF t[i] \in C \cup {"+"} THEN t[i] ELSE Escape[t[i]]]

\* query_elt_encode(): a space is "+", and a "+" is escaped
EncodeQuery(t, C) == [i \in DOMAIN t |-> IF t[i] = " " THEN "+" ELSE IF t[i] \in C THEN t[i] ELSE Escape[t[i]]]

EncodePair(p) == <<EncodeQuery(p[1], QueryKey), [j \in DOMAIN p[2] |-> EncodeQuery(p[2][j], QueryVal)]>>

\* A ":" in the first segment of a path would make it a scheme
EncodePath(t, noscheme) ==
  LET path == EncodeText(t, Pchar)
      first == Len(Before(path, {"/"}))
  IN [i \in DOMAIN path |-> IF noscheme /\ i <= first /\ path[i] = ":" THEN Escape[":"] ELSE path[i]]

EncodeHost(host, typeHost) == IF typeHost = "name" THEN EncodeText(host, RegName) ELSE host
EncodeAuthority(a, typeHost) ==
  [user |-> EncodeText(a.user, User), passwd |-> EncodeText(a.passwd, Passwd),
   host |-> EncodeHost(a.host, typeHost), port |-> a.port]

\* uri_tree_encode()
Encode(tree, typeHost) ==
  [scheme |-> tree.scheme, authority |-> EncodeAuthority(tree.authority, typeHost),
   path |-> EncodePath(tree.path, tree.authority = NoAuthority /\ tree.scheme = <<>>),
   query |-> [i \in DOMAIN tree.query |-> EncodePair(tree.query[i])],
   fragment |-> EncodeText(tree.fragment, Quefrag)]

Marked(mark, t) == IF t = <<>> THEN <<>> ELSE mark \o t

Assignment(p) == p[1] \o (IF p[2] = <<>> THEN <<>> ELSE <<"=">> \o p[2][1])
JoinQuery(query) ==
  FlattenSeq([i \in DOMAIN query |->
                IF i = 1 THEN Assignment(query[i]) ELSE <<"&">> \o Assignment(query[i])])

\* uri_unsplit_tree(): a path that begins with "//" needs an empty authority before it
JoinUserHost(userinfo, hostport) == IF userinfo = <<>> THEN hostport ELSE userinfo \o <<"@">> \o hostport
JoinAuthority(a) ==
  JoinUserHost(a.user \o Marked(<<":">>, a.passwd), a.host \o Marked(<<":">>, a.port))
JoinPath(authority, path) ==
  IF authority = <<>> /\ ~Starts(path, <<"/", "/">>) THEN path ELSE <<"/", "/">> \o authority \o path
Join(tree) ==
  (IF tree.scheme = <<>> THEN <<>> ELSE Append(tree.scheme, ":"))
  \o JoinPath(JoinAuthority(tree.authority), tree.path)
  \o Marked(<<"?">>, JoinQuery(tree.query)) \o Marked(<<"#">>, tree.fragment)

\* uri_help_unsplit(), for a host of any type
Unsplit(tree, typeHost) == Join(Encode(Normalize(tree), typeHost))

-----------------------------------------------------------------------------
(* Properties.                                                             *)

\* A tree that can be encoded, whatever is in its parts, is what its URI is split into.
TreeComesBack(tree, typeHost) ==
  Encodable(Normalize(tree), typeHost) => Split(Unsplit(tree, typeHost)) = Normalize(tree)

\* A URI that can be split can be made again, and the tree of what is made is the same.
MadeAgain(tree) == tree # Invalid => Encodable(Normalize(tree), "name") /\ TreeComesBack(tree, "name")
UriComesBack(uri) == MadeAgain(Split(uri))
=============================================================================
