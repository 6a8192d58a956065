----------------------------- MODULE MCLibrary -----------------------------
(***************************************************************************)
(* Instances of the modules of functions, each on a bounded set of inputs, *)
(* and of the two small machines of the library.  A behaviour is the       *)
(* choice of one input, or the life of one of the machines.                *)
(***************************************************************************)
EXTENDS LibraryMachines, SequencesExt

UpTo(S, n) == UNION {[1 .. k -> S] : k \in 0 .. n}

-----------------------------------------------------------------------------
(* Policies: "a" and "bc" may be options, "b" and "c" in one word too.     *)

ArgValues == {"v", "w", "late"}
ArgFate == [v \in ArgValues |-> IF v = "v" THEN "match" ELSE IF v = "w" THEN "no match" ELSE "late"]

Policy(k, s) == [kind |-> k, entries |-> s]
NoRule == <<>>
Flag == [nargs |-> <<0, TRUE>>]
Rules == {NoRule, Flag, [nargs |-> <<0, FALSE>>, repeatable |-> TRUE, choices |-> {"v", "w"}],
          [nargs |-> <<1, FALSE>>, regex |-> TRUE], [nargs |-> <<2, TRUE>>, repeatable |-> TRUE],
          [nargs |-> <<0, TRUE>>, regex |-> TRUE]}
Allowed(names, rules) ==
  {Policy(k, <<>>) : k \in {"all", "none", "list"}}
  \cup {Policy("list", << <<n, r>>, <<m, q>> >>) : n \in names, m \in {<<1, "b">>, <<2, "a">>}, r \in rules,
                                                   q \in {NoRule, [nargs |-> <<0, TRUE>>, repeatable |-> TRUE]}}
Disallowed == {Policy(k, <<>>) : k \in {"all", "none", "list"}} \cup {Policy("list", << <<<<1, "b">>, NoRule>> >>)}
Tokens ==
  [kind : {"option"}, name : {<<2, "a">>, <<1, "b">>}, value : {None, "v"}]
  \cup {[kind |-> "cluster", name |-> <<1, "bc">>, value |-> None],
        [kind |-> "end", name |-> <<2, "">>, value |-> None]}
  \cup [kind : {"plain"}, name : {<<0, "t">>}, value : ArgValues]
EnvNames == {<<0, "X">>, <<0, "">>, <<1, "b">>}
EnvRules == {NoRule, Flag, [regex |-> TRUE], [choices |-> {"w"}, regex |-> TRUE]}

PolicyInputs ==
  [op : {"args"}, args : UpTo(Tokens, 3), allow : Allowed({<<0, "a">>, <<2, "a">>}, Rules), disallow : Disallowed]
  \cup [op : {"env"}, env : UNION {[N -> ArgValues] : N \in SUBSET EnvNames},
        allow : Allowed({<<0, "X">>}, EnvRules), disallow : Disallowed]

-----------------------------------------------------------------------------
(* Option files: "l" is a symbolic link to "a", and three real files are   *)
(* one more than may be below each other.  Sections for versions.          *)

Files == {"a", "b", "c", "l"}
Opt == INSTANCE OptionFiles WITH MaxDepth <- 2, Real <- [f \in Files |-> IF f = "l" THEN "a" ELSE f]

LinesOf(f) == {[kind |-> "text", text |-> f], [kind |-> "bad"]}
              \cup [kind : {"include"}, path : Files \cup {"missing"}] \cup [kind : {"includedir"}, path : {"d"}]
FileSystem(a, b, dirs, refused) ==
  [lines |-> [f \in Files |-> CASE f = "b" -> b [] f = "c" -> <<[kind |-> "text", text |-> f]>> [] OTHER -> a],
   dirs |-> dirs, bad |-> refused]
Listings == {<<>>} \cup [{"d"} -> {<<>>, <<"b">>, <<"b", "l">>}]
FileInputs ==
  {[op |-> "files", fs |-> FileSystem(a, b, dirs, refused), named |-> n] :
     a \in UpTo(LinesOf("a"), 2), b \in UpTo(LinesOf("b"), 1), dirs \in Listings,
     refused \in {{}, {"b"}}, n \in BOOLEAN}

Client == <<"client">>
Sections == {Client, <<"client", "ver", <<1>>>>, <<"client", "ver", <<1, 2>>>>, <<"client", "dist", <<1>>>>}
Configs(sections, value) ==
  UNION {[{Opt!Default} \cup S -> UNION {[O -> {value}] : O \in SUBSET {"o", "p"}}] : S \in SUBSET sections}
CustomConfigs ==
  {c \in Configs({Client, <<"client", "ver", <<1>>>>}, "custom") : c[Opt!Default] = <<>>}
ConfigInputs ==
  {i \in [op : {"configs"}, default : Configs(Sections, "default"), custom : CustomConfigs] :
     Client \in DOMAIN i.default \cup DOMAIN i.custom}

\* Included lines are there once for each way to them, and the most specific section wins.
OptionFilesExact ==
  /\ input.op = "files" => Opt!InclusionIsExact(input.fs, "a", input.named)
  /\ input.op = "configs" => Opt!MostSpecificWins(input.default, input.custom, Client, <<1, 2>>, <<1>>)

-----------------------------------------------------------------------------
(* Schemas and documents: one literal field with every kind of length,     *)
(* modifier and validator; two groups of keys beside a literal; mappings   *)
(* in lists, with aliases and cycles.                                      *)

S(t) == [type |-> "str", text |-> t]
I(n) == [type |-> "int", value |-> n]
ListOf(s) == [type |-> "list", items |-> s]
Dict(s) == [type |-> "dict", fields |-> s]
Null == [type |-> "none"]
Texts == {S(<<>>), S(<<"a">>), S(<<"A">>), S(<<"1">>), S(<<"-", "1">>), S(<<"sup">>), S(<<"a", "1">>)}
Values == Texts \cup {I(0), I(2), [type |-> "bool", value |-> 1], Null, ListOf(<<>>), ListOf(<<S(<<"a">>), I(2)>>)}
Lowered == [v \in Texts |-> IF v = S(<<"A">>) THEN S(<<"a">>) ELSE v]
Schemas == INSTANCE Xys WITH
  Callbacks <- [n \in {"cb"} |-> {S(<<"a">>)}], Lists <- [n \in {<<"a">>} |-> {S(<<"1">>)}],
  Regexs <- [n \in {"re"} |-> {S(<<"a">>), S(<<"a", "1">>)}],
  Modifiers <- [n \in {"null", "empty"} |-> [v \in Values |-> IF n = "null" THEN Null ELSE S(<<>>)]],
  Methods <- [n \in {"lower"} |-> Lowered],
  Lower <- [c \in {"a", "A", "0", "1", "-", "sup"} |-> IF c = "A" THEN "a" ELSE c]

Key(n, m, l, mods) == [name |-> n, mark |-> m, length |-> l, modifiers |-> mods]
Node(c, v, args, m, o) == [kind |-> "node", content |-> c, validator |-> [name |-> v, args |-> args], mode |-> m, occurs |-> o]
Mapping(entries) == [kind |-> "dict", entries |-> entries]
Base == [str |-> [kind |-> "value", value |-> S(<<"a">>)], int |-> [kind |-> "value", value |-> I(0)],
         scalar |-> [kind |-> "scalar"], any |-> [kind |-> "any"], list |-> [kind |-> "list", items |-> <<"str">>],
         empty |-> [kind |-> "list", items |-> <<>>]]
Checks ==
  {Base.any, Base.list, Base.empty, Node("list", "seqlen", <<0, 1>>, "generic", <<>>),
   Node("int", "between", <<1, 3>>, "generic", <<>>), Node("int", "fixed", <<>>, "optional", <<>>),
   Node("scalar", "callback", <<"cb">>, "generic", <<>>), Node("scalar", "regex", <<"re">>, "generic", <<>>)}
  \cup {Node("str", v, <<<<"a">>, <<"1">>>>, "generic", <<>>) : v \in {"enum", "ienum"}}
  \cup {Node("str", v, <<>>, "optional", <<>>) : v \in {"fixed", "startswith", "prefixedDec", "isIn"}}
  \cup {Node("scalar", v, <<>>, "optional", <<>>) : v \in {"isBool", "isFloat", "digit", "uint"}}
Occurrences == {<<>>, <<0>>, <<1>>, <<0, 1>>, <<2, 2>>, <<0, 0>>, <<2, 1>>}
Groups == {Node("str", "regex", <<"re">>, "generic", o) : o \in Occurrences}
          \cup {Node("str", "startswith", <<>>, m, o) : m \in {"mandatory", "optional"}, o \in Occurrences}

Fields1 ==
  {[op |-> "xys", document |-> d,
    nodes |-> Base @@ [check |-> c, root |-> Mapping(<< <<Key(<<"a">>, m, l, mods), "check">> >>)]] :
     c \in Checks, m \in {"", "?", "*"}, l \in {<<>>, <<0>>, <<1, 1>>, <<2, 1>>},
     mods \in {<<>>, <<"lower", "null">>, <<"lower", "empty">>, <<"lower", "none">>},
     d \in {Dict(<< <<<<"a">>, v>> >>) : v \in Values} \cup {Dict(<<>>)}}
Named(t) == \A i, j \in DOMAIN t : i # j => t[i][1] # t[j][1]
Fields3 ==
  {[op |-> "xys", document |-> Dict(d),
    nodes |-> Base @@ [g |-> g, h |-> h, root |-> Mapping(<< <<[node |-> "g"], "int">>,
                         <<Key(n, m, <<>>, <<>>), "scalar">>, <<[node |-> "h"], "any">> >>)]] :
     g \in Groups, n \in {<<"a">>, <<"1">>}, m \in {"", "?"},
     h \in {Node("str", "regex", <<"re">>, "generic", <<0, 1>>), Node("str", "enum", <<<<"1">>>>, "generic", <<>>)},
     d \in {t \in UpTo({<<n, v>> : n \in {<<"a">>, <<"1">>, <<"a", "1">>}, v \in {I(2), S(<<"A">>)}}, 3) : Named(t)}}
Items == {Dict(<<>>), Dict(<< <<<<"a">>, S(<<"A">>)>> >>), Dict(<< <<<<"a">>, I(2)>> >>)}
Nested ==
  {[op |-> "xys", document |-> Dict(<< <<<<"a">>, ListOf(<<d, e>>)>>, <<<<"1">>, x>> >>),
    nodes |-> Base @@ [sub |-> Mapping(<< <<Key(<<"a">>, "?", <<>>, <<"lower">>), i>>, <<k, "any">> >>),
                       items |-> [kind |-> "list", items |-> l],
                       root |-> Mapping(<< <<Key(<<"a">>, "", <<>>, <<>>), "items">>, <<k, "str">> >>)]] :
     l \in {<<"sub">>, <<"sub", "sub">>, <<"sub", "root">>, <<"str", "int">>},
     i \in {"str", "sub", "root", "items", "list"}, x \in {I(2), S(<<"A">>)}, d \in Items, e \in Items,
     k \in {Key(<<"1">>, "?", <<>>, <<>>), Key(<<"a">>, "*", <<>>, <<>>)}}

\* A schema compiles when it is finite and unambiguous, and then decides of documents, and
\* changes them, field by field, whatever the order of the fields.
SchemasExact ==
  input.op = "xys" =>
    LET schema == Schemas!Compile(input.nodes, "root", {}) IN
    /\ Schemas!SchemaAsDescribed(input.nodes, "root")
    /\ schema.kind # "failed" => Schemas!DocumentAsDescribed(input.document, schema)

-----------------------------------------------------------------------------
(* URIs: "g" and "G" are the letters, "8" the digit.                       *)

UriChars == {"g", "G", "8", "-", ".", "~", "+", "!", "=", ",", "&", ":", "@", "/", "?", "#", "[", "]", " ", "%"}
Escaped == [c \in UriChars |-> "%" \o c]
DotDec == {<<"8", ".">>}
Literals6 == {<<":", ":">>}
LiteralsF == {<<"g">>}

Tree(s, a, p, q, f) == [scheme |-> s, authority |-> a, path |-> p, query |-> q, fragment |-> f]
Authorities ==
  [user : {<<>>, <<":">>, <<"@", "g">>}, passwd : {<<>>, <<":", "@">>, <<"/">>}, port : {<<>>, <<"8">>, <<"g">>},
   host : {<<>>, <<":">>, <<"8", ".">>, <<"[", ":", ":", "]">>, <<"g", "%">>, <<"[">>, <<"[", "g", "]">>}]
NoAuthority == Uris!NoAuthority
Queries == UpTo({<<k, v>> : k \in {<<>>, <<"+">>, <<"=">>, <<"&", " ">>},
                            v \in {<<>>, <<<<>>>>, <<<<"=", "+">>>>, <<<<"&">>>>, <<<<" ", "#">>>>}}, 2)

\* A "%" before two digits would be their escape
Signs(u) == \A i \in 1 .. Len(u) - 2 : SubSeq(u, i, i + 2) # <<"%", "8", "8">>

UriInputs ==
  [op : {"uri"}, uri : {u \in UpTo({"g", "8", ":", "/", "?", "#", "@", "&", "=", "%/", "%"}, 4) : Signs(u)}
     \cup {a \o b : a \in {<<"/", "/">>, <<"g", ":", "/", "/">>}, b \in UpTo({"8", "[", "]", ":", "@", "%:"}, 4)}]
  \cup {[op |-> "tree", host |-> h, tree |-> Tree(s, a, p, <<>>, <<>>)] :
          s \in {<<>>, <<"g">>, <<"8">>}, a \in Authorities, h \in {"name", "literal", "ipv4"},
          p \in {<<>>, <<"/", "/", ":">>, <<":", "/">>, <<"g">>}}
  \cup {[op |-> "tree", host |-> "name", tree |-> Tree(s, a, p, <<>>, <<>>)] :
          s \in {<<>>, <<"g">>}, a \in {NoAuthority, [NoAuthority EXCEPT !.port = <<"8">>]},
          p \in UpTo({"/", ":", "g", "%", "?"}, 3)}
  \cup {[op |-> "tree", host |-> "name", tree |-> Tree(<<>>, NoAuthority, <<>>, q, f)] :
          q \in Queries, f \in {<<>>} \cup {<<c>> : c \in UriChars}}

-----------------------------------------------------------------------------
(* Lines with variables, and streams in base 64.                           *)

VarNames == {<<"v">>, <<"}">>, <<"v", "}", "w">>, <<"{">>, <<"\\">>}
LineVariables == [n \in VarNames |-> <<"(">> \o n]
Blanks == {<< <<>>, 0>>}

Pieces ==
  [kind : {"char"}, char : {"v", "}"}] \cup [kind : {"escape"}, char : {"{", "}", "\\", "v"}]
  \cup [kind : {"brace"}, char : {"}", "v"}]
  \cup [kind : {"var"}, escaped : {{"\\", "}"}}, name : VarNames \cup {<<>>, <<"u">>, <<"v", "}">>, <<"}", "}">>}]
  \cup {[kind |-> "var", name |-> <<"v", "}", "w">>, escaped |-> {}]}
Bytes(n) == [i \in 1 .. n |-> IF i % 2 = 0 THEN "a" ELSE "b"]
\* Blanks before some symbols of a code, and the reads of a stream, none of them empty
Spaced(code, blank) ==
  FlattenSeq([i \in DOMAIN code |->
    IF i \in blank THEN <<CHOOSE b \in Blanks : TRUE, code[i]>> ELSE <<code[i]>>])
Cut(stream, cuts) ==
  LET ends == SetToSortSeq(cuts \cap 1 .. Len(stream) - 1, <) \o <<Len(stream)>>
  IN IF stream = <<>> THEN <<>>
     ELSE [i \in DOMAIN ends |-> SubSeq(stream, (IF i = 1 THEN 0 ELSE ends[i - 1]) + 1, ends[i])]
HelperInputs ==
  [op : {"line"}, pieces : UpTo(Pieces, 3)]
  \cup {[op |-> "base64", bytes |-> Bytes(n), size |-> c,
          reads |-> Cut(Spaced(Lib!EncodeFile(Bytes(n), c), blank), cuts)] :
          n \in 0 .. 7, c \in 3 .. 7, cuts \in SUBSET (1 .. 5), blank \in {{}, {1, 4, 6}}}

-----------------------------------------------------------------------------
(* The machines.                                                           *)

Chunk(n, l, t, size) == [name |-> n, path_len |-> l, type |-> t, payload_size |-> size]
Chunks == {Chunk("f", 1, "P", n) : n \in 0 .. 2}
          \cup {Chunk("f", 1, "E", 0), Chunk("g", 0, "P", 1), Chunk("g", 0, "E", 0), Chunk("g", 0, "?", 0)}
SmallArchives == UpTo(Chunks, 2)

LibraryInit ==
  /\ Stream!Init /\ Init
  /\ input \in {[op |-> o] : o \in {"none", "stream", "file"}}
  /\ input.op # "stream" => chunks = <<>>

Choose(inputs) == input.op = "none" /\ input' \in inputs /\ UNCHANGED streamVars /\ UNCHANGED vars

LibraryNext ==
  \/ Choose(PolicyInputs) \/ Choose(FileInputs) \/ Choose(ConfigInputs)
  \/ Choose(Fields1) \/ Choose(Fields3) \/ Choose(Nested)
  \/ Choose(UriInputs) \/ Choose(HelperInputs)
  \/ input.op = "stream" /\ Stream!Next /\ UNCHANGED input /\ UNCHANGED vars
  \/ input.op = "file" /\ Next /\ UNCHANGED input /\ UNCHANGED streamVars

LibrarySpec == LibraryInit /\ [][LibraryNext]_<<input, streamVars, vars>>
=============================================================================
