-------------------------------- MODULE Xys --------------------------------
(***************************************************************************)
(* sonicprobe.libs.xys: compiles schemas, and validates documents, which   *)
(* it changes in place.                                                    *)
(*                                                                         *)
(* A document is a record: of `text`, a sequence of characters, of         *)
(* `value`, a number or, with type "bool", 0 or 1, of `items`, a sequence, *)
(* or of `fields`, a sequence of pairs of a text and a document.           *)
(* A schema as written is a graph, for a YAML alias shares a node: a       *)
(* function from names to nodes, whose kind is "value", "any", "scalar",   *)
(* "list", "dict" or "node", the last for a content with a validator.  The *)
(* length [n], [m,n], *, + or ? of a field is <<>>, <<least>> or           *)
(* <<least, greatest>>, and so are the occurrences (n) or (m,n) of a       *)
(* validator.  A list of several schemas has mappings only.                *)
(* Operators marked "Variant" are not part of the model: each is a defect  *)
(* that a property is shown to detect.                                     *)
(***************************************************************************)
EXTENDS Integers, Sequences, SequencesExt, FiniteSets

CONSTANTS
  Callbacks, Lists, Regexs,    \* _callbacks, _lists, _regexs: names to the documents they accept
  Modifiers, Methods,          \* names of modifiers and of methods to functions on documents
  Lower                        \* str.lower() of a character

Null    == [type |-> "none"]
Str(t)  == [type |-> "str", text |-> t]
Failed  == [kind |-> "failed"]
Digits  == <<"0", "1", "2">>
\* A superscript digit: isdigit() holds of it, int() does not take it
Unicode == "sup"

-----------------------------------------------------------------------------
(* Compiling: ConstructorValidatorNode, _qualify_map() and _transschema(). *)

\* The greatest of <<>>, <<least>> or <<least, greatest>>, if there is one
Most(bounds) == IF Len(bounds) = 2 THEN <<bounds[2]>> ELSE <<>>

\* Variant: the bounds are kept as they are written
BoundsAsWritten(node) ==
  [kind |-> "node", validator |-> node.validator, mode |-> node.mode,
   least |-> IF node.occurs = <<>> THEN (IF node.mode = "mandatory" THEN 1 ELSE 0) ELSE node.occurs[1],
   most |-> Most(node.occurs)]

\* An optional validator that must occur is a mandatory one, which occurs once at least
Bounds(node) ==
  LET written == IF node.occurs = <<>> THEN (IF node.mode = "mandatory" THEN 1 ELSE 0)
                 ELSE node.occurs[1]
  IN [kind |-> "node", validator |-> node.validator,
      mode |-> IF node.mode = "optional" /\ written > 0 THEN "mandatory" ELSE node.mode,
      least |-> IF node.mode = "mandatory" /\ written < 1 THEN 1 ELSE written,
      most |-> Most(node.occurs)]

Reversed(least, most) == most # <<>> /\ least > most[1]

\* The same key twice: by its name alone, or a validator that is not parameterized
SameKey(k, l) ==
  IF k.kind = "literal" \/ l.kind = "literal" THEN k.kind = l.kind /\ k.name = l.name
  ELSE k = l /\ k.validator.args = <<>>

RECURSIVE Compile(_, _, _)
Compile(nodes, id, active) ==
  LET node == nodes[id]
      sub(i) == Compile(nodes, i, active \cup {id})
      literal(key) == [kind |-> "literal", name |-> key.name]
      rule(key, content) == [mark |-> key.mark, length |-> key.length,
                             modifiers |-> key.modifiers, content |-> content]
      entry(e) == IF "node" \in DOMAIN e[1] THEN <<sub(e[1].node), sub(e[2])>>
                  ELSE <<literal(e[1]), rule(e[1], sub(e[2]))>>
      badLength(e) == /\ "name" \in DOMAIN e[1] /\ e[1].length # <<>>
                      /\ Reversed(e[1].length[1], Most(e[1].length))
      content(e) == IF "content" \in DOMAIN e /\ "mark" \in DOMAIN e THEN e.content ELSE e
  IN IF id \in active THEN Failed
     ELSE CASE node.kind = "node" ->
                 LET c == sub(node.content) b == Bounds(node) IN
                 IF c = Failed \/ Reversed(b.least, b.most) THEN Failed
                 ELSE [kind |-> "node", content |-> c, validator |-> b.validator,
                       mode |-> b.mode, least |-> b.least, most |-> b.most]
            [] node.kind = "list" ->
                 LET items == [i \in DOMAIN node.items |-> sub(node.items[i])] IN
                 IF Failed \in ToSet(items) THEN Failed ELSE [kind |-> "list", items |-> items]
            [] node.kind = "dict" ->
                 LET es == [i \in DOMAIN node.entries |-> entry(node.entries[i])] IN
                 IF \/ \E i \in DOMAIN es : badLength(node.entries[i])
                    \/ \E i \in DOMAIN es : es[i][1] = Failed \/ content(es[i][2]) = Failed
                    \/ \E i, j \in DOMAIN es : i # j /\ SameKey(es[i][1], es[j][1])
                 THEN Failed ELSE [kind |-> "dict", entries |-> es]
            [] OTHER -> node

-----------------------------------------------------------------------------
(* The built-in validators.                                                *)

IsDigit(t)   == t # <<>> /\ \A i \in DOMAIN t : t[i] \in ToSet(Digits) \cup {Unicode}
IsDecimal(t) == t # <<>> /\ \A i \in DOMAIN t : t[i] \in ToSet(Digits)
Number(t)    == FoldLeft(LAMBDA n, c : 10 * n + SelectInSeq(Digits, LAMBDA d : d = c) - 1, 0, t)
Unsigned(t)  == IF t # <<>> /\ t[1] \in {"+", "-"} THEN Tail(t) ELSE t
LowerText(t) == [i \in DOMAIN t |-> Lower[t[i]]]
IsScalar(d)  == d.type \in {"str", "bool", "int"}

UintOf(d) == IF d.type = "str" THEN IF IsDecimal(d.text) THEN Number(d.text) ELSE 0 ELSE d.value

\* callback, isIn and regex find what is registered under a name, or under the schema
Registered(registry, v, d, content) ==
  LET name == IF v.args = <<>> THEN content.value.text ELSE v.args[1] IN
  name \in DOMAIN registry /\ d \in registry[name]

Check(v, d, content) ==
  CASE v.name = "seqlen"      -> v.args[1] <= Len(d.items) /\ Len(d.items) <= v.args[2]
    [] v.name = "between"     -> v.args[1] <= d.value /\ d.value <= v.args[2]
    [] v.name = "enum"        -> d.text \in ToSet(v.args)
    [] v.name = "ienum"       -> LowerText(d.text) \in {LowerText(a) : a \in ToSet(v.args)}
    [] v.name = "fixed"       -> d = content.value
    [] v.name = "startswith"  -> IsPrefix(content.value.text, d.text)
    [] v.name = "prefixedDec" -> /\ IsPrefix(content.value.text, d.text)
                                 /\ IsDecimal(Unsigned(SubSeq(d.text, Len(content.value.text) + 1, Len(d.text))))
    [] v.name = "isBool"      -> IF d.type = "str" THEN d.text \in {<<"0">>, <<"1">>} ELSE d.value \in {0, 1}
    [] v.name = "isFloat"     -> d.type # "str" \/ IsDecimal(Unsigned(d.text))
    [] v.name = "digit"       -> \/ d.type = "int" /\ d.value >= 0
                                 \/ d.type = "str" /\ IsDigit(d.text)
    [] v.name = "uint"        -> UintOf(d) > 0
    [] v.name = "callback"    -> Registered(Callbacks, v, d, content)
    [] v.name = "isIn"        -> Registered(Lists, v, d, content)
    [] v.name = "regex"       -> Registered(Regexs, v, d, content)

-----------------------------------------------------------------------------
(* validate().  The outcome is whether the document is valid, and what     *)
(* has become of it.                                                       *)

Outcome(ok, d) == [ok |-> ok, document |-> d]

\* A registered modifier, or a method that the value has, or nothing
Modified(value, name) ==
  IF name \in DOMAIN Modifiers THEN Modifiers[name][value]
  ELSE IF name \in DOMAIN Methods /\ value.type = "str" THEN Methods[name][value]
  ELSE value

Apply(value, modifiers) == FoldLeft(Modified, value, modifiers)

ValidLen(d, length) ==
  length = <<>> \/ LET n == IF "text" \in DOMAIN d THEN Len(d.text)
                            ELSE IF "items" \in DOMAIN d THEN Len(d.items)
                            ELSE IF "fields" \in DOMAIN d THEN Len(d.fields) ELSE -1
                   IN n >= length[1] /\ (Len(length) = 2 => n <= length[2])

\* null for a nullable field, and '' for an optional one of no least length, pass at once
Waived(d, rule) ==
  \/ rule.mark = "*" /\ d = Null
  \/ rule.mark \in {"?", "*"} /\ d = Str(<<>>) /\ rule.length # <<>> /\ rule.length[1] = 0

\* The entries of a mapping in the order in which they take their fields
Mandatory(e) == IF e[1].kind = "node" THEN e[1].mode = "mandatory" ELSE e[2].mark \notin {"?", "*"}
Ranked(schema) ==
  SelectSeq(schema.entries, Mandatory)
  \o SelectSeq(schema.entries, LAMBDA e : ~Mandatory(e) /\ e[1].kind = "node")
Optionals(schema) == SelectSeq(schema.entries, LAMBDA e : ~Mandatory(e) /\ e[1].kind = "literal")

\* Mappings listed together are one, in which the later entry for a key wins
Same(all, i) == {j \in DOMAIN all : SameKey(all[i][1], all[j][1])}
LastWins(all, firsts) ==
  [n \in DOMAIN firsts |-> <<all[firsts[n]][1], all[Max(Same(all, firsts[n]))][2]>>]
MergedEntries(all) ==
  LastWins(all, SelectSeq([i \in DOMAIN all |-> i], LAMBDA i : i = Min(Same(all, i))))
Merged(items) ==
  IF Len(items) = 1 \/ items[1].kind # "dict" THEN items[1]
  ELSE [kind |-> "dict",
        entries |-> MergedEntries(FlattenSeq([i \in DOMAIN items |-> items[i].entries]))]

RECURSIVE Validate(_, _)

\* Variant: a value that a modifier emptied is not looked at again
ValidateFieldOnce(value, rule) ==
  IF "mark" \notin DOMAIN rule THEN Validate(value, rule)
  ELSE LET modified == Apply(value, rule.modifiers) IN
       IF Waived(value, rule) THEN Outcome(TRUE, value)
       ELSE IF ~ValidLen(modified, rule.length) THEN Outcome(FALSE, modified)
       ELSE Validate(modified, rule.content)

ValidateField(value, rule) ==
  IF "mark" \notin DOMAIN rule THEN Validate(value, rule)
  ELSE LET modified == Apply(value, rule.modifiers) IN
       IF Waived(value, rule) THEN Outcome(TRUE, value)
       ELSE IF Waived(modified, rule) THEN Outcome(TRUE, modified)
       ELSE IF ~ValidLen(modified, rule.length) THEN Outcome(FALSE, modified)
       ELSE Validate(modified, rule.content)

Takes(key, name) == IF key.kind = "literal" THEN key.name = name ELSE Validate(Str(name), key).ok

\* One entry of a mapping takes its fields out of those that remain, up to the first
\* that is not valid; a literal key takes its only field
TakeField(s, i, entry) ==
  IF ~s.ok \/ i \notin s.remaining \/ ~Takes(entry[1], s.fields[i][1]) THEN s
  ELSE LET r == ValidateField(s.fields[i][2], entry[2]) IN
       [ok |-> r.ok, fields |-> [s.fields EXCEPT ![i][2] = r.document],
        remaining |-> s.remaining \ {i}]

Enough(entry, count) ==
  IF entry[1].kind = "literal" THEN count = 1
  ELSE /\ count >= entry[1].least /\ (Mandatory(entry) => count >= 1)
       /\ entry[1].most # <<>> => count <= entry[1].most[1]

Counted(state, last, entry) ==
  [last EXCEPT !.ok = @ /\ Enough(entry, Cardinality(state.remaining \ last.remaining))]

TakeFields(state, entry) ==
  IF ~state.ok THEN state
  ELSE Counted(state, FoldLeft(LAMBDA s, i : TakeField(s, i, entry), state,
                               [i \in DOMAIN state.fields |-> i]), entry)

\* What remains must be optional
TakeOptional(schema, state, i) ==
  LET for == SelectSeq(Optionals(schema), LAMBDA e : e[1].name = state.fields[i][1]) IN
  IF ~state.ok \/ i \notin state.remaining THEN state
  ELSE IF for = <<>> THEN [state EXCEPT !.ok = FALSE]
  ELSE LET r == ValidateField(state.fields[i][2], for[1][2]) IN
       [state EXCEPT !.ok = r.ok, !.fields[i][2] = r.document]

DictOutcome(d, last) == Outcome(last.ok, [d EXCEPT !.fields = last.fields])

ValidateDict(d, schema) ==
  LET taken == FoldLeft(TakeFields, [ok |-> TRUE, fields |-> d.fields, remaining |-> DOMAIN d.fields],
                        Ranked(schema))
  IN DictOutcome(d, FoldLeft(LAMBDA s, i : TakeOptional(schema, s, i), taken, [i \in DOMAIN d.fields |-> i]))

ItemOutcome(s, r) == Outcome(r.ok, Append(s.document, r.document))
ListOutcome(d, all) == Outcome(all.ok, [d EXCEPT !.items = all.document])

ValidateItems(d, schema) ==
  LET item(s, x) == IF s.ok THEN ItemOutcome(s, Validate(x, schema))
                    ELSE Outcome(FALSE, Append(s.document, x))
  IN ListOutcome(d, FoldLeft(item, Outcome(TRUE, <<>>), d.items))

ValidateList(d, schema) ==
  IF schema.items = <<>> THEN Outcome(d.items = <<>>, d) ELSE ValidateItems(d, Merged(schema.items))

Checked(r, schema) ==
  IF r.ok THEN Outcome(Check(schema.validator, r.document, schema.content), r.document) ELSE r

Validate(d, schema) ==
  CASE schema.kind = "node"   -> Checked(Validate(d, schema.content), schema)
    [] schema.kind = "dict"   -> IF d.type = "dict" THEN ValidateDict(d, schema) ELSE Outcome(FALSE, d)
    [] schema.kind = "list"   -> IF d.type = "list" THEN ValidateList(d, schema) ELSE Outcome(FALSE, d)
    [] schema.kind = "any"    -> Outcome(TRUE, d)
    [] schema.kind = "scalar" -> Outcome(IsScalar(d), d)
    [] schema.kind = "value"  -> Outcome(schema.value.type = d.type, d)

-----------------------------------------------------------------------------
(* What docs/xys.md says of schemas and documents.                         *)

Uses(node) ==
  CASE node.kind = "node" -> {node.content}
    [] node.kind = "list" -> ToSet(node.items)
    [] node.kind = "dict" -> UNION {{e[2]} \cup (IF "node" \in DOMAIN e[1] THEN {e[1].node} ELSE {}) :
                                    e \in ToSet(node.entries)}
    [] OTHER -> {}

RECURSIVE Below(_, _)
Below(nodes, ids) ==
  LET more == ids \cup UNION {Uses(nodes[i]) : i \in ids} IN
  IF more = ids THEN ids ELSE Below(nodes, more)

\* A schema compiles exactly when nothing in it contains itself, no bounds are reversed,
\* be it through the "+" of a validator, and no name is given twice, whatever its marks.
SchemaAsDescribed(nodes, root) ==
  LET cyclic(i) == i \in Below(nodes, Uses(nodes[i]))
      impossible(node) ==
        node.kind = "node" /\ \A n \in 0 .. 3 :
          \/ node.mode = "mandatory" /\ n < 1
          \/ node.occurs # <<>> /\ ~(n >= node.occurs[1] /\ (Len(node.occurs) = 2 => n <= node.occurs[2]))
      twice(node) ==
        node.kind = "dict" /\ \E i, j \in DOMAIN node.entries :
          LET k == node.entries[i][1] l == node.entries[j][1] IN
          i # j /\ "name" \in DOMAIN k /\ "name" \in DOMAIN l /\ k.name = l.name
      reversed(node) ==
        node.kind = "dict" /\ \E i \in DOMAIN node.entries :
          LET k == node.entries[i][1] IN
          "name" \in DOMAIN k /\ Len(k.length) = 2 /\ k.length[1] > k.length[2]
  IN (Compile(nodes, root, {}) # Failed) <=>
       \A i \in Below(nodes, {root}) : ~(cyclic(i) \/ impossible(nodes[i]) \/ twice(nodes[i]) \/ reversed(nodes[i]))

\* The document with the modifiers of each field applied once
RECURSIVE Valid(_, _), Normal(_, _)

FieldValid(d, rule) ==
  IF "mark" \notin DOMAIN rule THEN Valid(d, rule)
  ELSE \/ Waived(d, rule) \/ Waived(Apply(d, rule.modifiers), rule)
       \/ ValidLen(Apply(d, rule.modifiers), rule.length) /\ Valid(Apply(d, rule.modifiers), rule.content)

FieldNormal(d, rule) ==
  IF "mark" \notin DOMAIN rule THEN Normal(d, rule)
  ELSE IF Waived(d, rule) THEN d
  ELSE IF Waived(Apply(d, rule.modifiers), rule) THEN Apply(d, rule.modifiers)
  ELSE Normal(Apply(d, rule.modifiers), rule.content)

\* The entry that governs a field: the first that takes it
Accepts(e, name) == IF e[1].kind = "literal" THEN e[1].name = name ELSE Valid(Str(name), e[1])
Governor(schema, name) ==
  LET order == Ranked(schema) \o Optionals(schema) IN SelectInSeq(order, LAMBDA e : Accepts(e, name))

Valid(d, schema) ==
  CASE schema.kind = "node" -> Valid(d, schema.content) /\ Check(schema.validator, Normal(d, schema.content), schema.content)
    [] schema.kind = "list" -> d.type = "list" /\ \A i \in DOMAIN d.items :
                                 schema.items # <<>> /\ Valid(d.items[i], Merged(schema.items))
    [] schema.kind = "dict" ->
         LET order == Ranked(schema) \o Optionals(schema)
             governed(n) == {i \in DOMAIN d.fields : Governor(schema, d.fields[i][1]) = n}
         IN /\ d.type = "dict"
            /\ governed(0) = {}
            /\ \A n \in DOMAIN order :
                 /\ \A i \in governed(n) : FieldValid(d.fields[i][2], order[n][2])
                 /\ Mandatory(order[n]) => governed(n) # {}
                 /\ order[n][1].kind = "node" =>
                      /\ Cardinality(governed(n)) >= order[n][1].least
                      /\ order[n][1].most # <<>> => Cardinality(governed(n)) <= order[n][1].most[1]
    [] schema.kind = "any"    -> TRUE
    [] schema.kind = "scalar" -> IsScalar(d)
    [] schema.kind = "value"  -> schema.value.type = d.type

Normal(d, schema) ==
  CASE schema.kind = "node" -> Normal(d, schema.content)
    [] schema.kind = "list" /\ d.type = "list" /\ schema.items # <<>> ->
         [d EXCEPT !.items = [i \in DOMAIN @ |-> Normal(@[i], Merged(schema.items))]]
    [] schema.kind = "dict" /\ d.type = "dict" ->
         LET order == Ranked(schema) \o Optionals(schema)
             normal(f) == LET n == Governor(schema, f[1]) IN
                          IF n = 0 THEN f ELSE <<f[1], FieldNormal(f[2], order[n][2])>>
         IN [d EXCEPT !.fields = [i \in DOMAIN @ |-> normal(@[i])]]
    [] OTHER -> d

\* A document is valid exactly when each field is governed by an entry and valid for it, in
\* whatever order the fields come, and every entry has as many as it must; it then has all
\* modifiers applied, once.  Otherwise each field has them or is as it was, but one at most.
Agrees(d, schema, r, normal) ==
  /\ r.ok <=> Valid(d, schema)
  /\ r.ok => r.document = normal
  /\ (d.type = "dict" /\ schema.kind = "dict") =>
       Cardinality({i \in DOMAIN d.fields : r.document.fields[i] \notin {d.fields[i], normal.fields[i]}}) <= 1
DocumentAsDescribed(d, schema) == Agrees(d, schema, Validate(d, schema), Normal(d, schema))
=============================================================================
