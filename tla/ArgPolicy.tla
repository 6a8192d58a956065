------------------------------ MODULE ArgPolicy ------------------------------
(***************************************************************************)
(* sonicprobe.libs.argpolicy: policies over the arguments and the          *)
(* environment a client gives to a program.                                *)
(*                                                                         *)
(* An option name is <<dashes, letters>>.  An argument is a record of      *)
(* `name`, the part before "=", and `value`, the part after it or None;    *)
(* `kind` is "option", "cluster" for one dash and several letters, "end"   *)
(* for "--", or "plain", whose text is `value`: anything without a leading *)
(* dash, "-" and negative numbers.  A rule is a function on the fields it  *)
(* gives; nargs is the pair of the least count and of whether it is the    *)
(* greatest too: 2 is <<2, TRUE>> and "+" is <<1, FALSE>>.                 *)
(* Operators marked "Variant" are not part of the model: each is a defect  *)
(* that a property is shown to detect.                                     *)
(***************************************************************************)
EXTENDS Integers, Sequences, SequencesExt, FiniteSets

CONSTANTS
  None,
  Fate     \* what the regex engine makes of a value: "match", "no match" or "late"

MaxRules == 256
RuleFields == {"regex", "choices", "nargs", "repeatable"}
ValidName(name) == name[2] # ""

-----------------------------------------------------------------------------
(* Compiling a policy: its `kind` is "all" or "none", for a boolean, or    *)
(* "list", with pairs of a name and a rule as `entries`, which is what the *)
(* dict and the list notation both come to.                                *)

Listed(policy) == policy.kind = "list"

Normalize(name, options) ==
  IF options /\ name[1] = 0 THEN <<2, name[2]>> ELSE name

\* Variant: the name is compared as it is written
EntriesAsWritten(spec, options) ==
  /\ Len(spec) <= MaxRules
  /\ \A i \in DOMAIN spec : ValidName(spec[i][1])
  /\ IsInjective([i \in DOMAIN spec |-> spec[i][1]])

\* _entries(): names are valid and differ
EntriesOk(spec, options) ==
  /\ Len(spec) <= MaxRules
  /\ \A i \in DOMAIN spec : ValidName(spec[i][1])
  /\ IsInjective([i \in DOMAIN spec |-> Normalize(spec[i][1], options)])

Entries(spec, options) ==
  [name \in {Normalize(spec[i][1], options) : i \in DOMAIN spec} |->
     spec[CHOOSE i \in DOMAIN spec : Normalize(spec[i][1], options) = name][2]]

Field(rule, f, default) == IF f \in DOMAIN rule THEN rule[f] ELSE default
Nargs(rule) == Field(rule, "nargs", <<1, TRUE>>)
Repeatable(rule) == Field(rule, "repeatable", FALSE)

\* _Rule()
RuleOk(rule, arguments) ==
  /\ DOMAIN rule \subseteq RuleFields
  /\ arguments \/ DOMAIN rule \cap {"nargs", "repeatable"} = {}
  /\ Nargs(rule) \in ((0 .. MaxRules) \X {TRUE}) \cup {<<0, FALSE>>, <<1, FALSE>>}
  /\ Field(rule, "choices", {None}) # {}
  /\ Nargs(rule) = <<0, TRUE>> => DOMAIN rule \cap {"regex", "choices"} = {}

\* A disallow policy takes names alone
Compiles(allow, disallow, options) ==
  /\ EntriesOk(allow.entries, options) /\ EntriesOk(disallow.entries, options)
  /\ \A i \in DOMAIN allow.entries : RuleOk(allow.entries[i][2], options)

\* The engine has a deadline; in Python 2 it runs in a process that is killed
Fullmatch(value) == Fate[value] = "match"

ValueOk(rule, value) ==
  /\ "choices" \in DOMAIN rule => value \in rule["choices"]
  /\ "regex" \in DOMAIN rule => Fullmatch(value)

-----------------------------------------------------------------------------
(* ArgsPolicy.validate() and EnvPolicy.validate().                         *)

Option(arg) == arg.kind # "plain"

\* disallow is true: not False, and not empty
Excepts(disallow) == disallow.kind = "all" \/ disallow.entries # <<>>

Denied(name, disallow, options) ==
  \/ disallow.kind = "all"
  \/ Listed(disallow) /\ name \in DOMAIN Entries(disallow.entries, options)

\* allow=True: only exact options can be denied, and only before "--"
Scan(args, disallow) ==
  LET scan[k \in 0 .. Len(args)] ==
        IF k = 0 THEN "scanning"
        ELSE IF scan[k - 1] # "scanning" THEN scan[k - 1]
        ELSE IF args[k].kind = "end" THEN "done"
        ELSE IF /\ Option(args[k])
                /\ \/ Denied(args[k].name, disallow, TRUE)
                   \/ Excepts(disallow) /\ args[k].kind = "cluster"
             THEN "forbidden" ELSE "scanning"
  IN scan[Len(args)]

\* How many arguments from i on become values of an option that has `attached` already:
\* the inner loop, which takes one of them in each of its rounds
Taken(args, i, attached, nargs) ==
  LET taken[m \in 0 .. Len(args)] ==
        IF m = 0 THEN 0
        ELSE LET n == taken[m - 1] IN
             IF /\ nargs[2] => attached + n < nargs[1]
                /\ i + n <= Len(args) /\ ~Option(args[i + n])
             THEN n + 1 ELSE n
  IN taken[Len(args)]

Attached(arg) == IF arg.value = None THEN <<>> ELSE <<arg.value>>
Values(args, i, n) == Attached(args[i]) \o [j \in 1 .. n |-> args[i + j].value]

\* Whether the option at i may stand there, with the n values that follow it
Allowed(args, i, n, seen, rules, disallow) ==
  LET name == args[i].name values == Values(args, i, n) IN
  /\ name \in DOMAIN rules /\ ~Denied(name, disallow, TRUE)
  /\ name \in seen => Repeatable(rules[name])
  /\ Len(values) >= Nargs(rules[name])[1]
  /\ Nargs(rules[name])[2] => Len(values) = Nargs(rules[name])[1]
  /\ \A j \in DOMAIN values : ValueOk(rules[name], values[j])

TakenAt(args, i, rules) ==
  IF args[i].name \in DOMAIN rules
  THEN Taken(args, i + 1, Len(Attached(args[i])), Nargs(rules[args[i].name])) ELSE 0

\* Variant: an option seen before is looked for among its immediate predecessors
RoundForgetful(s, args, rules, disallow) ==
  LET n == TakenAt(args, s.index, rules) IN
  IF ~s.ok \/ s.index > Len(args) THEN s
  ELSE IF Allowed(args, s.index, n, s.seen, rules, disallow)
  THEN [index |-> s.index + 1 + n, seen |-> {args[s.index].name}, ok |-> TRUE]
  ELSE [s EXCEPT !.ok = FALSE]

\* The outer loop: one option and its values; a name that is not allowed ends the matter
Round(s, args, rules, disallow) ==
  LET n == TakenAt(args, s.index, rules) IN
  IF ~s.ok \/ s.index > Len(args) THEN s
  ELSE IF Allowed(args, s.index, n, s.seen, rules, disallow)
  THEN [index |-> s.index + 1 + n, seen |-> s.seen \cup {args[s.index].name}, ok |-> TRUE]
  ELSE [s EXCEPT !.ok = FALSE]

\* Every round consumes an argument, so that there are no more rounds than arguments
Parse(args, rules, disallow) ==
  LET after[k \in 0 .. Len(args)] ==
        IF k = 0 THEN [index |-> 1, seen |-> {}, ok |-> TRUE]
        ELSE Round(after[k - 1], args, rules, disallow)
  IN after[Len(args)].ok

ValidateArgs(args, allow, disallow) ==
  /\ args # <<>> => allow.kind # "none" /\ disallow.kind # "all"
  /\ allow.kind = "all" => Scan(args, disallow) # "forbidden"
  /\ Listed(allow) => Parse(args, Entries(allow.entries, TRUE), disallow)

\* env is a function from names to values
ValidateEnv(env, allow, disallow) ==
  \A name \in DOMAIN env :
    /\ ValidName(name)
    /\ allow.kind # "none" /\ ~Denied(name, disallow, FALSE)
    /\ Listed(allow) => /\ name \in DOMAIN Entries(allow.entries, FALSE)
                        /\ ValueOk(Entries(allow.entries, FALSE)[name], env[name])

-----------------------------------------------------------------------------
(* What the documentation of a policy says, of the entries as written.     *)

\* The one entry for a name, if there is one
EntriesFor(name, policy, options) ==
  {i \in DOMAIN policy.entries : Normalize(policy.entries[i][1], options) = name}

Excluded(name, disallow, options) ==
  disallow.kind = "all" \/ (Listed(disallow) /\ EntriesFor(name, disallow, options) # {})

Fits(entry, values) ==
  /\ \/ Len(values) = Nargs(entry[2])[1]
     \/ Len(values) > Nargs(entry[2])[1] /\ ~Nargs(entry[2])[2]
  /\ \A i \in DOMAIN values : ValueOk(entry[2], values[i])

\* Arguments are groups, each of an option and what follows it up to the next one
Group(args, i) == {j \in DOMAIN args : j > i /\ \A k \in (i + 1) .. j : ~Option(args[k])}

Stands(args, i, allow, disallow) ==
  /\ ~Excluded(args[i].name, disallow, TRUE)
  /\ \E e \in EntriesFor(args[i].name, allow, TRUE) :
       /\ Fits(allow.entries[e], Values(args, i, Cardinality(Group(args, i))))
       /\ Repeatable(allow.entries[e][2])
          \/ \A j \in DOMAIN args \ {i} : Option(args[j]) => args[j].name # args[i].name

Legal(args, allow, disallow) ==
  /\ args # <<>> => Option(args[1])
  /\ \A i \in DOMAIN args : Option(args[i]) => Stands(args, i, allow, disallow)

\* Without a grammar, what stands before "--"
Undenied(args, disallow) ==
  \A i \in DOMAIN args :
    (Option(args[i]) /\ \A j \in 1 .. i : args[j].kind # "end") =>
      /\ ~Excluded(args[i].name, disallow, TRUE)
      /\ args[i].kind # "cluster" \/ ~Excepts(disallow)

\* A policy that compiles accepts the arguments its entries describe and no other.
ArgsAsDescribed(args, allow, disallow) ==
  Compiles(allow, disallow, TRUE) =>
    (ValidateArgs(args, allow, disallow) <=>
       \/ args = <<>>
       \/ allow.kind = "all" /\ disallow.kind # "all" /\ Undenied(args, disallow)
       \/ Listed(allow) /\ disallow.kind # "all" /\ Legal(args, allow, disallow))

\* The same of an environment, in which a rule names exactly one value.
EnvAsDescribed(env, allow, disallow) ==
  Compiles(allow, disallow, FALSE) =>
    (ValidateEnv(env, allow, disallow) <=>
       \A name \in DOMAIN env :
         /\ ValidName(name) /\ ~Excluded(name, disallow, FALSE) /\ allow.kind # "none"
         /\ Listed(allow) =>
              \E e \in EntriesFor(name, allow, FALSE) : Fits(allow.entries[e], <<env[name]>>))
=============================================================================
