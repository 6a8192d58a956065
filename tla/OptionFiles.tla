---------------------------- MODULE OptionFiles ----------------------------
(***************************************************************************)
(* sonicprobe.libs.mysql_config_parser: option files that include others,  *)
(* and sections that override others for a version of the program.         *)
(*                                                                         *)
(* A line is [kind |-> "text", text |-> t], [kind |-> "include", path |->  *)
(* f], [kind |-> "includedir", path |-> d], or of kind "bad": a "!" that   *)
(* is followed by neither.                                                 *)
(* Operators marked "Variant" are not part of the model: each is a defect  *)
(* that a property is shown to detect.                                     *)
(***************************************************************************)
EXTENDS Integers, Sequences, SequencesExt, FiniteSets, Functions, TLC

CONSTANTS
  MaxDepth,    \* MAX_INCLUDE_DEPTH
  Real         \* os.path.realpath(): the file a path stands for

-----------------------------------------------------------------------------
(* MySQLConfigParserFilter.  A file system is [lines, dirs, bad]: the      *)
(* lines of each file that can be read, the sorted names of each directory *)
(* that can be listed, and the names that valid_filename() refuses.        *)

\* A ParsingError, or the OSError of os.listdir()
Failed == <<"raised">>
Then(a, b) == IF Failed \in {a, b} THEN Failed ELSE a \o b

\* A directive that raises: only a name that is given must be valid
Wrong(fs, line) ==
  \/ line.kind = "bad"
  \/ line.kind = "include" /\ line.path \in fs.bad
  \/ line.kind = "includedir" /\ line.path \notin DOMAIN fs.dirs

\* The files of another one
Paths(fs, line) ==
  IF line.kind = "include" THEN <<line.path>>
  ELSE SelectSeq(fs.dirs[line.path], LAMBDA f : f \notin fs.bad)

\* Variant: there is no end to the files below each other
RefusedOnlyAgain(path, named, active) == named /\ Real[path] \in ToSet(active)

\* __init__() of a file below the active ones; a stream without a name is not one
Refused(path, named, active) ==
  (named /\ Real[path] \in ToSet(active)) \/ Len(active) >= MaxDepth

\* _iter_lines()
RECURSIVE Lines(_, _, _, _)
Lines(fs, path, named, active) ==
  LET below == IF named THEN Append(active, Real[path]) ELSE active
      included(f) == IF f \in DOMAIN fs.lines THEN Lines(fs, f, TRUE, below) ELSE <<>>
      expand(line) ==
        IF line.kind = "text" THEN <<line.text>>
        ELSE IF Wrong(fs, line) THEN Failed
        ELSE FoldLeft(LAMBDA all, f : Then(all, included(f)), <<>>, Paths(fs, line))
  IN IF Refused(path, named, active) THEN Failed
     ELSE FoldLeft(LAMBDA all, line : Then(all, expand(line)), <<>>, fs.lines[path])

\* How many times a file names another, and the chains of files that name each the next
Times(fs, f, g) ==
  FoldLeft(LAMBDA n, line :
             IF line.kind = "text" \/ Wrong(fs, line) THEN n
             ELSE n + Len(SelectSeq(Paths(fs, line), LAMBDA p : p = g)),
           0, fs.lines[f])

Chains(fs, root) ==
  {c \in SeqOf(DOMAIN fs.lines, MaxDepth + 2) :
     /\ c # <<>> /\ c[1] = root
     /\ \A i \in 1 .. Len(c) - 1 : Times(fs, c[i], c[i + 1]) > 0}

\* Inclusion fails exactly when a chain comes back to a file, is too long, or ends at a
\* malformed directive; otherwise each file's lines are there once for each way to it.
InclusionIsExact(fs, root, named) ==
  LET chains == Chains(fs, root)
      first == IF named THEN 1 ELSE 2
      repeats(c) == \E i, j \in first .. Len(c) : i # j /\ Real[c[i]] = Real[c[j]]
      deep(c) == Len(c) - first >= MaxDepth
      wrong(c) == \E i \in DOMAIN fs.lines[Last(c)] : Wrong(fs, fs.lines[Last(c)][i])
      fails == \E c \in chains : repeats(c) \/ deep(c) \/ wrong(c)
      result == Lines(fs, root, named, <<>>)
      texts(lines) == {i \in DOMAIN lines : lines[i].kind = "text"}
      places == UNION {{<<c, i>> : i \in texts(fs.lines[Last(c)])} : c \in chains}
      ways(p) == FoldLeft(LAMBDA n, i : n * Times(fs, p[1][i], p[1][i + 1]), 1,
                          [i \in 1 .. Len(p[1]) - 1 |-> i])
  IN /\ fails <=> result = Failed
     /\ result # Failed =>
          \A t \in {fs.lines[Last(p[1])][p[2]].text : p \in places} \cup ToSet(result) :
            Cardinality({n \in DOMAIN result : result[n] = t}) =
              MapThenSumSet(ways, {p \in places : fs.lines[Last(p[1])][p[2]].text = t})

-----------------------------------------------------------------------------
(* MySQLConfigVersion.  A configuration maps its sections to functions     *)
(* from options to values; a section is <<name>> or, for [name=version],   *)
(* <<name, kind, parts>>, parts being a prefix of the version's.           *)

Over(f, g) == g @@ f    \* g wins

\* ConfigParser.read_file() of one file after another
Merge(f, g) ==
  [s \in DOMAIN f \cup DOMAIN g |->
     IF s \notin DOMAIN f THEN g[s] ELSE IF s \notin DOMAIN g THEN f[s] ELSE Over(f[s], g[s])]

Default == <<"DEFAULT">>

\* items() of a section has the options of [DEFAULT] as well
SetSpecific(cfg, section, special) ==
  IF special \notin DOMAIN cfg THEN cfg
  ELSE [cfg EXCEPT ![section] = Over(@, Over(cfg[Default], cfg[special]))]

\* Variant: only the whole version is looked for
CheckWholeVersion(cfg, section, kind, version) ==
  SetSpecific(cfg, section, <<section[1], kind, version>>)

\* _check_conf_versions(): the major version, then the minor one, and so on
CheckVersions(cfg, section, kind, version) ==
  FoldLeft(LAMBDA c, n : SetSpecific(c, section, <<section[1], kind, SubSeq(version, 1, n)>>),
           cfg, [i \in DOMAIN version |-> i])

GetConfig(default, custom, section, version, distrib) ==
  CheckVersions(CheckVersions(Merge(default, custom), section, "ver", version),
                section, "dist", distrib)

\* An option of the program has the value of the most specific section that gives it, the
\* distribution before the version before the section itself, the custom file before the
\* default one; a section for a version gives the options of [DEFAULT] too.
MostSpecificWins(default, custom, section, version, distrib) ==
  LET specials == [i \in 1 .. Len(distrib) |->
                     <<section[1], "dist", SubSeq(distrib, 1, Len(distrib) + 1 - i)>>]
                  \o [i \in 1 .. Len(version) |->
                       <<section[1], "ver", SubSeq(version, 1, Len(version) + 1 - i)>>]
      gives(file, s, o) == s \in DOMAIN file /\ o \in DOMAIN file[s]
      any(s) == s \in DOMAIN default \cup DOMAIN custom
      places == FlattenSeq([i \in DOMAIN specials |->
                  IF any(specials[i]) THEN <<specials[i], Default>> ELSE <<>>]) \o <<section>>
      options == UNION {DOMAIN default[s] : s \in DOMAIN default}
                 \cup UNION {DOMAIN custom[s] : s \in DOMAIN custom}
      value(o) == LET p == SelectInSeq(places, LAMBDA s : gives(default, s, o) \/ gives(custom, s, o))
                  IN IF p = 0 THEN <<>>
                     ELSE IF gives(custom, places[p], o) THEN <<custom[places[p]][o]>>
                     ELSE <<default[places[p]][o]>>
      result == GetConfig(default, custom, section, version, distrib)[section]
  IN \A o \in options : value(o) = IF o \in DOMAIN result THEN <<result[o]>> ELSE <<>>
=============================================================================
