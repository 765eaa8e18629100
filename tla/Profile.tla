------------------------------ MODULE Profile ------------------------------
(***************************************************************************)
(* service/profile: Parse fills a configuration structure from four        *)
(* sources, one after the other: the BeforeParse hooks of its fields, the  *)
(* toml file, the environment, the AfterParse hooks.                       *)
(*                                                                         *)
(* The structure is known by its fields in the order of their declaration, *)
(* which is the order parseInit0, parseEnv0 and parseDefault0 walk it in:  *)
(* a section before its fields. A field is known by its path, the toml     *)
(* tags down to it, and its kind. A value is known by where it is from.    *)
(*                                                                         *)
(* The overrides of the environment reach the structure as a toml text     *)
(* that folderToText writes: a table for each section, under the LAST tag  *)
(* of its path. The toml library is external: it refuses a text that has a *)
(* name twice, ignores a table or key the structure does not have, and     *)
(* stops at the first value that does not fit, in no particular order. It  *)
(* looks a name up as it is written and, failing that, in any case.        *)
(*                                                                         *)
(* A leaf is a field of one value, not a map nor a pointer to a structure, *)
(* and the name of a Go field, which the library calls a field of an empty *)
(* tag by, is no other field's tag in any case.                            *)
(***************************************************************************)
EXTENDS Integers, Sequences

CONSTANTS
    Schemas,    \* the configuration structures: sequences of fields
    Tags,       \* the tags of their fields
    UnTitle,    \* unTitle: a tag with its first letter in lower case
    Fold        \* a tag in one case: two tags are equal up to it if these are

Skip == "-"     \* the tag of a field that is left out
NoTag == ""     \* a tag of options only, as in ",omitempty"

(* An "opaque" field is one whose address or value reflection does not give *)
(* away: what an interface holds, or an unexported field.                   *)
Kinds == {"section", "leaf", "opaque"}
Fields == [path : Seq(Tags) \ {<<>>}, kind : Kinds]

(* A field is in a section of the structure, which has its tag to itself    *)
(* unless it is left out; unTitle and folding leave the two tags of a       *)
(* special meaning alone and turn no other tag into them.                   *)
ASSUME SchemasAssumption ==
    /\ Schemas \subseteq Seq(Fields)
    /\ \A sc \in Schemas : \A i \in 1 .. Len(sc) : Len(sc[i].path) > 1 =>
        \E s \in 1 .. Len(sc) :
            /\ sc[s].kind = "section"
            /\ sc[s].path = SubSeq(sc[i].path, 1, Len(sc[i].path) - 1)
    /\ \A sc \in Schemas : \A s, i \in 1 .. Len(sc) :
        (s # i /\ sc[s].kind = "section" /\ sc[s].path = sc[i].path) =>
            \E k \in 1 .. Len(sc[s].path) : sc[s].path[k] \in {Skip, NoTag}
ASSUME UnTitleAssumption ==
    /\ UnTitle \in [Tags -> Tags]
    /\ \A t \in Tags : UnTitle[t] \in {Skip, NoTag} <=> t \in {Skip, NoTag}
ASSUME FoldAssumption ==
    /\ Fold \in [Tags -> Tags]
    /\ \A t \in Tags : Fold[UnTitle[t]] = Fold[t]
    /\ \A t \in Tags : Fold[t] \in {Skip, NoTag} <=> t \in {Skip, NoTag}

(* A "raw" text has a quote or a line end in it: it is written as it is, so  *)
(* it may be more than the one value.                                       *)
Texts == {"unset", "good", "malformed", "misfit", "raw"}
Sources == {"zero", "before", "file", "env", "after"}

VARIABLES
    schema,     \* the structure that is filled
    file,       \* the leaves the toml file has a value for
    env,        \* the environment: what each leaf finds under its name
    stage,      \* where Parse is
    pos,        \* the field that the walk is at
    meta,       \* parseStatus.meta: the routes the walk has met
    value       \* the value of each leaf: its source, and whose it was

inputs == <<schema, file, env>>
vars == <<inputs, stage, pos, meta, value>>

----------------------------------------------------------------------------
(* The structure. *)

Path(i) == schema[i].path
Depth(i) == Len(Path(i))
Tag(i) == Path(i)[Depth(i)]
Positions == 1 .. Len(schema)
Leaves == {i \in Positions : schema[i].kind = "leaf"}
Sections == {i \in Positions : schema[i].kind = "section"}

(* A section tagged "-" is visited, what is in it is not. *)
Reached(i) == \A k \in 1 .. Depth(i) - 1 : Path(i)[k] # Skip

(* The leaves a hook of field i may set: its own. *)
Under(i) ==
    {j \in Leaves :
        j >= i /\ Depth(j) >= Depth(i) /\ SubSeq(Path(j), 1, Depth(i)) = Path(i)}

(* The toml library leaves out "-", parseEnv0 leaves out the empty tag too, *)
(* each with everything below.                                              *)
InFile(i) == \A k \in 1 .. Depth(i) : Path(i)[k] # Skip
InEnv(i) == \A k \in 1 .. Depth(i) : Path(i)[k] \notin {Skip, NoTag}

(* The name in the environment: the tags of the path, each by unTitle. *)
EnvName(i) == [k \in 1 .. Depth(i) |-> UnTitle[Path(i)[k]]]

(* routes: the tags of the path, joined; nothing is all that is dropped.    *)
Route(i) == IF Depth(i) = 2 /\ Path(i)[1] = NoTag THEN <<Tag(i)>> ELSE Path(i)

Init ==
    /\ schema \in Schemas
    /\ file \in SUBSET {i \in Leaves : InFile(i)}
    /\ env \in [Leaves -> Texts]
    /\ \A i, j \in Leaves : EnvName(i) = EnvName(j) => env[i] = env[j]
    /\ \A i \in Leaves : ~InEnv(i) => env[i] = "unset"
    /\ stage = "init"
    /\ pos = 1
    /\ meta = {}
    /\ value = [i \in Leaves |-> <<"zero", Path(i)>>]

----------------------------------------------------------------------------
(* Plausible slips of the code, each the twin of the definition it names.  *)

FirstFieldZero == 0                             \* FirstField
NewMetaShared == meta                           \* NewMeta
AmbiguousIgnored == FALSE                       \* Ambiguous
OverridesUnlessInFile(i, j) ==                  \* Overrides
    /\ i = j
    /\ j \notin file
    /\ Depth(j) <= 2

----------------------------------------------------------------------------
(* parseInit0 and parseDefault0, which differ in the hook they call: the    *)
(* hook of a field runs, and the route of a leaf must be new.               *)

FirstField == 1
NewMeta == {}

HookWrites(i, source) ==
    \E written \in SUBSET Under(i) :
        value' = [j \in Leaves |-> IF j \in written THEN <<source, Path(i)>> ELSE value[j]]

Repeated(i) == schema[i].kind = "leaf" /\ Tag(i) # Skip /\ Route(i) \in meta

PassOver ==
    /\ pos \in Positions
    /\ ~Reached(pos)
    /\ pos' = pos + 1
    /\ UNCHANGED <<inputs, stage, meta, value>>

Visit(source) ==
    /\ pos \in Positions
    /\ Reached(pos)
    /\ schema[pos].kind # "opaque"
    /\ ~Repeated(pos)
    /\ HookWrites(pos, source)
    /\ meta' = IF pos \in Leaves /\ Tag(pos) # Skip THEN meta \cup {Route(pos)} ELSE meta
    /\ pos' = pos + 1
    /\ UNCHANGED <<inputs, stage>>

(* The deferred recover panics again: Parse does not return. A hook is the  *)
(* application's code, which may panic too, with its work half done.        *)
PanicInHook(source) ==
    /\ pos \in Positions
    /\ Reached(pos)
    /\ schema[pos].kind # "opaque"
    /\ HookWrites(pos, source)
    /\ stage' = "hookPanic"
    /\ UNCHANGED <<inputs, pos, meta>>

PanicOnOpaque ==
    /\ pos \in Positions
    /\ Reached(pos)
    /\ schema[pos].kind = "opaque"
    /\ stage' = "panic"
    /\ UNCHANGED <<inputs, pos, meta, value>>

PanicOnRepeated(source) ==
    /\ pos \in Positions
    /\ Reached(pos)
    /\ Repeated(pos)
    /\ HookWrites(pos, source)
    /\ stage' = "panic"
    /\ UNCHANGED <<inputs, pos, meta>>

EndWalk(next) ==
    /\ pos \notin Positions
    /\ stage' = next
    /\ pos' = FirstField
    /\ meta' = NewMeta
    /\ UNCHANGED <<inputs, value>>

Walk(source, next) ==
    \/ PassOver \/ Visit(source) \/ EndWalk(next)
    \/ PanicInHook(source) \/ PanicOnOpaque \/ PanicOnRepeated(source)

ParseInit == stage = "init" /\ Walk("before", "file")
ParseDefault == stage = "check" /\ Walk("after", "ok")

----------------------------------------------------------------------------
(* toml.DecodeFile *)

Decoded(written) ==
    value' = [j \in Leaves |-> IF j \in written THEN <<"file", Path(j)>> ELSE value[j]]

DecodeFile ==
    /\ stage = "file"
    /\ Decoded(file)
    /\ stage' = "env"
    /\ UNCHANGED <<inputs, pos, meta>>

(* No file, one that is not toml, or a value that does not fit its field. *)
DecodeFileFails ==
    /\ stage = "file"
    /\ \E written \in SUBSET file : Decoded(written)
    /\ stage' = "failed"
    /\ UNCHANGED <<inputs, pos, meta>>

----------------------------------------------------------------------------
(* parseEnv0, folderToText and toml.Decode of the text they make *)

Key(i) == UnTitle[Tag(i)]

Found == {i \in Leaves : InEnv(i) /\ env[i] # "unset"}

(* The sections that get a table, which is called Key(s) however deep s is. *)
Headers == {s \in Sections : InEnv(s)}

SameFolder(i, j) ==
    Depth(i) = Depth(j) /\ SubSeq(Path(i), 1, Depth(i) - 1) = SubSeq(Path(j), 1, Depth(j) - 1)

(* A name is defined twice: by two tables, by a table and a key outside of  *)
(* all tables, or by two keys of a table.                                   *)
Ambiguous ==
    \/ \E s, t \in Headers : s # t /\ Key(s) = Key(t)
    \/ \E s \in Headers : \E i \in Found : Depth(i) = 1 /\ Key(i) = Key(s)
    \/ \E i, j \in Found : i # j /\ Key(i) = Key(j) /\ SameFolder(i, j)

(* The fields that the library knows outside of all tables, and in that of t. *)
Top == {j \in Positions : Depth(j) = 1 /\ schema[j].kind # "opaque"}
Within(t) ==
    {j \in Positions : Depth(j) = 2 /\ Path(j)[1] = Tag(t) /\ schema[j].kind # "opaque"}

(* A name is that of the field which is called so or, if none is, of the    *)
(* first one that is called so in another case.                             *)
Finds(name, known, j) ==
    /\ j \in known
    /\ IF \E e \in known : Tag(e) = name
       THEN Tag(j) = name
       ELSE /\ Fold[Tag(j)] = Fold[name]
            /\ \A e \in known : e < j => Fold[Tag(e)] # Fold[name]

(* The library looks for what the text calls Key(i), in the table that i's  *)
(* section has or outside of all, and finds j.                              *)
Table(i) == UnTitle[Path(i)[Depth(i) - 1]]

Meets(i, j) ==
    IF Depth(i) = 1
    THEN Finds(Key(i), Top, j)
    ELSE \E t \in Sections : Finds(Table(i), Top, t) /\ Finds(Key(i), Within(t), j)

Overrides(i, j) == j \in Leaves /\ Meets(i, j)

(* A table is met by a leaf, a value by a section, or a value does not fit.  *)
Misfits ==
    \/ \E s \in Headers : \E j \in Leaves : Finds(Key(s), Top, j)
    \/ \E i \in Found : \E j \in Sections : Meets(i, j)
    \/ \E i \in Found : env[i] = "misfit" /\ Overrides(i, i)

Malformed == Ambiguous \/ \E i \in Found : env[i] = "malformed"

(* What is written for one leaf may reach another, of another type; and a   *)
(* text that is more than a value may be any tables and keys.               *)
Strays == \E i \in Found : \E j \in Leaves : i # j /\ Overrides(i, j)
Spills == \E i \in Found : env[i] = "raw"

Lands(i, j) ==
    \/ env[i] = "raw" /\ InFile(j)
    \/ Overrides(i, j) /\ (env[i] = "good" \/ i # j)

OverriddenBy(j) == {i \in Found : Lands(i, j)}

Overridden(written) ==
    \E by \in [written -> Found] :
        /\ \A j \in written : by[j] \in OverriddenBy(j)
        /\ value' = [j \in Leaves |->
                        IF j \in written THEN <<"env", Path(by[j])>> ELSE value[j]]

ParseEnv ==
    /\ stage = "env"
    /\ Spills \/ (~Malformed /\ ~Misfits)
    /\ \E written \in SUBSET Leaves :
        /\ Spills \/ written = {j \in Leaves : OverriddenBy(j) # {}}
        /\ Overridden(written)
    /\ stage' = "check"
    /\ UNCHANGED <<inputs, pos, meta>>

ParseEnvFails ==
    /\ stage = "env"
    /\ Malformed \/ Misfits \/ Strays \/ Spills
    /\ IF Malformed /\ ~Spills
       THEN UNCHANGED value
       ELSE \E written \in SUBSET Leaves : Overridden(written)
    /\ stage' = "failed"
    /\ UNCHANGED <<inputs, pos, meta>>

Next ==
    \/ ParseInit
    \/ DecodeFile \/ DecodeFileFails
    \/ ParseEnv \/ ParseEnvFails
    \/ ParseDefault

Spec == Init /\ [][Next]_vars

----------------------------------------------------------------------------
(* Every leaf has one value, from a source that the stage may have met.     *)
TypeOK ==
    /\ schema \in Schemas
    /\ file \in SUBSET Leaves
    /\ env \in [Leaves -> Texts]
    /\ stage \in {"init", "file", "env", "check", "ok", "failed", "panic", "hookPanic"}
    /\ pos \in 1 .. Len(schema) + 1
    /\ meta \subseteq {Route(i) : i \in Leaves}
    /\ value \in [Leaves -> Sources \X Seq(Tags)]

(* The leaves that the environment can override: those outside of all       *)
(* sections and those of a section that is in no other.                     *)
Overridable(i) == InEnv(i) /\ Depth(i) <= 2

(* Sections, and fields of one section, whose names differ by the case of   *)
(* another letter than the first: the library may take one for the other.   *)
CaseTold ==
    \A i, j \in Positions :
        (SameFolder(i, j) \/ {i, j} \subseteq Sections) =>
            (Fold[Tag(i)] = Fold[Tag(j)] => Key(i) = Key(j))

(* The order of the sources: an AfterParse hook has the last word, then the *)
(* environment, then the file, then a BeforeParse hook. It holds for the    *)
(* leaves of Overridable, for the others the environment is not looked at;  *)
(* for names that the case of a later letter does not have to tell apart,   *)
(* and texts that are one value.                                            *)
Precedence ==
    (stage = "ok" /\ CaseTold /\ ~Spills) =>
        \A i \in Leaves :
            \/ value[i][1] = "after"
            \/ Overridable(i) /\ env[i] # "unset" /\ value[i] = <<"env", Path(i)>>
            \/ ~(Overridable(i) /\ env[i] # "unset") /\ i \in file /\ value[i] = <<"file", Path(i)>>
            \/ ~(Overridable(i) /\ env[i] # "unset") /\ i \notin file /\ value[i][1] \in {"zero", "before"}

(* An override lands in no other leaf, although the tables of the text are  *)
(* called by the last tag only, and names are found in another case: what   *)
(* could be taken for another is refused, also when Parse fails half way.   *)
(* It takes names and texts as for Precedence.                              *)
OwnOverridesOnly ==
    (CaseTold /\ ~Spills) =>
        \A i \in Leaves : value[i][1] = "env" => value[i][2] = Path(i)

(* Two sections whose paths end in one name would share a table: such a     *)
(* structure is refused, with or without a word in the environment, unless  *)
(* that word is text of its own.                                            *)
AmbiguousRefused ==
    (stage \in {"check", "ok"} /\ ~Spills) =>
        \A s, t \in Sections : (InEnv(s) /\ InEnv(t) /\ s # t) => Key(s) # Key(t)

(* A structure that Parse cannot walk panics before anything is read: the   *)
(* second walk stops nowhere the first one did not. What panics later, with *)
(* the file and the environment in the structure, is a hook of the          *)
(* application only.                                                        *)
OwnPanicsBeforeReading == [][stage' = "panic" => stage = "init"]_vars

(* service/profile/README.md says that the environment comes first, and     *)
(* docs/profile_manual.md that only AfterParse comes before it: an override *)
(* in the environment is in the configuration when Parse returns it, at     *)
(* least when it is one value and no other field has its name in any case.  *)
EnvironmentFirst ==
    (stage = "ok" /\ CaseTold /\ ~Spills) =>
        \A i \in Leaves :
            (InEnv(i) /\ env[i] # "unset") => value[i][1] \in {"env", "after"}
=============================================================================
