--------------------------- MODULE ProfileProofs ---------------------------
(***************************************************************************)
(* Proofs about Parse, for every set of structures, every file and every   *)
(* environment: which source has the last word, that an override stays in  *)
(* its field, and where Parse may panic.                                   *)
(***************************************************************************)
EXTENDS Profile, WellFoundedInduction, TLAPS

USE SchemasAssumption, UnTitleAssumption, FoldAssumption DEF Positions, Leaves, Sections

----------------------------------------------------------------------------
(* Paths. *)

(* A field has a path of at least one tag.                                 *)
LEMMA PathFacts ==
    ASSUME schema \in Schemas, NEW i \in Positions
    PROVE /\ Path(i) \in Seq(Tags)
          /\ Depth(i) \in Nat \ {0}
          /\ \A k \in 1 .. Depth(i) : Path(i)[k] \in Tags
          /\ schema[i].kind \in Kinds
<1>1. schema \in Seq(Fields)
  OBVIOUS
<1>2. schema[i] \in Fields
  BY <1>1
<1>3. Path(i) \in Seq(Tags) /\ Path(i) # <<>>
  BY <1>2 DEF Path, Fields
<1> QED
  BY <1>2, <1>3 DEF Depth, Fields

(* The section that a field is in. *)
LEMMA ParentOf ==
    ASSUME schema \in Schemas, NEW i \in Positions, Depth(i) > 1
    PROVE \E s \in Sections : /\ Depth(s) = Depth(i) - 1
                              /\ Path(s) = SubSeq(Path(i), 1, Depth(i) - 1)
<1>1. PICK s \in 1 .. Len(schema) :
        /\ schema[s].kind = "section"
        /\ schema[s].path = SubSeq(schema[i].path, 1, Len(schema[i].path) - 1)
  BY DEF Depth, Path
<1>2. Path(i) \in Seq(Tags) /\ Depth(i) \in Nat
  BY PathFacts
<1>3. Len(SubSeq(Path(i), 1, Depth(i) - 1)) = Depth(i) - 1
  BY <1>2 DEF Depth
<1> QED
  BY <1>1, <1>3 DEF Depth, Path

(* Where unTitle gives two tags one name, both or none are left out. *)
LEMMA UnTitleKeeps ==
    ASSUME NEW t \in Tags, NEW u \in Tags, UnTitle[t] = UnTitle[u], t \notin {Skip, NoTag}
    PROVE u \notin {Skip, NoTag}
OBVIOUS

(* A field and another one of its depth whose tags agree, up to unTitle, in  *)
(* the last place, and exactly before it.                                    *)
LEMMA TwinsShareEnv ==
    ASSUME schema \in Schemas, NEW i \in Positions, NEW j \in Positions,
           Depth(i) = Depth(j), Key(i) = Key(j), InEnv(i),
           \A k \in 1 .. Depth(i) - 1 : Path(i)[k] = Path(j)[k]
    PROVE InEnv(j) /\ EnvName(i) = EnvName(j) /\ SameFolder(i, j)
<1>1. /\ Path(i) \in Seq(Tags) /\ Depth(i) \in Nat \ {0} /\ Depth(i) = Len(Path(i))
      /\ \A k \in 1 .. Depth(i) : Path(i)[k] \in Tags
      /\ Path(j) \in Seq(Tags) /\ Depth(j) = Len(Path(j))
      /\ \A k \in 1 .. Depth(j) : Path(j)[k] \in Tags
  BY PathFacts DEF Depth
<1>2. UnTitle[Path(i)[Depth(i)]] = UnTitle[Path(j)[Depth(i)]]
  BY DEF Key, Tag
<1>3. \A k \in 1 .. Depth(i) : UnTitle[Path(i)[k]] = UnTitle[Path(j)[k]]
  BY <1>1, <1>2
<1>4. InEnv(j)
  BY <1>1, <1>3, UnTitleKeeps DEF InEnv
<1>5. EnvName(i) = EnvName(j)
  BY <1>1, <1>3 DEF EnvName
<1>6. SubSeq(Path(i), 1, Depth(i) - 1) = SubSeq(Path(j), 1, Depth(j) - 1)
  BY <1>1
<1> QED
  BY <1>4, <1>5, <1>6 DEF SameFolder
----------------------------------------------------------------------------
(* What a name of the text is found as. *)

(* A field that is found has the name, in some case.                       *)
LEMMA FoundFolds ==
    ASSUME NEW name, NEW known, NEW j, Finds(name, known, j)
    PROVE j \in known /\ Fold[Tag(j)] = Fold[name]
BY DEF Finds

(* A name that a field has in some case is found: as that field or another. *)
LEMMA FindsOne ==
    ASSUME NEW name, NEW known, known \subseteq Nat,
           NEW i \in known, Fold[Tag(i)] = Fold[name]
    PROVE \E j \in known : Finds(name, known, j)
<1>1. CASE \E e \in known : Tag(e) = name
  BY <1>1 DEF Finds
<1>2. CASE ~ \E e \in known : Tag(e) = name
  <2> DEFINE T == {e \in known : Fold[Tag(e)] = Fold[name]}
  <2>1. PICK m \in T : \A k \in T : ~(<<k, m>> \in OpToRel(<, Nat))
    <3>1. T \subseteq Nat /\ T # {}
      OBVIOUS
    <3> QED
      BY <3>1, NatLessThanWellFounded, WFMin, Zenon
  <2>2. ASSUME NEW e \in known, e < m PROVE Fold[Tag(e)] # Fold[name]
    <3>1. <<e, m>> \in Nat \X Nat
      OBVIOUS
    <3>2. <<e, m>>[1] < <<e, m>>[2]
      BY <2>2
    <3>3. <<e, m>> \in OpToRel(<, Nat)
      BY <3>1, <3>2, Zenon DEF OpToRel
    <3> QED
      BY <2>1, <3>3
  <2> QED
    BY <1>2, <2>2 DEF Finds
<1> QED
  BY <1>1, <1>2

(* unTitle and folding leave no field out that the environment is read for, *)
(* whatever other field has its name in some case.                          *)
LEMMA FoldKeeps ==
    ASSUME NEW t \in Tags, NEW u \in Tags, Fold[t] = Fold[u], t \notin {Skip, NoTag}
    PROVE u \notin {Skip, NoTag}
OBVIOUS
----------------------------------------------------------------------------
(* Overrides. *)

EnvTied == \A i, j \in Leaves : EnvName(i) = EnvName(j) => env[i] = env[j]

(* The table of a leaf in a section that the environment is read for.       *)
LEMMA TableOf ==
    ASSUME schema \in Schemas, NEW i \in Leaves, InEnv(i), Depth(i) > 1
    PROVE \E s \in Headers : /\ Depth(s) = Depth(i) - 1
                             /\ Key(s) = Table(i)
                             /\ Tag(s) = Path(i)[Depth(i) - 1]
                             /\ Fold[Tag(s)] = Fold[Table(i)]
<1>1. PICK s \in Sections : Depth(s) = Depth(i) - 1 /\ Path(s) = SubSeq(Path(i), 1, Depth(i) - 1)
  BY ParentOf
<1>2. /\ Path(i) \in Seq(Tags) /\ Depth(i) \in Nat \ {0} /\ Depth(i) = Len(Path(i))
      /\ \A k \in 1 .. Depth(i) : Path(i)[k] \in Tags
  BY PathFacts DEF Depth
<1>3. \A k \in 1 .. Depth(s) : Path(s)[k] = Path(i)[k]
  BY <1>1, <1>2
<1>4. s \in Headers
  BY <1>1, <1>2, <1>3 DEF Headers, InEnv
<1>5. Tag(s) = Path(i)[Depth(i) - 1] /\ Tag(s) \in Tags
  BY <1>1, <1>2, <1>3 DEF Tag
<1> QED
  BY <1>1, <1>4, <1>5 DEF Key, Table

(* A section outside of all others that is taken for one that gets a table,  *)
(* gets one too; in a text without a name defined twice it is that one.      *)
LEMMA TableIsOwn ==
    ASSUME schema \in Schemas, CaseTold, ~Ambiguous,
           NEW s \in Headers, NEW t \in Sections, Depth(t) = 1, Fold[Tag(s)] = Fold[Tag(t)]
    PROVE s = t
<1>1. s \in Sections /\ InEnv(s)
  BY DEF Headers
<1>2. /\ Depth(s) \in Nat \ {0} /\ Tag(s) \in Tags /\ Tag(t) \in Tags
      /\ \A k \in 1 .. Depth(t) : Path(t)[k] = Tag(t)
  BY <1>1, PathFacts DEF Tag
<1>3. Tag(s) \notin {Skip, NoTag}
  BY <1>1, <1>2 DEF InEnv, Tag
<1>4. t \in Headers
  BY <1>2, <1>3, FoldKeeps DEF Headers, InEnv
<1>5. Key(s) = Key(t)
  BY <1>1 DEF CaseTold
<1> QED
  BY <1>4, <1>5 DEF Ambiguous

(* What overrides a leaf of a text without a name defined twice is the       *)
(* leaf's own variable: with tables that are called by the last tag alone    *)
(* this takes both that no two tables have one name and that the leaf's own  *)
(* table is one of them.                                                     *)
LEMMA OverrideIsOwn ==
    ASSUME schema \in Schemas, EnvTied, CaseTold, ~Ambiguous,
           NEW i \in Found, NEW j \in Leaves, Overrides(i, j)
    PROVE i = j
<1>1. i \in Leaves /\ InEnv(i) /\ env[i] # "unset" /\ i \in Positions /\ j \in Positions
  BY DEF Found
<1>2. /\ Path(i) \in Seq(Tags) /\ Depth(i) \in Nat \ {0} /\ Depth(i) = Len(Path(i))
      /\ Path(j) \in Seq(Tags) /\ Depth(j) \in Nat \ {0} /\ Depth(j) = Len(Path(j))
      /\ Tag(i) \in Tags /\ Tag(j) \in Tags
  <2>1. Depth(i) = Len(Path(i)) /\ Depth(j) = Len(Path(j))
    BY DEF Depth
  <2> QED
    BY <1>1, <2>1, PathFacts DEF Tag
<1>3. Fold[Key(i)] = Fold[Tag(i)]
  BY <1>2 DEF Key
<1>4. /\ Depth(i) = Depth(j) /\ \A k \in 1 .. Depth(i) - 1 : Path(i)[k] = Path(j)[k]
      /\ Fold[Tag(j)] = Fold[Tag(i)]
  <2>1. CASE Depth(i) = 1
    <3>1. Finds(Key(i), Top, j)
      BY <2>1 DEF Overrides, Meets
    <3>2. j \in Top /\ Fold[Tag(j)] = Fold[Key(i)]
      BY <3>1, FoundFolds
    <3> QED
      BY <1>3, <2>1, <3>2 DEF Top
  <2>2. CASE Depth(i) > 1
    <3>1. PICK t \in Sections : Finds(Table(i), Top, t) /\ Finds(Key(i), Within(t), j)
      BY <1>2, <2>2 DEF Overrides, Meets
    <3>2. t \in Top /\ Fold[Tag(t)] = Fold[Table(i)]
      BY <3>1, FoundFolds
    <3>3. j \in Within(t) /\ Fold[Tag(j)] = Fold[Key(i)]
      BY <3>1, FoundFolds
    <3>4. PICK s \in Headers : /\ Depth(s) = Depth(i) - 1 /\ Tag(s) = Path(i)[Depth(i) - 1]
                               /\ Fold[Tag(s)] = Fold[Table(i)]
      BY <1>1, <2>2, TableOf
    <3>5. Depth(t) = 1
      BY <3>2 DEF Top
    <3>6. s = t
      BY <3>2, <3>4, <3>5, TableIsOwn
    <3>7. Depth(i) = 2 /\ Path(i)[1] = Tag(t)
      BY <1>2, <3>4, <3>5, <3>6
    <3>8. Depth(j) = 2 /\ Path(j)[1] = Tag(t)
      BY <3>3 DEF Within
    <3> QED
      BY <1>3, <3>3, <3>7, <3>8
  <2> QED
    BY <1>2, <2>1, <2>2
<1>5. SameFolder(i, j)
  <2>1. DEFINE n == Depth(i) - 1
  <2>2. n \in Nat /\ n = Depth(j) - 1 /\ n <= Len(Path(i)) /\ n <= Len(Path(j))
    BY <1>2, <1>4
  <2>3. SubSeq(Path(i), 1, n) = SubSeq(Path(j), 1, n)
    <3> HIDE DEF n
    <3> QED
      BY <1>2, <1>4, <2>2 DEF n
  <2> QED
    BY <1>4, <2>2, <2>3 DEF SameFolder
<1>6. Key(i) = Key(j)
  BY <1>1, <1>4, <1>5 DEF CaseTold
<1>7. InEnv(j) /\ EnvName(i) = EnvName(j)
  BY <1>1, <1>4, <1>6, TwinsShareEnv
<1>8. j \in Found
  BY <1>1, <1>7 DEF Found, EnvTied
<1> QED
  BY <1>5, <1>6, <1>8 DEF Ambiguous

(* Where all that is found fits, a leaf that the environment can override    *)
(* and that it has a text for is overridden by that text.                    *)
LEMMA OwnOverrides ==
    ASSUME schema \in Schemas, EnvTied, CaseTold, ~Ambiguous, ~Misfits,
           NEW j \in Found, Depth(j) <= 2
    PROVE Overrides(j, j)
<1>1. j \in Leaves /\ j \in Positions /\ InEnv(j)
  BY DEF Found
<1>2. /\ Depth(j) \in Nat \ {0} /\ Tag(j) \in Tags /\ schema[j].kind = "leaf"
      /\ Fold[Key(j)] = Fold[Tag(j)]
  BY <1>1, PathFacts DEF Tag, Key
<1>3. \E e \in Positions : Meets(j, e) /\ schema[e].kind # "opaque"
  <2>1. CASE Depth(j) = 1
    <3>1. j \in Top /\ Top \subseteq Nat
      BY <1>1, <1>2, <2>1 DEF Top
    <3>2. PICK e \in Top : Finds(Key(j), Top, e)
      BY <1>2, <3>1, FindsOne
    <3> QED
      BY <2>1, <3>2 DEF Meets, Top
  <2>2. CASE Depth(j) = 2
    <3>1. PICK s \in Headers : /\ Depth(s) = 1 /\ Key(s) = Table(j)
                               /\ Tag(s) = Path(j)[1] /\ Fold[Tag(s)] = Fold[Table(j)]
      BY <1>1, <2>2, TableOf
    <3>2. s \in Top /\ Top \subseteq Nat
      BY <3>1 DEF Top, Headers
    <3>3. PICK t \in Top : Finds(Table(j), Top, t)
      BY <3>1, <3>2, FindsOne
    <3>4. t \notin Leaves
      BY <3>1, <3>3 DEF Misfits
    <3>5. t \in Sections /\ Depth(t) = 1
      <4>1. t \in Positions /\ schema[t].kind # "opaque" /\ Depth(t) = 1
        BY DEF Top
      <4>2. schema[t].kind \in Kinds
        BY <4>1, PathFacts
      <4> QED
        BY <3>4, <4>1, <4>2 DEF Kinds
    <3>6. s = t
      BY <3>1, <3>3, <3>5, FoundFolds, TableIsOwn
    <3>7. j \in Within(t) /\ Within(t) \subseteq Nat
      BY <1>1, <1>2, <2>2, <3>1, <3>6 DEF Within
    <3>8. PICK e \in Within(t) : Finds(Key(j), Within(t), e)
      BY <1>2, <3>7, FindsOne
    <3>9. Meets(j, e)
      <4>1. Depth(j) # 1
        BY <2>2
      <4> QED
        BY <3>3, <3>5, <3>8, <4>1, Zenon DEF Meets
    <3> QED
      BY <3>9 DEF Within
  <2> QED
    BY <1>2, <2>1, <2>2
<1>4. PICK e \in Positions : Meets(j, e) /\ schema[e].kind # "opaque"
  BY <1>3
<1>5. e \notin Sections
  BY <1>4 DEF Misfits
<1>6. e \in Leaves
  BY <1>4, <1>5, PathFacts DEF Kinds
<1>7. Overrides(j, e)
  BY <1>4, <1>6 DEF Overrides
<1> QED
  BY <1>6, <1>7, OverrideIsOwn

(* When all that is found fits, each leaf that the environment can override  *)
(* is overridden by itself, and no other leaf is overridden.                 *)
LEMMA OverriddenByOwn ==
    ASSUME schema \in Schemas, EnvTied, env \in [Leaves -> Texts], CaseTold, ~Spills, ~Malformed,
           NEW j \in Leaves
    PROVE /\ OverriddenBy(j) \subseteq {j}
          /\ OverriddenBy(j) # {} => Overridable(j) /\ env[j] # "unset"
          /\ (~Misfits /\ Overridable(j) /\ env[j] # "unset") => OverriddenBy(j) = {j}
<1>1. ASSUME NEW i \in OverriddenBy(j) PROVE i = j /\ i \in Found /\ Overrides(i, j)
  <2>1. i \in Found /\ Overrides(i, j)
    BY DEF OverriddenBy, Lands, Spills
  <2> QED
    BY <2>1, OverrideIsOwn DEF Malformed
<1>2. ASSUME OverriddenBy(j) # {} PROVE Overridable(j) /\ env[j] # "unset"
  <2>1. j \in Found /\ Overrides(j, j)
    BY <1>1, <1>2
  <2>2. Depth(j) \in Nat \ {0} /\ InEnv(j) /\ env[j] # "unset"
    BY <2>1, PathFacts DEF Found
  <2>3. ASSUME Depth(j) # 1 PROVE Depth(j) = 2
    <3>1. PICK t \in Sections : Finds(Key(j), Within(t), j)
      BY <2>1, <2>3 DEF Overrides, Meets
    <3> QED
      BY <3>1 DEF Finds, Within
  <2> QED
    BY <2>2, <2>3 DEF Overridable
<1>3. ASSUME ~Misfits, Overridable(j), env[j] # "unset" PROVE j \in OverriddenBy(j)
  <2>1. j \in Found /\ Depth(j) <= 2
    BY <1>3 DEF Found, Overridable
  <2>2. Overrides(j, j)
    BY <1>3, <2>1, OwnOverrides DEF Malformed
  <2>3. env[j] # "malformed" /\ env[j] # "misfit" /\ env[j] # "raw"
    BY <1>3, <2>1, <2>2 DEF Malformed, Misfits, Spills
  <2> QED
    BY <1>3, <2>1, <2>2, <2>3 DEF OverriddenBy, Lands, Texts
<1> QED
  BY <1>1, <1>2, <1>3

(* What the decoded text leaves in a leaf.                                   *)
LEMMA OverriddenValue ==
    ASSUME schema \in Schemas, EnvTied, env \in [Leaves -> Texts], CaseTold, ~Spills, ~Malformed,
           NEW written \in SUBSET Leaves, Overridden(written), NEW j \in Leaves
    PROVE /\ value'[j] = IF j \in written THEN <<"env", Path(j)>> ELSE value[j]
          /\ j \in written => OverriddenBy(j) # {}
<1>1. PICK by \in [written -> Found] :
        /\ \A k \in written : by[k] \in OverriddenBy(k)
        /\ value' = [k \in Leaves |->
                        IF k \in written THEN <<"env", Path(by[k])>> ELSE value[k]]
  BY Zenon DEF Overridden
<1>2. ASSUME j \in written PROVE by[j] = j /\ OverriddenBy(j) # {}
  <2>1. OverriddenBy(j) \subseteq {j}
    BY OverriddenByOwn, Zenon
  <2> QED
    BY <1>1, <1>2, <2>1
<1>3. value'[j] = IF j \in written THEN <<"env", Path(by[j])>> ELSE value[j]
  BY <1>1, Zenon
<1> QED
  BY <1>2, <1>3, Zenon

----------------------------------------------------------------------------
(* Type correctness. *)

(* Parse changes neither the structure nor the file nor the environment.   *)
LEMMA InputsStay == [Next]_vars => schema' = schema /\ file' = file /\ env' = env
BY DEF Next, vars, inputs, ParseInit, ParseDefault, Walk, PassOver, Visit, PanicInHook,
       PanicOnOpaque, PanicOnRepeated, EndWalk, DecodeFile, DecodeFileFails, ParseEnv, ParseEnvFails

(* What is known of the structure stays known. *)
LEMMA StructureStays ==
    ASSUME schema' = schema
    PROVE /\ Leaves' = Leaves /\ Positions' = Positions
          /\ \A i : Path(i)' = Path(i)
          /\ \A i : Tag(i)' = Tag(i) /\ Route(i)' = Route(i)
          /\ \A i : Reached(i)' <=> Reached(i)
          /\ \A i : EnvName(i)' = EnvName(i)
          /\ \A i : Overridable(i)' <=> Overridable(i)
<1>2. Leaves' = Leaves /\ Positions' = Positions
  OBVIOUS
<1>3. \A i : Path(i)' = Path(i)
  BY Zenon DEF Path
<1>4. \A i : Depth(i)' = Depth(i)
  BY <1>3, Zenon DEF Depth
<1>5. \A i : Tag(i)' = Tag(i) /\ Route(i)' = Route(i)
  <2>1. \A i : Tag(i)' = Tag(i)
    BY <1>3, <1>4, Zenon DEF Tag
  <2> QED
    BY <1>3, <1>4, <2>1, Zenon DEF Route
<1>6. \A i : Reached(i)' <=> Reached(i)
  BY <1>3, <1>4, Zenon DEF Reached
<1>7. \A i : EnvName(i)' = EnvName(i)
  BY <1>3, <1>4, Zenon DEF EnvName
<1>8. \A i : Overridable(i)' <=> Overridable(i)
  BY <1>3, <1>4, Zenon DEF Overridable, InEnv
<1> QED
  BY <1>2, <1>3, <1>5, <1>6, <1>7, <1>8

Values == Sources \X Seq(Tags)

(* A hook gives fields below its own a value of its source, others none.   *)
LEMMA HookValues ==
    ASSUME schema \in Schemas, value \in [Leaves -> Values], NEW i \in Positions,
           NEW source \in Sources, HookWrites(i, source)
    PROVE /\ value' \in [Leaves -> Values]
          /\ \A j \in Leaves : value'[j] = <<source, Path(i)>> \/ value'[j] = value[j]
<1>1. PICK written \in SUBSET Under(i) :
        value' = [j \in Leaves |-> IF j \in written THEN <<source, Path(i)>> ELSE value[j]]
  BY Zenon DEF HookWrites
<1>2. <<source, Path(i)>> \in Values
  BY PathFacts DEF Values
<1> QED
  BY <1>1, <1>2, Zenon

(* The file gives what it holds to the very leaves it names.               *)
LEMMA DecodedValues ==
    ASSUME schema \in Schemas, value \in [Leaves -> Values], NEW written, Decoded(written)
    PROVE /\ value' \in [Leaves -> Values]
          /\ \A j \in Leaves : value'[j] = IF j \in written THEN <<"file", Path(j)>> ELSE value[j]
<1>1. \A j \in Leaves : <<"file", Path(j)>> \in Values
  BY PathFacts DEF Values, Sources
<1> QED
  BY <1>1, Zenon DEF Decoded

(* An override is a value of the environment.                              *)
LEMMA OverriddenValues ==
    ASSUME schema \in Schemas, value \in [Leaves -> Values], NEW written, Overridden(written)
    PROVE value' \in [Leaves -> Values]
<1>1. PICK by \in [written -> Found] :
        value' = [j \in Leaves |-> IF j \in written THEN <<"env", Path(by[j])>> ELSE value[j]]
  BY Zenon DEF Overridden
<1>2. ASSUME NEW j \in written PROVE <<"env", Path(by[j])>> \in Values
  <2>1. by[j] \in Positions
    BY DEF Found
  <2> QED
    BY <2>1, PathFacts DEF Values, Sources
<1> QED
  BY <1>1, <1>2, Zenon

Stages == {"init", "file", "env", "check", "ok", "failed", "panic", "hookPanic"}
LeafRoutes == {Route(i) : i \in Leaves}

(* A walk keeps the types of what it changes.                              *)
LEMMA WalkTypes ==
    ASSUME TypeOK, NEW source \in Sources, NEW next \in Stages, Walk(source, next)
    PROVE /\ stage' \in Stages /\ pos' \in 1 .. Len(schema) + 1
          /\ meta' \subseteq LeafRoutes /\ value' \in [Leaves -> Values]
<1> USE DEF TypeOK, Stages, LeafRoutes, Values
<1>1. CASE PassOver
  BY <1>1 DEF PassOver
<1>2. CASE Visit(source)
  <2>1. pos \in Positions /\ pos' = pos + 1 /\ stage' = stage /\ HookWrites(pos, source)
    BY <1>2 DEF Visit
  <2>2. meta' \subseteq LeafRoutes
    <3> HIDE DEF Leaves, LeafRoutes
    <3>1. meta \subseteq LeafRoutes
      BY DEF LeafRoutes
    <3>2. pos \in Leaves => Route(pos) \in LeafRoutes
      BY Zenon DEF LeafRoutes
    <3>3. meta' = meta \/ (pos \in Leaves /\ meta' = meta \cup {Route(pos)})
      BY <1>2, Zenon DEF Visit
    <3> QED
      BY <3>1, <3>2, <3>3
  <2>3. value' \in [Leaves -> Sources \X Seq(Tags)]
    BY <2>1, HookValues
  <2> QED
    BY <2>1, <2>2, <2>3
<1>3. CASE PanicOnOpaque
  BY <1>3 DEF PanicOnOpaque
<1>4. CASE PanicOnRepeated(source) \/ PanicInHook(source)
  BY <1>4, HookValues DEF PanicOnRepeated, PanicInHook
<1>5. CASE EndWalk(next)
  BY <1>5 DEF EndWalk, FirstField, NewMeta
<1> QED
  BY <1>1, <1>2, <1>3, <1>4, <1>5 DEF Walk

(* Every leaf keeps one value, from one source, for any structure.           *)
THEOREM TypeCorrect == Spec => []TypeOK
<1>1. Init => TypeOK
  <2> SUFFICES ASSUME Init PROVE TypeOK
    OBVIOUS
  <2>1. \A i \in Leaves : Path(i) \in Seq(Tags)
    BY PathFacts DEF Init
  <2>2. Len(schema) \in Nat
    BY DEF Init
  <2> QED
    BY <2>1, <2>2 DEF Init, TypeOK, Sources
<1>2. TypeOK /\ [Next]_vars => TypeOK'
  <2> SUFFICES ASSUME TypeOK, [Next]_vars PROVE TypeOK'
    OBVIOUS
  <2> DEFINE Types == /\ stage' \in Stages /\ pos' \in 1 .. Len(schema) + 1
                      /\ meta' \subseteq LeafRoutes /\ value' \in [Leaves -> Values]
  <2>1. ASSUME ParseInit PROVE Types
    BY <2>1, WalkTypes DEF ParseInit, Sources, Stages
  <2>2. ASSUME ParseDefault PROVE Types
    BY <2>2, WalkTypes DEF ParseDefault, Sources, Stages
  <2>3. ASSUME DecodeFile \/ DecodeFileFails PROVE Types
    BY <2>3, DecodedValues DEF DecodeFile, DecodeFileFails, TypeOK, Stages, LeafRoutes, Values
  <2>4. ASSUME ParseEnv \/ ParseEnvFails PROVE Types
    BY <2>4, OverriddenValues DEF ParseEnv, ParseEnvFails, TypeOK, Stages, LeafRoutes, Values
  <2>5. ASSUME UNCHANGED vars PROVE Types
    BY <2>5 DEF vars, TypeOK, Stages, LeafRoutes, Values
  <2>6. Types
    BY <2>1, <2>2, <2>3, <2>4, <2>5 DEF Next
  <2>7. schema' = schema /\ file' = file /\ env' = env
    BY InputsStay
  <2>8. Leaves' = Leaves /\ \A i : Route(i)' = Route(i)
    BY <2>7, StructureStays
  <2> QED
    BY <2>6, <2>7, <2>8 DEF TypeOK, Stages, LeafRoutes, Values
<1> QED
  BY <1>1, <1>2, PTL DEF Spec

----------------------------------------------------------------------------
(* The walks. *)

Routes(p) == {Route(j) : j \in {k \in Leaves : k < p /\ Reached(k) /\ Tag(k) # Skip}}

(* Up to p there is nothing that a walk would panic at. *)
Walkable(p) ==
    /\ \A j \in Positions : (j < p /\ Reached(j)) => schema[j].kind # "opaque"
    /\ \A j, k \in Leaves :
        (j < k /\ k < p /\ Reached(j) /\ Reached(k) /\ Tag(j) # Skip /\ Tag(k) # Skip)
            => Route(j) # Route(k)

(* The first walk has found the structure walkable, so the second has        *)
(* nowhere to panic: it starts with no routes, as the first one did.         *)
WalkInv ==
    /\ stage \in {"init", "check"} => meta = Routes(pos)
    /\ stage \in {"file", "env"} => pos = 1 /\ meta = {}
    /\ stage = "init" => Walkable(pos)
    /\ stage \in {"file", "env", "check"} => Walkable(Len(schema) + 1)

(* Going on to the next field adds its route, if it has one.               *)
LEMMA NextRoutes ==
    ASSUME schema \in Schemas, NEW p \in Positions
    PROVE Routes(p + 1) =
            IF p \in Leaves /\ Reached(p) /\ Tag(p) # Skip THEN Routes(p) \cup {Route(p)} ELSE Routes(p)
<1>1. \A k \in Leaves : k < p + 1 <=> k < p \/ k = p
  OBVIOUS
<1> DEFINE Met(q) == {k \in Leaves : k < q /\ Reached(k) /\ Tag(k) # Skip}
<1>2. CASE p \in Leaves /\ Reached(p) /\ Tag(p) # Skip
  <2>1. Met(p + 1) = Met(p) \cup {p}
    BY <1>1, <1>2
  <2>2. \A q : Routes(q) = {Route(j) : j \in Met(q)}
    BY Zenon DEF Routes
  <2> HIDE DEF Met
  <2>3. {Route(j) : j \in Met(p) \cup {p}} = {Route(j) : j \in Met(p)} \cup {Route(p)}
    OBVIOUS
  <2> QED
    BY <1>2, <2>1, <2>2, <2>3, Zenon
<1>3. CASE ~(p \in Leaves /\ Reached(p) /\ Tag(p) # Skip)
  <2>1. Met(p + 1) = Met(p)
    BY <1>1, <1>3
  <2> QED
    BY <1>3, <2>1, Zenon DEF Routes
<1> QED
  BY <1>2, <1>3

(* A field that neither panic stops at can be walked over.                 *)
LEMMA NextWalkable ==
    ASSUME schema \in Schemas, NEW p \in Positions, Walkable(p),
           Reached(p) => schema[p].kind # "opaque",
           (p \in Leaves /\ Reached(p) /\ Tag(p) # Skip) => Route(p) \notin Routes(p)
    PROVE Walkable(p + 1)
<1>1. \A j \in Positions : (j < p + 1 /\ Reached(j)) => schema[j].kind # "opaque"
  BY DEF Walkable
<1>2. ASSUME NEW j \in Leaves, NEW k \in Leaves, j < k, k < p + 1, Reached(j), Reached(k),
             Tag(j) # Skip, Tag(k) # Skip
      PROVE Route(j) # Route(k)
  <2>1. CASE k < p
    BY <1>2, <2>1, Zenon DEF Walkable
  <2>2. CASE k = p
    <3>1. Route(j) \in Routes(p)
      BY <1>2, <2>2, Zenon DEF Routes
    <3> QED
      BY <1>2, <2>2, <3>1, Zenon
  <2> QED
    BY <1>2, <2>1, <2>2
<1> QED
  BY <1>1, <1>2, Zenon DEF Walkable

(* Before the first field there are no routes.                             *)
LEMMA NoRoutes == schema \in Schemas => Routes(1) = {} /\ Walkable(1)
BY DEF Routes, Walkable

(* Where the structure is walkable, the second walk finds no route twice. *)
LEMMA NotRepeated ==
    ASSUME schema \in Schemas, NEW p \in Positions, Walkable(Len(schema) + 1), Reached(p),
           meta = Routes(p)
    PROVE ~Repeated(p)
<1> SUFFICES ASSUME p \in Leaves, Tag(p) # Skip, Route(p) \in Routes(p) PROVE FALSE
  BY DEF Repeated
<1>1. PICK j \in Leaves : j < p /\ Reached(j) /\ Tag(j) # Skip /\ Route(j) = Route(p)
  BY Zenon DEF Routes
<1>2. p < Len(schema) + 1
  OBVIOUS
<1> QED
  BY <1>1, <1>2, Zenon DEF Walkable

(* Routes are of the structure, which stays.                               *)
LEMMA WalkablesStay ==
    ASSUME schema' = schema
    PROVE \A p : (Routes(p)' = Routes(p)) /\ (Walkable(p)' <=> Walkable(p))
<1>1. /\ Leaves' = Leaves /\ Positions' = Positions
      /\ \A i : Tag(i)' = Tag(i) /\ Route(i)' = Route(i)
      /\ \A i : Reached(i)' <=> Reached(i)
  BY StructureStays
<1> HIDE DEF Leaves, Positions
<1>2. \A p : Routes(p)' = Routes(p)
  BY <1>1 DEF Routes
<1>3. \A p : Walkable(p)' <=> Walkable(p)
  BY <1>1, Zenon DEF Walkable
<1> QED
  BY <1>2, <1>3

(* The second walk meets nothing that panics.                              *)
LEMMA SecondWalkIsQuiet ==
    ASSUME TypeOK, WalkInv, ParseDefault PROVE stage' # "panic"
<1>1. stage = "check" /\ schema \in Schemas /\ meta = Routes(pos) /\ Walkable(Len(schema) + 1)
  BY DEF TypeOK, ParseDefault, WalkInv
<1>2. ~PanicOnOpaque
  <2> SUFFICES ASSUME PanicOnOpaque PROVE FALSE
    OBVIOUS
  <2>1. pos \in Positions /\ Reached(pos) /\ schema[pos].kind = "opaque" /\ pos < Len(schema) + 1
    BY DEF PanicOnOpaque
  <2> QED
    BY <1>1, <2>1, Zenon DEF Walkable
<1>3. ~PanicOnRepeated("after")
  BY <1>1, NotRepeated, Zenon DEF PanicOnRepeated
<1> QED
  BY <1>1, <1>2, <1>3 DEF ParseDefault, Walk, PassOver, Visit, PanicInHook, EndWalk

(* A step of a walk keeps meta the set of the routes behind it.            *)
LEMMA VisitRoutes ==
    ASSUME TypeOK, NEW source, PassOver \/ Visit(source), meta = Routes(pos)
    PROVE /\ pos \in Positions /\ pos' = pos + 1 /\ stage' = stage /\ meta' = Routes(pos + 1)
          /\ Walkable(pos) => Walkable(pos + 1)
<1>1. pos \in Positions /\ pos' = pos + 1 /\ stage' = stage /\ schema \in Schemas
  BY DEF PassOver, Visit, TypeOK
<1>2. CASE PassOver
  <2>1. ~Reached(pos) /\ meta' = meta
    BY <1>2 DEF PassOver
  <2> QED
    BY <1>1, <2>1, NextRoutes, NextWalkable
<1>3. CASE Visit(source)
  <2>1. /\ Reached(pos) /\ schema[pos].kind # "opaque" /\ ~Repeated(pos)
        /\ meta' = IF pos \in Leaves /\ Tag(pos) # Skip THEN meta \cup {Route(pos)} ELSE meta
    BY <1>3, Zenon DEF Visit
  <2>2. meta' = Routes(pos + 1)
    BY <1>1, <2>1, NextRoutes, Zenon
  <2>3. (pos \in Leaves /\ Reached(pos) /\ Tag(pos) # Skip) => Route(pos) \notin Routes(pos)
    BY <2>1 DEF Repeated
  <2> QED
    BY <1>1, <2>1, <2>2, <2>3, NextWalkable
<1> QED
  BY <1>2, <1>3

(* The two walks meet the same fields: what the first one passed, the second *)
(* one passes too.                                                           *)
THEOREM WalksAgree == Spec => []WalkInv
<1>1. Init => WalkInv
  BY NoRoutes DEF Init, WalkInv
<1>2. TypeOK /\ WalkInv /\ [Next]_vars => WalkInv'
  <2> SUFFICES ASSUME TypeOK, WalkInv, [Next]_vars PROVE WalkInv'
    OBVIOUS
  <2>1. schema' = schema /\ schema \in Schemas
    BY InputsStay DEF TypeOK
  <2> DEFINE Goal ==
        /\ stage' \in {"init", "check"} => meta' = Routes(pos')
        /\ stage' \in {"file", "env"} => pos' = 1 /\ meta' = {}
        /\ stage' = "init" => Walkable(pos')
        /\ stage' \in {"file", "env", "check"} => Walkable(Len(schema) + 1)
  <2>2. ASSUME ParseInit PROVE Goal
    <3>1. stage = "init" /\ meta = Routes(pos) /\ Walkable(pos)
      BY <2>2 DEF ParseInit, WalkInv
    <3>2. CASE PassOver \/ Visit("before")
      BY <3>1, <3>2, VisitRoutes
    <3>3. CASE PanicInHook("before") \/ PanicOnOpaque \/ PanicOnRepeated("before")
      BY <3>3 DEF PanicInHook, PanicOnOpaque, PanicOnRepeated
    <3>4. CASE EndWalk("file")
      <4>1. pos = Len(schema) + 1
        BY <3>4, <2>1 DEF EndWalk, TypeOK
      <4> QED
        BY <3>1, <3>4, <4>1 DEF EndWalk, FirstField, NewMeta
    <3> QED
      BY <2>2, <3>2, <3>3, <3>4 DEF ParseInit, Walk
  <2>3. ASSUME ParseDefault PROVE Goal
    <3>1. stage = "check" /\ meta = Routes(pos) /\ Walkable(Len(schema) + 1)
      BY <2>3 DEF ParseDefault, WalkInv
    <3>2. CASE PassOver \/ Visit("after")
      BY <3>1, <3>2, VisitRoutes
    <3>3. CASE PanicInHook("after") \/ PanicOnOpaque \/ PanicOnRepeated("after") \/ EndWalk("ok")
      BY <3>3 DEF PanicInHook, PanicOnOpaque, PanicOnRepeated, EndWalk
    <3> QED
      BY <2>3, <3>2, <3>3 DEF ParseDefault, Walk
  <2>4. ASSUME DecodeFile \/ DecodeFileFails \/ ParseEnv \/ ParseEnvFails PROVE Goal
    BY <2>1, <2>4, NoRoutes DEF DecodeFile, DecodeFileFails, ParseEnv, ParseEnvFails, WalkInv
  <2>5. ASSUME UNCHANGED vars PROVE Goal
    BY <2>5 DEF vars, WalkInv
  <2>6. Goal
    BY <2>2, <2>3, <2>4, <2>5 DEF Next
  <2> QED
    BY <2>1, <2>6, WalkablesStay, Zenon DEF WalkInv
<1> QED
  BY <1>1, <1>2, TypeCorrect, PTL DEF Spec

(* Parse panics on its own before it has read anything or not at all: what   *)
(* panics later is a hook.                                                   *)
THEOREM OwnPanicsComeFirst == Spec => OwnPanicsBeforeReading
<1>1. TypeOK /\ WalkInv /\ [Next]_vars => [stage' = "panic" => stage = "init"]_vars
  <2> SUFFICES ASSUME TypeOK, WalkInv, Next PROVE stage' = "panic" => stage = "init"
    OBVIOUS
  <2>1. CASE ParseDefault
    BY <2>1, SecondWalkIsQuiet
  <2>2. CASE ParseInit \/ DecodeFile \/ DecodeFileFails \/ ParseEnv \/ ParseEnvFails
    BY <2>2 DEF ParseInit, DecodeFile, DecodeFileFails, ParseEnv, ParseEnvFails
  <2> QED
    BY <2>1, <2>2 DEF Next
<1> QED
  BY <1>1, TypeCorrect, WalksAgree, PTL DEF Spec, OwnPanicsBeforeReading

----------------------------------------------------------------------------
(* The values. *)

Initial(i) == value[i][1] \in {"zero", "before"}

Given(i) == IF i \in file THEN value[i] = <<"file", Path(i)>> ELSE Initial(i)

Settled(i) ==
    IF Overridable(i) /\ env[i] # "unset" THEN value[i] = <<"env", Path(i)>> ELSE Given(i)

(* What the environment does is told of structures whose names the case of a *)
(* later letter does not have to tell apart, and of texts of one value.      *)
Plain == CaseTold /\ ~Spills

(* Each source leaves every leaf as it was or gives it its own value; the    *)
(* environment gives every leaf it is asked for a value, and only those.     *)
ValueInv ==
    /\ EnvTied
    /\ stage \in {"init", "file"} => \A i \in Leaves : Initial(i)
    /\ stage = "env" => \A i \in Leaves : Given(i)
    /\ (stage \in {"check", "ok"} /\ Plain) =>
        \A i \in Leaves : value[i][1] = "after" \/ Settled(i)
    /\ OwnOverridesOnly

(* Whether they are depends on the structure and the environment alone.      *)
LEMMA PlainStays ==
    ASSUME schema' = schema, env' = env PROVE (Plain' <=> Plain) /\ (Spills' <=> Spills)
<1>1. /\ Leaves' = Leaves /\ Positions' = Positions
      /\ \A i : Path(i)' = Path(i)
      /\ \A i : Tag(i)' = Tag(i)
  BY StructureStays, Zenon
<1>2. \A i : Depth(i)' = Depth(i) /\ Key(i)' = Key(i)
  BY <1>1, Zenon DEF Depth, Key
<1>3. \A i, j : SameFolder(i, j)' <=> SameFolder(i, j)
  BY <1>1, <1>2, Zenon DEF SameFolder
<1>4. Sections' = Sections
  OBVIOUS
<1> HIDE DEF Leaves, Positions, Sections
<1>5. CaseTold' <=> CaseTold
  BY <1>1, <1>2, <1>3, <1>4, Zenon DEF CaseTold
<1>6. Found' = Found
  BY <1>1, <1>2 DEF Found, InEnv
<1>7. Spills' <=> Spills
  BY <1>6, Zenon DEF Spills
<1> QED
  BY <1>5, <1>7 DEF Plain

(* A walk gives its leaves values of its hooks, which are not overrides.     *)
LEMMA WalkValues ==
    ASSUME TypeOK, NEW source \in Sources, NEW next \in Stages, Walk(source, next)
    PROVE /\ \A j \in Leaves : value'[j][1] = source \/ value'[j] = value[j]
          /\ stage' \in {stage, next, "panic", "hookPanic"}
<1>1. CASE PassOver \/ PanicOnOpaque \/ EndWalk(next)
  BY <1>1 DEF PassOver, PanicOnOpaque, EndWalk
<1>2. CASE Visit(source) \/ PanicInHook(source) \/ PanicOnRepeated(source)
  <2>1. pos \in Positions /\ HookWrites(pos, source) /\ stage' \in {stage, "panic", "hookPanic"}
    BY <1>2 DEF Visit, PanicInHook, PanicOnRepeated
  <2>2. \A j \in Leaves : value'[j] = <<source, Path(pos)>> \/ value'[j] = value[j]
    BY <2>1, HookValues DEF TypeOK, Values
  <2> QED
    BY <2>1, <2>2
<1> QED
  BY <1>1, <1>2 DEF Walk

(* The inductive invariant of the values: which sources a leaf may have met  *)
(* at each stage.                                                            *)
THEOREM ValuesInductive == Spec => []ValueInv
<1>1. Init => ValueInv
  BY DEF Init, ValueInv, EnvTied, Initial, OwnOverridesOnly, Plain
<1>2. TypeOK /\ ValueInv /\ [Next]_vars => ValueInv'
  <2> SUFFICES ASSUME TypeOK, ValueInv, [Next]_vars PROVE ValueInv'
    OBVIOUS
  <2>1. /\ schema' = schema /\ file' = file /\ env' = env /\ schema \in Schemas
        /\ env \in [Leaves -> Texts] /\ value \in [Leaves -> Values]
    BY InputsStay DEF TypeOK, Values
  <2>2. /\ Leaves' = Leaves
        /\ \A i : Path(i)' = Path(i)
        /\ \A i : EnvName(i)' = EnvName(i)
        /\ \A i : Overridable(i)' <=> Overridable(i)
    BY <2>1, StructureStays
  <2> HIDE DEF Leaves
  <2> DEFINE
        Init2(i) == value'[i][1] \in {"zero", "before"}
        Given2(i) == IF i \in file THEN value'[i] = <<"file", Path(i)>> ELSE Init2(i)
        Settled2(i) == IF Overridable(i) /\ env[i] # "unset"
                       THEN value'[i] = <<"env", Path(i)>> ELSE Given2(i)
        Goal ==
          /\ stage' \in {"init", "file"} => \A i \in Leaves : Init2(i)
          /\ stage' = "env" => \A i \in Leaves : Given2(i)
          /\ (stage' \in {"check", "ok"} /\ Plain) =>
                \A i \in Leaves : value'[i][1] = "after" \/ Settled2(i)
          /\ Plain => \A i \in Leaves : value'[i][1] = "env" => value'[i][2] = Path(i)
  <2>3. ASSUME ParseInit PROVE Goal
    <3>1. /\ stage = "init" /\ stage' \in {"init", "file", "panic", "hookPanic"}
          /\ \A j \in Leaves : value'[j][1] = "before" \/ value'[j] = value[j]
      BY <2>3, WalkValues DEF ParseInit, Sources, Stages
    <3> QED
      BY <3>1 DEF ValueInv, Initial
  <2>4. ASSUME ParseDefault PROVE Goal
    <3>1. /\ stage = "check" /\ stage' \in {"check", "ok", "panic", "hookPanic"}
          /\ \A j \in Leaves : value'[j][1] = "after" \/ value'[j] = value[j]
      BY <2>4, WalkValues DEF ParseDefault, Sources, Stages
    <3> QED
      BY <3>1 DEF ValueInv, Settled, Given, Initial, OwnOverridesOnly, Plain
  <2>5. ASSUME DecodeFile \/ DecodeFileFails PROVE Goal
    <3>1. PICK written \in SUBSET file : Decoded(written) /\ (stage' = "env" => written = file)
      BY <2>5 DEF DecodeFile, DecodeFileFails
    <3>2. stage = "file" /\ stage' \in {"env", "failed"}
      BY <2>5 DEF DecodeFile, DecodeFileFails
    <3>3. \A j \in Leaves : value'[j] = IF j \in written THEN <<"file", Path(j)>> ELSE value[j]
      BY <2>1, <3>1, DecodedValues
    <3> QED
      <4>1. \A i \in Leaves : Initial(i)
        BY <3>2 DEF ValueInv
      <4>2. ASSUME NEW i \in Leaves
            PROVE /\ stage' = "env" => Given2(i)
                  /\ value'[i][1] # "env"
        <5>1. CASE i \in written
          <6>1. value'[i] = <<"file", Path(i)>>
            BY <3>3, <5>1
          <6>2. i \in file
            BY <3>1, <5>1
          <6> QED
            BY <6>1, <6>2
        <5>2. CASE i \notin written
          <6>1. value'[i] = value[i] /\ value[i][1] \in {"zero", "before"}
            BY <3>3, <4>1, <5>2 DEF Initial
          <6>2. stage' = "env" => i \notin file
            BY <3>1, <5>2
          <6> QED
            BY <6>1, <6>2
        <5> QED
          BY <5>1, <5>2
      <4> QED
        BY <3>2, <4>2
  <2>6. ASSUME ParseEnv, Plain PROVE Goal
    <3>1. /\ stage = "env" /\ stage' = "check" /\ ~Malformed /\ ~Misfits
          /\ Overridden({j \in Leaves : OverriddenBy(j) # {}})
      BY <2>6 DEF ParseEnv, Plain
    <3> DEFINE written == {j \in Leaves : OverriddenBy(j) # {}}
    <3>2. EnvTied /\ CaseTold /\ ~Spills
      BY <2>6 DEF ValueInv, Plain
    <3>3. written \in SUBSET Leaves /\ Overridden(written)
      BY <3>1
    <3>4. ASSUME NEW j \in Leaves
          PROVE /\ value'[j] = IF j \in written THEN <<"env", Path(j)>> ELSE value[j]
                /\ j \in written <=> Overridable(j) /\ env[j] # "unset"
      <4>1. value'[j] = IF j \in written THEN <<"env", Path(j)>> ELSE value[j]
        <5> HIDE DEF written
        <5> QED
          BY <2>1, <3>1, <3>2, <3>3, OverriddenValue, Zenon
      <4>2. OverriddenBy(j) # {} => Overridable(j) /\ env[j] # "unset"
        BY <2>1, <3>1, <3>2, OverriddenByOwn, Zenon
      <4>3. (Overridable(j) /\ env[j] # "unset") => OverriddenBy(j) = {j}
        BY <2>1, <3>1, <3>2, OverriddenByOwn, Zenon
      <4> QED
        BY <4>1, <4>2, <4>3
    <3>5. ASSUME NEW i \in Leaves
          PROVE Settled2(i) /\ (value'[i][1] = "env" => value'[i][2] = Path(i))
      <4> HIDE DEF written
      <4>1. CASE Overridable(i) /\ env[i] # "unset"
        <5>1. value'[i] = <<"env", Path(i)>>
          BY <3>4, <4>1
        <5> QED
          BY <4>1, <5>1
      <4>2. CASE ~(Overridable(i) /\ env[i] # "unset")
        <5>1. value'[i] = value[i]
          BY <3>4, <4>2
        <5>2. Given(i) /\ (value[i][1] = "env" => value[i][2] = Path(i))
          BY <2>6, <3>1 DEF ValueInv, OwnOverridesOnly, Plain
        <5> QED
          BY <4>2, <5>1, <5>2 DEF Given, Initial
      <4> QED
        BY <4>1, <4>2
    <3> QED
      BY <3>1, <3>5
  <2>7. ASSUME ParseEnvFails, Plain PROVE Goal
    <3>1. stage = "env" /\ stage' = "failed" /\ EnvTied /\ CaseTold /\ ~Spills
      BY <2>7 DEF ParseEnvFails, ValueInv, Plain
    <3>2. CASE Malformed
      <4>1. value' = value
        BY <2>7, <3>1, <3>2 DEF ParseEnvFails
      <4> QED
        BY <3>1, <4>1 DEF ValueInv, OwnOverridesOnly
    <3>3. CASE ~Malformed
      <4>1. PICK written \in SUBSET Leaves : Overridden(written)
        BY <2>7, <3>3 DEF ParseEnvFails
      <4>2. \A j \in Leaves : value'[j] = IF j \in written THEN <<"env", Path(j)>> ELSE value[j]
        BY <2>1, <3>1, <3>3, <4>1, OverriddenValue
      <4>3. ASSUME NEW i \in Leaves, value'[i][1] = "env" PROVE value'[i][2] = Path(i)
        <5>1. CASE value'[i] = <<"env", Path(i)>>
          BY <5>1
        <5>2. CASE value'[i] = value[i]
          BY <3>1, <4>3, <5>2 DEF ValueInv, OwnOverridesOnly
        <5> QED
          BY <4>2, <5>1, <5>2
      <4> QED
        BY <3>1, <4>3
    <3> QED
      BY <3>2, <3>3
  <2>11. ASSUME ParseEnv \/ ParseEnvFails, ~Plain PROVE Goal
    BY <2>11 DEF ParseEnv, ParseEnvFails
  <2>8. ASSUME UNCHANGED vars PROVE Goal
    BY <2>8 DEF vars, ValueInv, Settled, Given, Initial, OwnOverridesOnly, Plain
  <2>9. Goal
    BY <2>3, <2>4, <2>5, <2>6, <2>7, <2>8, <2>11 DEF Next
  <2>10. EnvTied'
    BY <2>1, <2>2, Zenon DEF ValueInv, EnvTied
  <2>12. Plain' <=> Plain
    BY <2>1, PlainStays
  <2>13. (CaseTold /\ ~Spills)' <=> Plain
    BY <2>12 DEF Plain
  <2> QED
    BY <2>1, <2>2, <2>9, <2>10, <2>12, <2>13, Zenon
       DEF ValueInv, Initial, Given, Settled, OwnOverridesOnly
<1> QED
  BY <1>1, <1>2, TypeCorrect, PTL DEF Spec

(* The order of the sources: AfterParse, environment, file, BeforeParse, for *)
(* the leaves that the environment can override, in every structure whose    *)
(* names the case of a later letter does not have to tell apart.             *)
THEOREM PrecedenceHolds == Spec => []Precedence
<1>1. ValueInv => Precedence
  BY DEF ValueInv, Precedence, Settled, Given, Initial, Plain
<1> QED
  BY <1>1, ValuesInductive, PTL

(* In every such structure an override lands in no other leaf.               *)
THEOREM OverridesStayHome == Spec => []OwnOverridesOnly
<1>1. ValueInv => OwnOverridesOnly
  BY DEF ValueInv
<1> QED
  BY <1>1, ValuesInductive, PTL

(* Two sections of one name are refused, whatever single values the          *)
(* environment holds: no stage past ParseEnv is reached with them.           *)
THEOREM AmbiguousNeverParses == Spec => []AmbiguousRefused
<1>1. Init => AmbiguousRefused
  BY DEF Init, AmbiguousRefused
<1>2. AmbiguousRefused /\ [Next]_vars => AmbiguousRefused'
  <2> SUFFICES ASSUME AmbiguousRefused, [Next]_vars, stage' \in {"check", "ok"}, ~Spills',
                      NEW s \in Sections', NEW t \in Sections',
                      InEnv(s)', InEnv(t)', s # t
               PROVE (Key(s) # Key(t))'
    BY DEF AmbiguousRefused
  <2>1. schema' = schema /\ ~Spills
    BY InputsStay, PlainStays
  <2>2. /\ s \in Sections /\ t \in Sections /\ InEnv(s) /\ InEnv(t)
        /\ Key(s)' = Key(s) /\ Key(t)' = Key(t)
    BY <2>1 DEF Sections, Positions, InEnv, Key, Tag, Path, Depth
  <2>3. CASE stage \in {"check", "ok"}
    BY <2>1, <2>2, <2>3 DEF AmbiguousRefused
  <2>4. CASE stage \notin {"check", "ok"}
    <3>1. ParseEnv
      BY <2>4 DEF Next, vars, ParseInit, ParseDefault, Walk, PassOver, Visit, PanicInHook,
         PanicOnOpaque, PanicOnRepeated, EndWalk, DecodeFile, DecodeFileFails, ParseEnvFails
    <3>2. ~Ambiguous
      BY <2>1, <3>1 DEF ParseEnv, Malformed
    <3> QED
      BY <2>2, <3>2 DEF Ambiguous, Headers
  <2> QED
    BY <2>3, <2>4
<1> QED
  BY <1>1, <1>2, PTL DEF Spec
=============================================================================
