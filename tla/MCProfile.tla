----------------------------- MODULE MCProfile -----------------------------
(* Model-checking module of Profile: small configuration structures, each   *)
(* with something that Parse must get right.                                *)
EXTENDS Profile

Leaf(p) == [path |-> p, kind |-> "leaf"]
Section(p) == [path |-> p, kind |-> "section"]
Opaque(p) == [path |-> p, kind |-> "opaque"]

(* As in test.toml: a section, and a leaf outside of it. *)
Flat == <<Section(<<"A">>), Leaf(<<"A", "n">>), Leaf(<<"A", "m">>), Leaf(<<"n">>)>>

(* A section in a section. *)
Nested == <<Section(<<"a">>), Leaf(<<"a", "n">>), Section(<<"a", "b">>), Leaf(<<"a", "b", "n">>)>>

(* Two sections that end in one name. *)
SameName == <<Section(<<"a">>), Leaf(<<"a", "n">>), Section(<<"b">>),
              Section(<<"b", "a">>), Leaf(<<"b", "a", "n">>)>>

(* A section that ends in the name of a leaf outside of all sections. *)
LikeLeaf == <<Leaf(<<"b">>), Section(<<"a">>), Section(<<"a", "b">>), Leaf(<<"a", "b", "n">>)>>

(* What is left out: a section, a leaf; an empty tag. *)
LeftOut == <<Section(<<"-">>), Leaf(<<"-", "n">>), Opaque(<<"-", "m">>), Leaf(<<"-">>),
             Section(<<"a">>), Leaf(<<"a", "">>), Leaf(<<"a", "n">>)>>

(* Two leaves of one tag, and two whose tags differ in the first letter. *)
Twins == <<Section(<<"a">>), Leaf(<<"a", "n">>), Leaf(<<"a", "n">>)>>
Cased == <<Section(<<"a">>), Leaf(<<"a", "n">>), Leaf(<<"a", "N">>)>>

(* A field of type time.Time is a section with unexported fields. *)
Time == <<Leaf(<<"n">>), Section(<<"a">>), Opaque(<<"a", "m">>)>>

(* Leaves, and sections, whose names differ in another letter. *)
CasedLeaves == <<Leaf(<<"ab">>), Leaf(<<"AB">>)>>
CasedSections == <<Section(<<"ab">>), Leaf(<<"ab", "n">>), Section(<<"AB">>), Leaf(<<"AB", "n">>)>>

(* A section of an empty tag, and a leaf that is called as one of its own. *)
Untagged == <<Leaf(<<"n">>), Section(<<"">>), Leaf(<<"", "n">>)>>

MCSchemas ==
    {Flat, Nested, SameName, LikeLeaf, LeftOut, Twins, Cased, Time, CasedLeaves, CasedSections, Untagged}
MCTags == {"a", "A", "b", "n", "N", "m", "ab", "aB", "AB", "-", ""}
MCUnTitle ==
    [t \in MCTags |-> CASE t = "A" -> "a" [] t = "N" -> "n" [] t = "AB" -> "aB" [] OTHER -> t]
MCFold ==
    [t \in MCTags |-> CASE t = "A" -> "a" [] t = "N" -> "n" [] t \in {"AB", "aB"} -> "ab" [] OTHER -> t]
=============================================================================
