------------------------------ MODULE Licenses ------------------------------
(***************************************************************************)
(* SPDX license expressions and license policies                           *)
(* (packages/models/src/license.rs).  A text is a sequence of words and    *)
(* parentheses; an expression is <<"id", l>>, <<"with", l, x>>,            *)
(* <<"and", e, f>> or <<"or", e, f>>.                                      *)
(***************************************************************************)
EXTENDS Integers, Sequences, SequencesExt, FiniteSets

CONSTANTS Words,       \* identifiers that texts are made of
          MaxLength    \* bound: words of a text

VARIABLE text

Keywords == {"OR", "AND", "WITH"}
Signs == {"(", ")"}
Tokens == Words \cup Keywords \cup Signs

-----------------------------------------------------------------------------
\* The parser: each step gives <<expression, position>>, or <<"error">>.
Failed(r) == r = <<"error">>
At(t, p) == IF p <= Len(t) THEN t[p] ELSE "end"

\* parse_identifier: any word will do, a keyword too.
Identifier(t, p) ==
    IF At(t, p) \in Words \cup Keywords THEN <<<<"id", t[p]>>, p + 1>> ELSE <<"error">>

RECURSIVE ParseOr(_, _), ParseAnd(_, _), MoreOr(_, _), MoreAnd(_, _)

ParsePrimary(t, p) ==
    IF At(t, p) # "(" THEN Identifier(t, p)
    ELSE LET inner == ParseOr(t, p + 1)
         IN IF Failed(inner) THEN inner
            ELSE IF At(t, inner[2]) = ")" THEN <<inner[1], inner[2] + 1>> ELSE <<"error">>

\* An exception goes with an identifier only.
ParseWith(t, p) ==
    LET license == ParsePrimary(t, p)
    IN IF Failed(license) THEN license
       ELSE IF At(t, license[2]) # "WITH" THEN license
       ELSE LET exception == Identifier(t, license[2] + 1)
            IN IF Failed(exception) \/ license[1][1] # "id" THEN <<"error">>
               ELSE <<<<"with", license[1][2], exception[1][2]>>, exception[2]>>

\* The operators associate to the left.
MoreAnd(left, t) ==
    IF At(t, left[2]) # "AND" THEN left
    ELSE LET right == ParseWith(t, left[2] + 1)
         IN IF Failed(right) THEN right
            ELSE MoreAnd(<<<<"and", left[1], right[1]>>, right[2]>>, t)

ParseAnd(t, p) ==
    LET left == ParseWith(t, p) IN IF Failed(left) THEN left ELSE MoreAnd(left, t)

MoreOr(left, t) ==
    IF At(t, left[2]) # "OR" THEN left
    ELSE LET right == ParseAnd(t, left[2] + 1)
         IN IF Failed(right) THEN right
            ELSE MoreOr(<<<<"or", left[1], right[1]>>, right[2]>>, t)

ParseOr(t, p) ==
    LET left == ParseAnd(t, p) IN IF Failed(left) THEN left ELSE MoreOr(left, t)

\* LicenseExpr::parse: what follows the expression is not looked at.
Parse(t) == ParseOr(t, 1)
Parses(t) == ~Failed(Parse(t))
Expression(t) == Parse(t)[1]

\* Display
RECURSIVE Shown(_)
Shown(e) ==
    CASE e[1] = "id" -> <<e[2]>>
      [] e[1] = "with" -> <<e[2], "WITH", e[3]>>
      [] e[1] = "and" -> <<"(">> \o Shown(e[2]) \o <<"AND">> \o Shown(e[3]) \o <<")">>
      [] e[1] = "or" -> <<"(">> \o Shown(e[2]) \o <<"OR">> \o Shown(e[3]) \o <<")">>

RECURSIVE AllLicenses(_), SatisfiedBy(_, _), Choice(_, _)
AllLicenses(e) ==
    IF e[1] \in {"id", "with"} THEN <<e[2]>> ELSE AllLicenses(e[2]) \o AllLicenses(e[3])

SatisfiedBy(e, allowed) ==
    CASE e[1] \in {"id", "with"} -> e[2] \in allowed
      [] e[1] = "and" -> SatisfiedBy(e[2], allowed) /\ SatisfiedBy(e[3], allowed)
      [] e[1] = "or" -> SatisfiedBy(e[2], allowed) \/ SatisfiedBy(e[3], allowed)

\* find_satisfying_choice: the licenses chosen, or <<>> for none; the left
\* alternative goes first.
Choice(e, allowed) ==
    CASE e[1] \in {"id", "with"} -> IF e[2] \in allowed THEN <<e>> ELSE <<>>
      [] e[1] = "and" ->
            LET l == Choice(e[2], allowed)  r == Choice(e[3], allowed)
            IN IF l = <<>> \/ r = <<>> THEN <<>> ELSE l \o r
      [] e[1] = "or" ->
            LET l == Choice(e[2], allowed) IN IF l # <<>> THEN l ELSE Choice(e[3], allowed)

-----------------------------------------------------------------------------
Info(osi, copyleft, category) == [osi |-> osi, copyleft |-> copyleft, category |-> category]

\* load_common_licenses: what is known of the licenses.
Database ==
    [l \in {"MIT", "Apache-2.0", "BSD-2-Clause", "BSD-3-Clause", "ISC"} |->
        Info(TRUE, "none", "permissive")]
    @@ [l \in {"Unlicense", "CC0-1.0"} |-> Info(l = "Unlicense", "none", "public-domain")]
    @@ [l \in {"LGPL-2.1-only", "LGPL-3.0-only", "MPL-2.0", "EPL-2.0"} |->
        Info(TRUE, "weak", "copyleft")]
    @@ [l \in {"GPL-2.0-only", "GPL-3.0-only"} |-> Info(TRUE, "strong", "copyleft")]
    @@ [l \in {"AGPL-3.0-only"} |-> Info(TRUE, "network", "copyleft")]
    @@ [l \in {"SSPL-1.0", "BSL-1.0"} |->
        Info(FALSE, IF l = "SSPL-1.0" THEN "network" ELSE "none", "proprietary")]

\* LicensePolicy: default, permissive_only and enterprise.
DefaultPolicy ==
    [denied |-> {}, deniedCategories |-> {}, copyleft |-> TRUE, network |-> FALSE,
     osi |-> FALSE, unknown |-> FALSE]
PermissiveOnly == [DefaultPolicy EXCEPT !.copyleft = FALSE]
Enterprise ==
    [DefaultPolicy EXCEPT !.osi = TRUE,
        !.denied = {"AGPL-3.0-only", "AGPL-3.0-or-later", "GPL-3.0-only", "GPL-3.0-or-later",
                    "SSPL-1.0", "Commons-Clause"}]
Policies == {DefaultPolicy, PermissiveOnly, Enterprise}

\* What validate() finds against one license.
Violations(l, policy) ==
    IF l \in policy.denied THEN {"denied"}
    ELSE IF l \notin DOMAIN Database THEN IF policy.unknown THEN {} ELSE {"unknown"}
    ELSE LET i == Database[l]
         IN {v \in {"category", "copyleft", "network", "osi"} :
                \/ v = "category" /\ i.category \in policy.deniedCategories
                \/ v = "copyleft" /\ ~policy.copyleft /\ i.copyleft \in {"weak", "strong"}
                \/ v = "network" /\ ~policy.network /\ i.copyleft = "network"
                \/ v = "osi" /\ policy.osi /\ ~i.osi}

\* validate, of a text that parses: every license of the expression is held
\* against the policy, those of an alternative too.
Compliant(e, policy) == \A l \in ToSet(AllLicenses(e)) : Violations(l, policy) = {}

-----------------------------------------------------------------------------
Init == text = <<>>
Next == Len(text) < MaxLength /\ \E w \in Tokens : text' = Append(text, w)

\* The reference grammar: a text is the expression e if it is e written with
\* as few parentheses as the precedence of WITH, AND and OR allows it.
Level(e) == CASE e[1] \in {"id", "with"} -> 3 [] e[1] = "and" -> 2 [] e[1] = "or" -> 1
RECURSIVE Written(_, _)
Written(e, least) ==
    LET plain ==
            CASE e[1] = "id" -> <<e[2]>>
              [] e[1] = "with" -> <<e[2], "WITH", e[3]>>
              [] e[1] = "and" -> Written(e[2], 2) \o <<"AND">> \o Written(e[3], 3)
              [] e[1] = "or" -> Written(e[2], 1) \o <<"OR">> \o Written(e[3], 2)
    IN IF Level(e) >= least THEN plain ELSE <<"(">> \o plain \o <<")">>

\* An expression that was read is read again the same from what Display writes,
\* and from its shortest form.
ReadAgain ==
    Parses(text) =>
        LET e == Expression(text)
        IN Parse(Shown(e)) = <<e, Len(Shown(e)) + 1>>
           /\ Parse(Written(e, 1)) = <<e, Len(Written(e, 1)) + 1>>

\* A choice is found just when the expression is satisfied, of allowed licenses
\* of the expression, and is enough to satisfy it.
ChoiceSatisfies ==
    Parses(text) =>
        LET e == Expression(text)
        IN \A allowed \in SUBSET ToSet(AllLicenses(e)) :
              LET chosen == {c[2] : c \in ToSet(Choice(e, allowed))}
              IN /\ (chosen # {}) = SatisfiedBy(e, allowed)
                 /\ chosen \subseteq allowed
                 /\ chosen # {} => SatisfiedBy(e, chosen)

\* What complies with a policy is satisfied by the licenses the policy has
\* nothing against, and what complies with a stricter policy complies with the
\* default.
ComplianceSatisfies ==
    Parses(text) =>
        LET e == Expression(text)
        IN \A policy \in Policies : Compliant(e, policy) =>
              /\ SatisfiedBy(e, {l \in ToSet(AllLicenses(e)) : Violations(l, policy) = {}})
              /\ Compliant(e, DefaultPolicy)
=============================================================================
