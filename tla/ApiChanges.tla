----------------------------- MODULE ApiChanges -----------------------------
(***************************************************************************)
(* The public API of a source file (apps/analysis/src/ast_parser.rs): the  *)
(* symbols that are read off the syntax trees of six languages.  A file is *)
(* a sequence of declarations [kind, name, mark, within, params, returns,  *)
(* generics, receiver]: within is the declaration that holds it, 0 for     *)
(* none; a name is a sequence of letters; mark is the visibility that is   *)
(* written before it, "export" for JavaScript, "none" for none.            *)
(*                                                                         *)
(* And, in the second half, the changes between the public APIs of two     *)
(* versions of a package (breaking_detector.rs): a source is written,      *)
(* released and edited, and the symbols of the two versions are compared.  *)
(* Strings are sequences of letters and words, of which a word counts as   *)
(* one letter; similarities are in hundredths.                             *)
(***************************************************************************)
EXTENDS Integers, Sequences, SequencesExt, FiniteSets

CONSTANTS Capitals,        \* the letters that are upper case
          ModifiersField,  \* whether the grammar of Java has a field "modifiers"
          Names,           \* names of declarations
          Forms,           \* of each language: [kind, mark, params, returns, generics, receiver]
          MaxDeclarations, \* bound: declarations of a source
          None

VARIABLES language, source,
          released         \* the source of the version before, None before the release

\* Visibility::is_public, level
Level(visibility) ==
    CASE visibility = "Public" -> 5 [] visibility = "Protected" -> 4
      [] visibility \in {"Crate", "Internal"} -> 3 [] visibility = "Super" -> 2
      [] visibility = "Private" -> 1
IsPublic(s) == s.visibility = "Public"

Symbol(kind, path, name, visibility, signature) ==
    [kind |-> kind, path |-> Append(path, name), name |-> name, visibility |-> visibility,
     signature |-> signature, params |-> <<>>, returns |-> None, generics |-> <<>>]

\* The declarations within one, and the symbols of several, in their order.
Within(f, i) == SelectSeq([j \in DOMAIN f |-> j], LAMBDA j : f[j].within = i)
Each(Of(_), ns) == FlattenSeq([i \in DOMAIN ns |-> Of(ns[i])])

Separated(ps, Shown(_)) ==
    FlattenSeq([i \in DOMAIN ps |-> IF i = 1 THEN Shown(ps[i]) ELSE <<",">> \o Shown(ps[i])])
Annotated(p) == IF p.type = None THEN p.name ELSE p.name \o <<":", p.type>>
NameOf(p) == p.name

-----------------------------------------------------------------------------
(* Rust *)

GetRustVisibility(n) ==
    CASE n.mark = "pub(crate)" -> "Crate" [] n.mark = "pub(super)" -> "Super"
      [] n.mark = "none" -> "Private" [] OTHER -> "Public"

Parameter(name, type, default, optional) ==
    [name |-> name, type |-> type, default |-> default, optional |-> optional]

ParseRustParameters(ps) ==
    LET kept == SelectSeq(ps, LAMBDA p : p.kind # "self")
    IN [i \in DOMAIN kept |-> Parameter(kept[i].name, kept[i].type, None, FALSE)]

ParseRustFunction(n, path) ==
    LET params == ParseRustParameters(n.params)
        signature == <<"fn">> \o n.name \o <<"(">> \o Separated(params, Annotated) \o <<")">>
                        \o IF n.returns = None THEN <<>> ELSE <<"->", n.returns>>
    IN [Symbol("Function", path, n.name, GetRustVisibility(n), signature) EXCEPT
           !.params = params, !.returns = n.returns, !.generics = n.generics]

ParseRustStruct(n, path) ==
    LET signature == <<"struct">> \o n.name
                        \o IF n.generics = <<>> THEN <<>> ELSE <<"<">> \o n.generics \o <<">">>
    IN [Symbol("Struct", path, n.name, GetRustVisibility(n), signature) EXCEPT !.generics = n.generics]

ParseRustEnum(n, path) == Symbol("Enum", path, n.name, GetRustVisibility(n), <<"enum">> \o n.name)
ParseRustTrait(n, path) == Symbol("Trait", path, n.name, GetRustVisibility(n), <<"trait">> \o n.name)

ParseRustConst(n, path) ==
    [Symbol("Constant", path, n.name, GetRustVisibility(n),
            <<n.kind>> \o n.name \o IF n.returns = None THEN <<>> ELSE <<":", n.returns>>)
        EXCEPT !.returns = n.returns]

\* A type alias of tree-sitter-rust is a type_item: no declaration is "type_alias".
ParseRustTypeAlias(n, path) == Symbol("Type", path, n.name, GetRustVisibility(n), <<"type">> \o n.name)

Functions(f, i) == SelectSeq(Within(f, i), LAMBDA j : f[j].kind = "fn")

\* The methods as they would be if they were read beside their type.
MethodsBesideType(f, i, path) ==
    [j \in DOMAIN Functions(f, i) |->
        [ParseRustFunction(f[Functions(f, i)[j]], path) EXCEPT !.kind = "Method"]]

ExtractRustImplMethods(f, i, path) ==
    [j \in DOMAIN Functions(f, i) |->
        [ParseRustFunction(f[Functions(f, i)[j]], Append(path, f[i].name)) EXCEPT !.kind = "Method"]]

\* walk_rust_tree: what is within a module is read under the path of the
\* module and, as what is within anything, once more under the path around it.
RECURSIVE WalkRustTree(_, _, _)
WalkRustTree(f, i, path) ==
    LET n == f[i]
        own == CASE n.kind = "fn" -> <<ParseRustFunction(n, path)>>
                 [] n.kind = "struct" -> <<ParseRustStruct(n, path)>>
                 [] n.kind = "enum" -> <<ParseRustEnum(n, path)>>
                 [] n.kind = "trait" -> <<ParseRustTrait(n, path)>>
                 [] n.kind = "impl" -> ExtractRustImplMethods(f, i, path)
                 [] n.kind = "mod" ->
                        Each(LAMBDA j : WalkRustTree(f, j, Append(path, n.name)), Within(f, i))
                 [] n.kind \in {"const", "static"} -> <<ParseRustConst(n, path)>>
                 [] n.kind = "type_alias" -> <<ParseRustTypeAlias(n, path)>>
                 [] OTHER -> <<>>
    IN own \o Each(LAMBDA j : WalkRustTree(f, j, path), Within(f, i))

ExtractRustSymbols(f) == Each(LAMBDA i : WalkRustTree(f, i, <<>>), Within(f, 0))

-----------------------------------------------------------------------------
(* JavaScript and TypeScript *)

\* Of parameters with a default or a type, nothing is read.
ParseJsParameters(ps) ==
    LET kept == SelectSeq(ps, LAMBDA p : p.type = None /\ p.default = None /\ p.kind # "self")
    IN [i \in DOMAIN kept |-> Parameter(kept[i].name, None, None, FALSE)]

Exported(is) == IF is THEN "Public" ELSE "Private"

ParseJsFunction(n, is) ==
    LET params == ParseJsParameters(n.params)
    IN [Symbol("Function", <<>>, n.name, Exported(is),
               <<"function">> \o n.name \o <<"(">> \o Separated(params, NameOf) \o <<")">>)
           EXCEPT !.params = params]
ParseJsClass(n, is) == Symbol("Class", <<>>, n.name, Exported(is), <<"class">> \o n.name)
ExtractJsVariables(n, is) == <<Symbol("Constant", <<>>, n.name, Exported(is), <<"const">> \o n.name)>>

ExtractJsDeclaration(n, is) ==
    CASE n.kind = "fn" -> <<ParseJsFunction(n, is)>>
      [] n.kind = "class" -> <<ParseJsClass(n, is)>>
      [] n.kind = "const" -> ExtractJsVariables(n, is)
      [] OTHER -> <<>>

\* walk_js_tree: a declaration that is exported is read once more as one that
\* is not; the methods of a class are not read.
RECURSIVE WalkJsTree(_, _)
WalkJsTree(f, i) ==
    LET method == f[i].kind = "fn" /\ f[i].within # 0 /\ f[f[i].within].kind = "class"
    IN (IF f[i].mark = "export" THEN ExtractJsDeclaration(f[i], TRUE) ELSE <<>>)
       \o (IF method THEN <<>> ELSE ExtractJsDeclaration(f[i], FALSE))
       \o Each(LAMBDA j : WalkJsTree(f, j), Within(f, i))

ExtractJsSymbols(f) == Each(LAMBDA i : WalkJsTree(f, i), Within(f, 0))

-----------------------------------------------------------------------------
(* Python *)

Underscored(n) == Head(n.name) = "_"
Dunder(n) == Len(n.name) > 1 /\ SubSeq(n.name, 1, 2) = <<"_", "_">>

ParsePythonParameters(ps) ==
    LET kept == SelectSeq(ps, LAMBDA p : p.kind # "self")
    IN [i \in DOMAIN kept |->
           LET p == kept[i]
           IN IF p.kind = "splat" THEN Parameter(p.name, None, None, TRUE)
              ELSE Parameter(p.name, p.type, p.default, p.default # None)]

ParsePythonFunction(n, path) ==
    LET params == ParsePythonParameters(n.params)
    IN [Symbol(IF Len(path) > 1 THEN "Method" ELSE "Function", path, n.name,
               IF Underscored(n) /\ ~Dunder(n) THEN "Private" ELSE "Public",
               <<"def">> \o n.name \o <<"(">> \o Separated(params, NameOf) \o <<")">>)
           EXCEPT !.params = params, !.returns = n.returns]

ParsePythonClass(n, path) ==
    Symbol("Class", path, n.name, IF Underscored(n) THEN "Private" ELSE "Public",
           <<"class">> \o n.name)

\* walk_python_tree: what is within a function is not read.
RECURSIVE WalkPythonTree(_, _, _)
WalkPythonTree(f, i, path) ==
    CASE f[i].kind = "fn" -> <<ParsePythonFunction(f[i], path)>>
      [] f[i].kind = "class" ->
            <<ParsePythonClass(f[i], path)>>
            \o Each(LAMBDA j : WalkPythonTree(f, j, Append(path, f[i].name)), Within(f, i))
      [] OTHER -> Each(LAMBDA j : WalkPythonTree(f, j, path), Within(f, i))

ExtractPythonSymbols(f) == Each(LAMBDA i : WalkPythonTree(f, i, <<>>), Within(f, 0))

-----------------------------------------------------------------------------
(* Go and Java: the signature is the text of the whole declaration. *)

RECURSIVE Text(_, _)
Text(f, i) ==
    LET n == f[i]
    IN <<n.mark, n.kind>> \o n.name \o Separated(n.params, Annotated) \o <<n.returns>>
        \o Each(LAMBDA j : Text(f, j), Within(f, i))

Capital(n) == IF Head(n.name) \in Capitals THEN "Public" ELSE "Private"

\* walk_go_tree: a method is told under the text of its receiver.
RECURSIVE WalkGoTree(_, _)
WalkGoTree(f, i) ==
    LET n == f[i]
        receiver == IF n.receiver = None THEN <<>> ELSE <<n.receiver>>
        own == CASE n.kind = "fn" -> <<Symbol("Function", receiver, n.name, Capital(n), Text(f, i))>>
                 [] n.kind \in {"struct", "interface", "type"} ->
                        <<Symbol(CASE n.kind = "struct" -> "Struct" [] n.kind = "interface" -> "Interface"
                                   [] OTHER -> "Type", <<>>, n.name, Capital(n), Text(f, i))>>
                 [] OTHER -> <<>>
    IN own \o Each(LAMBDA j : WalkGoTree(f, j), Within(f, i))

ExtractGoSymbols(f) == Each(LAMBDA i : WalkGoTree(f, i), Within(f, 0))

\* java_visibility looks for the modifiers in a field of that name.
JavaVisibility(n) ==
    CASE ModifiersField /\ n.mark = "public" -> "Public"
      [] ModifiersField /\ n.mark = "protected" -> "Protected"
      [] ModifiersField /\ n.mark = "private" -> "Private"
      [] OTHER -> "Internal"

\* walk_java_tree: a method is told under the class around it, a class under
\* its name only; class is <<>> outside of any.
RECURSIVE WalkJavaTree(_, _, _)
WalkJavaTree(f, i, class) ==
    LET n == f[i]
        type == n.kind \in {"class", "interface", "enum"}
        own == IF type
               THEN <<Symbol(CASE n.kind = "interface" -> "Interface" [] n.kind = "enum" -> "Enum"
                               [] OTHER -> "Class", <<>>, n.name, JavaVisibility(n), Text(f, i))>>
               ELSE IF n.kind = "fn"
               THEN <<Symbol("Method", class, n.name, JavaVisibility(n), Text(f, i))>>
               ELSE <<>>
    IN own \o Each(LAMBDA j : WalkJavaTree(f, j, IF type THEN <<n.name>> ELSE class), Within(f, i))

ExtractJavaSymbols(f) == Each(LAMBDA i : WalkJavaTree(f, i, <<>>), Within(f, 0))

-----------------------------------------------------------------------------
\* Language::from_extension
FromExtension(extension) ==
    CASE extension \in {"js", "jsx", "mjs", "cjs"} -> "JavaScript"
      [] extension \in {"ts", "tsx", "mts", "cts"} -> "TypeScript"
      [] extension \in {"py", "pyi"} -> "Python" [] extension = "rs" -> "Rust"
      [] extension = "go" -> "Go" [] extension = "java" -> "Java" [] OTHER -> None

\* ParserPool::parse
Parse(lang, f) ==
    CASE lang = "Rust" -> ExtractRustSymbols(f)
      [] lang \in {"JavaScript", "TypeScript"} -> ExtractJsSymbols(f)
      [] lang = "Python" -> ExtractPythonSymbols(f)
      [] lang = "Go" -> ExtractGoSymbols(f)
      [] lang = "Java" -> ExtractJavaSymbols(f)

\* compute_hash, as the value that is hashed: of each path the last symbol.
ComputeHash(symbols) ==
    [p \in {s.path : s \in ToSet(symbols)} |->
        LET last == Last(SelectSeq(symbols, LAMBDA s : s.path = p))
        IN <<last.signature, last.kind>>]

-----------------------------------------------------------------------------
(* The changes of two versions. *)

Minimum(a, b) == IF a < b THEN a ELSE b

\* levenshtein_distance: a row of the matrix for each letter of b.
RECURSIVE Row(_, _, _, _)
Row(a, letter, above, row) ==
    LET i == Len(row)
    IN IF i > Len(a) THEN row
       ELSE Row(a, letter, above,
                Append(row, Minimum(Minimum(row[i], above[i + 1]) + 1,
                                    above[i] + IF a[i] = letter THEN 0 ELSE 1)))
RECURSIVE Rows(_, _, _)
Rows(a, b, above) ==
    IF b = <<>> THEN above ELSE Rows(a, Tail(b), Row(a, Head(b), above, <<above[1] + 1>>))
LevenshteinDistance(a, b) == Last(Rows(a, b, [i \in 1 .. Len(a) + 1 |-> i - 1]))

\* string_similarity
StringSimilarity(a, b) ==
    LET longer == IF Len(a) < Len(b) THEN Len(b) ELSE Len(a)
    IN IF a = b THEN 100 ELSE IF a = <<>> \/ b = <<>> THEN 0
       ELSE 100 - (100 * LevenshteinDistance(a, b)) \div longer

Combined(s, t) ==
    (4 * StringSimilarity(s.name, t.name) + 6 * StringSimilarity(s.signature, t.signature)) \div 10

\* find_potential_rename: the symbols that one may be chosen of.
FindPotentialRename(s, new) ==
    LET likely == {p \in DOMAIN new : new[p].kind = s.kind /\ Combined(s, new[p]) >= 70}
    IN {p \in likely : \A q \in likely : Combined(s, new[q]) <= Combined(s, new[p])}

\* The public symbols by their path: the last one of several.
ByPath(symbols) ==
    LET public == SelectSeq(symbols, IsPublic)
    IN [p \in {s.path : s \in ToSet(public)} |-> Last(SelectSeq(public, LAMBDA s : s.path = p))]

Change(type, path, severity) == [type |-> type, path |-> path, severity |-> severity]

\* compare_parameters goes by name: the last of several parameters of a name
\* counts, and their order does not.
CompareParameters(s, t) ==
    LET by(ps) == [n \in {p.name : p \in ToSet(ps)} |-> Last(SelectSeq(ps, LAMBDA p : p.name = n))]
        old == by(s.params)  new == by(t.params)
        easy(n) == new[n].optional \/ new[n].default # None
    IN {Change("ParameterRemoved", s.path, "breaking") : n \in DOMAIN old \ DOMAIN new}
       \cup {IF easy(n) THEN Change("SignatureChanged", s.path, "info")
             ELSE Change("RequiredParameterAdded", s.path, "breaking") : n \in DOMAIN new \ DOMAIN old}
       \cup {Change("ParameterTypeChanged", s.path, "breaking") :
                n \in {m \in DOMAIN old \cap DOMAIN new : old[m].type # new[m].type}}

\* analyze_signature_change: a return type where there was none is compatible.
AnalyzeSignatureChange(s, t) ==
    CompareParameters(s, t)
    \cup (IF s.returns = t.returns THEN {}
          ELSE {Change("ReturnTypeChanged", s.path, IF s.returns = None THEN "warning" ELSE "breaking")})
    \cup (IF s.generics = t.generics THEN {}
          ELSE {Change("GenericConstraintsChanged", s.path, "warning")})

\* check_visibility_change: never, of public symbols.
CheckVisibilityChange(s, t) ==
    IF Level(s.visibility) > Level(t.visibility)
    THEN {Change("VisibilityReduced", s.path, "breaking")} ELSE {}

\* A symbol that is gone is renamed or removed.
Gone(s, new) ==
    Change(IF FindPotentialRename(s, new) # {} THEN "SymbolRenamed" ELSE "RemovedSymbol",
           s.path, "breaking")

DetectBreakingChanges(before, after) ==
    LET old == ByPath(before)  new == ByPath(after)
    IN {Gone(old[p], new) : p \in DOMAIN old \ DOMAIN new}
       \cup UNION {CheckVisibilityChange(old[p], new[p])
                   \cup IF old[p].signature # new[p].signature
                        THEN AnalyzeSignatureChange(old[p], new[p]) ELSE {}
                   : p \in DOMAIN old \cap DOMAIN new}

-----------------------------------------------------------------------------
Init == language \in DOMAIN Forms /\ source = <<>> /\ released = None

\* What may be within what: anything in a module of Rust, functions in an impl,
\* a trait or a class, a class in a class of Python or Java; what is exported,
\* and what is of Go, in nothing; a function of Java not in nothing.
MayHold(i, form) ==
    IF i = 0 THEN language = "Java" => form.kind # "fn"
    ELSE /\ language # "Go" /\ form.mark # "export"
         /\ CASE source[i].kind = "mod" -> TRUE
              [] source[i].kind \in {"impl", "interface"} -> form.kind = "fn"
              [] source[i].kind = "trait" -> form.kind = "fn" /\ form.mark = "none"
              [] source[i].kind = "class" ->
                     form.kind = "fn" \/ (form.kind = "class" /\ language # "JavaScript")
              [] OTHER -> FALSE

\* A declaration is added, at the end of what holds it.
Declare ==
    /\ released = None /\ Len(source) < MaxDeclarations
    /\ \E form \in Forms[language], name \in Names, i \in 0 .. Len(source) :
          /\ MayHold(i, form)
          /\ source' = Append(source, form @@ [name |-> name, within |-> i])
    /\ UNCHANGED <<language, released>>

Release ==
    /\ released = None /\ source # <<>>
    /\ released' = source
    /\ UNCHANGED <<language, source>>

\* The last declaration is removed, or given another form or name.
Edit ==
    /\ released = source
    /\ LET n == Len(source) IN
       \/ source' = Front(source)
       \/ \E form \in {x \in Forms[language] : MayHold(source[n].within, x)} : source' = [source EXCEPT ![n] =
              form @@ [name |-> source[n].name, within |-> source[n].within]]
       \/ \E name \in Names : source' = [source EXCEPT ![n].name = name]
    /\ source' # source
    /\ UNCHANGED <<language, released>>

Next == Declare \/ Release \/ Edit

-----------------------------------------------------------------------------
\* The path that a declaration of the language has: the names of what holds it.
RECURSIVE PathOf(_, _)
PathOf(f, i) == IF i = 0 THEN <<>> ELSE Append(PathOf(f, f[i].within), f[i].name)

\* The declarations that the language itself makes public by their own mark,
\* of the kinds that the parser reads.
DeclaredPublic(f, i) ==
    LET n == f[i]
    IN CASE language = "Rust" ->
              n.mark \in {"pub", "pub(in)"} /\ n.kind \in {"fn", "struct", "enum", "trait", "const", "static"}
         [] language = "JavaScript" -> n.mark = "export" /\ n.within = 0 /\ n.kind \in {"fn", "class", "const"}
         [] language = "Python" -> n.kind \in {"fn", "class"} /\ Head(n.name) # "_"
         [] language = "Go" -> Head(n.name) \in Capitals /\ n.kind \in {"fn", "struct", "interface", "type"} /\ n.receiver = None
         [] language = "Java" -> ModifiersField /\ n.mark = "public" /\ n.within = 0 /\ n.kind \in {"class", "interface", "enum"}

PublicPaths(f) == {PathOf(f, i) : i \in {j \in DOMAIN f : DeclaredPublic(f, j)}}

Old == Parse(language, released)
New == Parse(language, source)
Changes == DetectBreakingChanges(Old, New)

\* A declaration of the name is left further within, where Rust and Java read
\* it under the path around it too.
Shadowed(p) ==
    /\ language \in {"Rust", "Java"}
    /\ \E i \in DOMAIN source : source[i].name = Last(p) /\ Len(PathOf(source, i)) > Len(p)

\* What the language makes public is read under its path, whatever holds it;
\* a public declaration that is gone from the source is told as removed or
\* renamed, unless it is shadowed; and what is told is of a path that the old
\* version had.
RemovalsTold ==
    /\ PublicPaths(source) \subseteq DOMAIN ByPath(New)
    /\ released # None =>
          /\ \A p \in PublicPaths(released) \ PublicPaths(source) :
                \/ \E c \in Changes : c.path = p /\ c.type \in {"SymbolRenamed", "RemovedSymbol"}
                \/ Shadowed(p)
          /\ \A c \in Changes : c.path \in DOMAIN ByPath(Old)

OnePathEach(symbols) == \A i, j \in DOMAIN symbols : symbols[i].path = symbols[j].path => i = j

\* Nothing is told of a version that differs in no public symbol, nor of one
\* whose new symbols are all that is new; of one with the same hash only that
\* symbols it still has are no longer public, unless paths are shared; when nothing breaking is told of a
\* Rust version, every function of the old one can be called as before, but for
\* the order of its parameters.
QuietWhenCompatible ==
    released # None =>
        /\ DetectBreakingChanges(New, New) = {}
        /\ (\A p \in DOMAIN ByPath(Old) : p \in DOMAIN ByPath(New) /\ ByPath(Old)[p] = ByPath(New)[p])
              => Changes = {}
        /\ ComputeHash(Old) = ComputeHash(New) /\ OnePathEach(Old) /\ OnePathEach(New) =>
              \A c \in Changes :
                  /\ c.type \in {"SymbolRenamed", "RemovedSymbol"}
                  /\ \E s \in ToSet(New) : s.path = c.path /\ ~IsPublic(s)
        /\ language = "Rust" /\ (\A c \in Changes : c.severity # "breaking") =>
              \A p \in DOMAIN ByPath(Old) :
                  /\ p \in DOMAIN ByPath(New)
                  /\ ToSet(ByPath(Old)[p].params) = ToSet(ByPath(New)[p].params)
                  /\ ByPath(Old)[p].returns \in {None, ByPath(New)[p].returns}
=============================================================================
