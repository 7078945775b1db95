---------------------------- MODULE CodeGenerator ----------------------------
(***************************************************************************)
(* gemstone-codegen (codegen.py): wrapper modules for the registered       *)
(* Protocol classes of a module: how names and selectors are derived, what *)
(* a wrapper module imports, and which files are written, checked and      *)
(* removed.  A source is the tuple of what it is made from; the text of a  *)
(* method is left out.                                                     *)
(***************************************************************************)
EXTENDS Naturals, Sequences, FiniteSets, SequencesExt

-----------------------------------------------------------------------------
(* Names.  Sequences of letters, each lower or upper, digits and "_".      *)

Lower == [A |-> "a", B |-> "b"]
UpperLetters == DOMAIN Lower
Upper == [a |-> "A", b |-> "B"]
ToLower(c) == IF c \in UpperLetters THEN Lower[c] ELSE c
ToUpper(c) == IF c \in DOMAIN Upper THEN Upper[c] ELSE c

\* The words between underscores, without empty ones.
Words(name) ==
  SelectSeq(FoldLeft(LAMBDA ws, c : IF c = "_" THEN Append(ws, <<>>)
                                    ELSE [ws EXCEPT ![Len(ws)] = Append(@, c)],
                     << <<>> >>, name),
            LAMBDA w : w # <<>>)

SnakeToCamel(name) ==
  IF Words(name) = <<>> THEN name
  ELSE Head(Words(name)) \o
       FlattenSeq([i \in DOMAIN Tail(Words(name)) |->
                     LET w == Tail(Words(name))[i] IN <<ToUpper(Head(w))>> \o Tail(w)])

\* An underscore before a capital that follows a small letter or a digit.
ToSnake(name) ==
  FlattenSeq([i \in DOMAIN name |->
    IF i > 1 /\ name[i] \in UpperLetters /\ name[i - 1] \in (DOMAIN Upper \cup {"1"})
    THEN <<"_", ToLower(name[i])>> ELSE <<ToLower(name[i])>>])

\* A selector: its keywords, each with a colon after it, or one without.
Unary(word) == [keywords |-> <<>>, word |-> word]
Keywords(words) == [keywords |-> words, word |-> <<>>]
NoSelector == Unary(<<>>)
BadSelector == Unary(<<"bad">>)

\* selector_for_method, with the selector that was pinned or none.
SelectorForMethod(name, args, explicit) ==
  CASE explicit # NoSelector ->
         IF Len(explicit.keywords) = Len(args) THEN explicit ELSE BadSelector
    [] explicit = NoSelector /\ args = <<>> -> Unary(SnakeToCamel(name))
    [] OTHER -> Keywords(<<SnakeToCamel(name)>> \o
                         [i \in 1..(Len(args) - 1) |-> SnakeToCamel(args[i + 1])])

\* _build_smalltalk_source of the generated module: each keyword with its
\* argument.
SmalltalkSource(selector, args) ==
  IF Len(selector.keywords) # Len(args) THEN <<"TypeError">>
  ELSE [i \in DOMAIN args |-> <<selector.keywords[i], args[i]>>]

-----------------------------------------------------------------------------
(* Classes: [protocol, class, async, returns, args], the last two the sets *)
(* of classes that methods return and take.                                *)

\* A name without its suffix "Protocol" or "Proto": <<stem, suffix>>.
WrapperClassName(protocol) == protocol[1]

Known(classes, name) == {i \in DOMAIN classes : classes[i].class = name}
LastOf(S) == CHOOSE i \in S : \A j \in S : j <= i
KnownWrapper(classes, name) == classes[LastOf(Known(classes, name))]

Sync(name) == <<"sync", name>>
Async(name) == <<"async", name>>

\* _return_spec: what a method that returns that class is annotated with in
\* the class and in its async twin.
ReturnNames(classes, c, target) ==
  IF target = c.class THEN {Sync(target)} \cup IF c.async THEN {Async(target)} ELSE {}
  ELSE LET known == KnownWrapper(classes, target) IN
       {Sync(target)} \cup IF c.async /\ known.async THEN {Async(target)} ELSE {}

\* _type_checking_imports and _stub_imports: from the module of each class that
\* is returned, not from its own.
Imports(classes, c) ==
  UNION {ReturnNames(classes, c, target) : target \in c.returns \ {c.class}}
Defined(c) == {Sync(c.class)} \cup IF c.async THEN {Async(c.class)} ELSE {}

\* _annotation_to_source of arguments.
ArgumentNames(c) == {Sync(target) : target \in c.args}

-----------------------------------------------------------------------------
(* Files.  A directory maps paths <<module, extension>> to sources.        *)

\* A module of functions that somebody wrote has the source "own".
Own == <<"own">>
Wrapper(c) == <<"wrapper", c>>
Stub(c) == <<"stub", c>>
Init_ == <<(<<"__init__">>), "py">>
InitStub == <<(<<"__init__">>), "pyi">>
Typed == <<(<<"py">>), "typed">>
PathOf(c, ext) == <<ToSnake(c.class), ext>>

\* The package's files in the order they are written.
Planned(classes) ==
  LET init == [i \in DOMAIN classes |-> Defined(classes[i])]
  IN << <<Init_, <<"init", init>> >>, <<InitStub, <<"init", init>> >> >>
     \o FlattenSeq([i \in DOMAIN classes |->
          << <<PathOf(classes[i], "py"), Wrapper(classes[i])>>,
             <<PathOf(classes[i], "pyi"), Stub(classes[i])>> >>])
     \o << <<Typed, <<"empty">> >> >>

\* Only a wrapper module says that it is generated; its stub does not.
IsGeneratedWrapper(source) == source[1] = "wrapper"

\* Mutant: every module that is not expected goes.
MutantRemoveStale(dir, expected) == [p \in DOMAIN dir \cap expected |-> dir[p]]

RemoveStale(dir, expected) ==
  LET stale == {p \in DOMAIN dir \ expected : IsGeneratedWrapper(dir[p])}
  IN [p \in DOMAIN dir \ stale |-> dir[p]]

\* _write_or_check: <<the directory after it, is the file up to date?>>.
WriteOrCheck(dir, file, check) ==
  LET same == file[1] \in DOMAIN dir /\ dir[file[1]] = file[2]
  IN IF same \/ check THEN <<dir, same>>
     ELSE <<[p \in DOMAIN dir \cup {file[1]} |-> IF p = file[1] THEN file[2] ELSE dir[p]], TRUE>>

\* generate_package and main: the directory and the exit status.
GeneratePackage(dir, classes, check, clean) ==
  LET planned == Planned(classes)
      all == FoldLeft(LAMBDA st, file :
                        LET one == WriteOrCheck(st.dir, file, check)
                        IN [dir |-> one[1], fresh |-> st.fresh /\ one[2]],
                      [dir |-> dir, fresh |-> TRUE], planned)
      expected == {planned[i][1] : i \in DOMAIN planned}
  IN [dir |-> IF clean /\ ~check THEN RemoveStale(all.dir, expected) ELSE all.dir,
      status |-> IF check /\ ~all.fresh THEN 1 ELSE 0]

-----------------------------------------------------------------------------
\* A name in capitalized words survives the way to a module and to a selector,
\* so that classes with different names have different modules; a method's
\* selector takes exactly its arguments, and each of them by its own keyword.
NamesAgree(name, others, args) ==
  LET Plain(n) == n # <<>> /\ n[1] \in UpperLetters /\ "_" \notin {n[i] : i \in DOMAIN n}
                  /\ \A i \in 2..Len(n) : n[i] \in UpperLetters => n[i - 1] \notin UpperLetters
  IN /\ Plain(name) =>
          /\ SnakeToCamel(ToSnake(name)) = <<ToLower(Head(name))>> \o Tail(name)
          /\ \A n \in others : Plain(n) /\ ToSnake(n) = ToSnake(name) => n = name
     /\ LET selector == SelectorForMethod(name, args, NoSelector)
            source == SmalltalkSource(selector, args)
        IN Len(source) = Len(args) /\ \A i \in DOMAIN source : source[i][2] = args[i]
     /\ \A n \in others :
          LET pinned == SelectorForMethod(name, args, Keywords(<<n>>))
          IN pinned # BadSelector =>
               SmalltalkSource(pinned, args) # <<"TypeError">>

\* What has been generated is up to date at once, unless two classes have one
\* module; nobody else's file is written to or removed, unless it is where a
\* generated one belongs; clean leaves no wrapper module of a class that is
\* gone (its stub it does leave); and a check writes nothing.
PackageStaysInStep(dir, classes, clean) ==
  LET after == GeneratePackage(dir, classes, FALSE, clean)
      planned == Planned(classes)
      expected == {planned[i][1] : i \in DOMAIN planned}
      again == GeneratePackage(after.dir, classes, TRUE, clean)
      distinct == \A i, j \in DOMAIN classes :
                    i # j => ToSnake(classes[i].class) # ToSnake(classes[j].class)
  IN /\ (again.status = 0) = distinct
     /\ again.dir = after.dir
     /\ \A p \in DOMAIN dir \ expected :
          dir[p] = Own => p \in DOMAIN after.dir /\ after.dir[p] = Own
     /\ clean => \A p \in DOMAIN after.dir \ expected : ~IsGeneratedWrapper(after.dir[p])

\* Every class that a method returns is defined in the module or imported, from
\* a module that defines it.  (A class that is only an argument is not.)
ImportsResolve(classes) ==
  \A i \in DOMAIN classes :
    LET c == classes[i] IN
    /\ \A target \in c.returns :
         ReturnNames(classes, c, target) \subseteq Defined(c) \cup Imports(classes, c)
    /\ \A n \in Imports(classes, c) :
         n \in Defined(KnownWrapper(classes, n[2]))
    /\ (c.args \subseteq c.returns \cup {c.class}) =>
         ArgumentNames(c) \subseteq Defined(c) \cup Imports(classes, c)
=============================================================================
