------------------------------- MODULE Values -------------------------------
(***************************************************************************)
(* Python values and GemStone OOPs (_gci_ctypes.py, client.py, oop.py,     *)
(* persistent_root.py, concurrency.py, smalltalk_bridge.py, converters.py, *)
(* and the same helpers in Rust, crates/gemstone-gci and                   *)
(* gemstone-py-native).  An OOP is a word that holds the object  *)
(* itself (a small integer, a character, nil, true, false) or refers to    *)
(* one on the server, here <<"object", class, contents>>.                  *)
(***************************************************************************)
EXTENDS Integers, Sequences

CONSTANTS
  Size,         \* the number of words: 2^64 in the code
  CodePoints,   \* of numbers under the mask of a character: 2^21
  MaxChar       \* the last of them that is a character: 2^20 + 2^16 - 1

ASSUME SizeAssumption == Size \in Nat /\ Size >= 1024 /\ Size % 1024 = 0
ASSUME CharsAssumption ==
  CodePoints \in Nat /\ MaxChar \in 0..CodePoints - 1 /\ 256 * CodePoints <= Size

Word(n) == <<"word", n % Size>>
Object(class, contents) == <<"object", class, contents>>
IsWord(oop) == oop[1] = "word"

Illegal == Word(1)
Nil == Word(20)
False == Word(12)
True == Word(268)

\* What stands for an exception.
Raises == <<"raises">>

-----------------------------------------------------------------------------
(* Tagged words.                                                           *)

\* The word as a signed number.
Signed(n) == IF n < Size \div 2 THEN n ELSE n - Size

SmallInt(value) == Word(8 * value + 2)
IsSmallInt(oop) == IsWord(oop) /\ oop[2] % 8 = 2

\* An arithmetic shift to the right.
IntOf(oop) == Signed(oop[2]) \div 8

\* A character is the code point above the byte 28; the bits above the mask are
\* not looked at, and chr() raises beyond the last character.
Char(codepoint) == Word(256 * codepoint + 28)
IsChar(oop) == IsWord(oop) /\ oop[2] % 256 = 28
CharOf(oop) ==
  LET codepoint == (oop[2] \div 256) % CodePoints
  IN IF codepoint <= MaxChar THEN <<"char", codepoint>> ELSE Raises

\* The Rust helpers take and give machine words; Python's take any integer.
NativeSmallInt(value) ==
  IF value \in -(Size \div 2) .. Size \div 2 - 1 THEN Word(8 * Signed(value % Size) + 2)
  ELSE Raises

-----------------------------------------------------------------------------
(* Python values are tuples with their type first: <<"none">>, <<"bool",   *)
(* b>>, <<"int", i>>, <<"float", f>>, <<"str", s>>, <<"char", c>>, <<"dict", *)
(* pairs>>, <<"list", items>>; and proxies <<"proxy", type, oop>>.         *)

Kind(value) == value[1]
Scalars == {"none", "bool", "int", "float", "str"}

\* Mutant: a bool is an int in Python, and taken for one.
MutantScalarToOop(value) ==
  CASE Kind(value) = "none" -> Nil
    [] Kind(value) = "bool" -> SmallInt(IF value[2] THEN 1 ELSE 0)
    [] Kind(value) = "int" -> SmallInt(value[2])
    [] Kind(value) = "float" -> Object("Float", value[2])
    [] Kind(value) = "str" -> Object("String", value[2])
    [] Kind(value) = "proxy" -> value[3]
    [] OTHER -> Raises

\* What all ways to pass a value to the server have in common.
ScalarToOop(value) ==
  CASE Kind(value) = "none" -> Nil
    [] Kind(value) = "bool" -> IF value[2] THEN True ELSE False
    [] Kind(value) = "int" -> SmallInt(value[2])
    [] Kind(value) = "float" -> Object("Float", value[2])
    [] Kind(value) = "str" -> Object("String", value[2])
    [] Kind(value) = "proxy" -> value[3]
    [] OTHER -> Raises

\* GemStoneSession._python_value_to_oop: dicts, no lists.  (Containers hold
\* scalars here, the code converts them to any depth.)
ClientToOop(value) ==
  IF Kind(value) = "dict"
  THEN IF \E i \in DOMAIN value[2] : ScalarToOop(value[2][i][2]) = Raises THEN Raises
       ELSE Object("StringKeyValueDictionary",
                   [i \in DOMAIN value[2] |-> <<value[2][i][1], ScalarToOop(value[2][i][2])>>])
  ELSE ScalarToOop(value)

\* persistent_root._to_oop: lists too.
PersistentToOop(value) ==
  IF Kind(value) = "list"
  THEN IF \E i \in DOMAIN value[2] : ScalarToOop(value[2][i]) = Raises THEN Raises
       ELSE Object("Array", [i \in DOMAIN value[2] |-> ScalarToOop(value[2][i])])
  ELSE ClientToOop(value)

\* concurrency._oop: neither containers nor floats, of the proxies its own.
SharedTypes == {"RCCounter", "RCHash", "RCQueue"}
SharedToOop(value) ==
  IF Kind(value) \in {"dict", "list", "float"} \/ (Kind(value) = "proxy" /\ value[2] \notin SharedTypes)
  THEN Raises ELSE ScalarToOop(value)

\* A bool is an int in Python: isinstance(value, int), and its number.
IsInt(value) == Kind(value) \in {"int", "bool"}
Number(value) == IF Kind(value) = "bool" THEN IF value[2] THEN 1 ELSE 0 ELSE value[2]

\* OopRef.send: an integer that looks like a small integer is taken for an OOP;
\* what is neither integer nor OopRef is no word, and ctypes refuses it.
RefArgument(value) ==
  CASE Kind(value) = "proxy" /\ value[2] = "OopRef" -> value[3]
    [] IsInt(value) /\ Number(value) % 8 = 2 -> Word(Number(value))
    [] IsInt(value) /\ Number(value) % 8 # 2 -> SmallInt(Number(value))
    [] OTHER -> Raises

\* oop._argument_to_oop, for ManagedOop, OopHandle and TypedOop: anything with
\* an oop, and all else as it is, which is a word if it is an integer.
HandleArgument(value) ==
  CASE Kind(value) = "proxy" -> value[3]
    [] IsInt(value) -> Word(Number(value))
    [] OTHER -> Raises

\* _argument_to_oop of a generated wrapper module: no containers.
GeneratedArgument(value) == ScalarToOop(value)

-----------------------------------------------------------------------------
(* From OOPs to values.                                                    *)

Immediate(oop) == oop \in {Nil, True, False} \/ IsSmallInt(oop)
ImmediateValue(oop) ==
  CASE oop = Nil -> <<"none">>
    [] oop \in {True, False} -> <<"bool", oop = True>>
    [] OTHER -> <<"int", IntOf(oop)>>
TextClasses == {"String", "Symbol"}

\* GemStoneSession._marshal, and concurrency._py.
Marshal(oop) ==
  CASE Immediate(oop) -> ImmediateValue(oop)
    [] oop = Illegal -> Raises
    [] IsChar(oop) -> CharOf(oop)
    [] ~IsWord(oop) /\ oop[2] = "Float" -> <<"float", oop[3]>>
    [] ~IsWord(oop) /\ oop[2] \in TextClasses -> <<"str", oop[3]>>
    [] OTHER -> <<"proxy", "OopRef", oop>>

ProxyOf ==
  [StringKeyValueDictionary |-> "GsDict", OrderedCollection |-> "OrderedCollection",
   RcCounter |-> "RCCounter", RcKeyValueDictionary |-> "RCHash", RcQueue |-> "RCQueue"]

\* persistent_root._from_oop of an object that is in no Array: characters are
\* not treated, and a class has the proxy made for it.
ItemFromOop(oop) ==
  CASE Immediate(oop) -> ImmediateValue(oop)
    [] ~IsWord(oop) /\ oop[2] \in TextClasses -> <<"str", oop[3]>>
    [] ~IsWord(oop) /\ oop[2] = "Float" -> <<"float", oop[3]>>
    [] ~IsWord(oop) /\ oop[2] \in DOMAIN ProxyOf -> <<"proxy", ProxyOf[oop[2]], oop>>
    [] OTHER -> <<"proxy", "GsObject", oop>>

\* ... and of any: an Array becomes a list of its items.
PersistentFromOop(oop) ==
  IF ~IsWord(oop) /\ oop[2] = "Array"
  THEN <<"list", [i \in DOMAIN oop[3] |-> ItemFromOop(oop[3][i])]>>
  ELSE ItemFromOop(oop)

\* smalltalk_bridge._wrap_smalltalk_result.
BridgeFromOop(oop) ==
  LET value == PersistentFromOop(oop) IN
  IF Kind(value) = "proxy" /\ value[2] = "GsObject"
  THEN <<"proxy", "SmalltalkObject", oop>> ELSE value

-----------------------------------------------------------------------------
(* ValueConverterRegistry: the first converter that matches.  A datetime   *)
(* is a date as well, so that the date converter asks for exactly a date.  *)

Converters == <<
  [name |-> "datetime", type |-> "datetime", exact |-> FALSE],
  [name |-> "date_iso_string", type |-> "date", exact |-> TRUE],
  [name |-> "decimal_string", type |-> "decimal", exact |-> FALSE],
  [name |-> "uuid_string", type |-> "uuid", exact |-> FALSE]>>

IsA(kind, type) == kind = type \/ (kind = "datetime" /\ type = "date")
Matches(c, value) == IF c.exact THEN Kind(value) = c.type ELSE IsA(Kind(value), c.type)

Matching(registry, value) == {i \in DOMAIN registry : Matches(registry[i], value)}
ConverterFor(registry, value) ==
  registry[CHOOSE i \in Matching(registry, value) :
             \A j \in Matching(registry, value) : i <= j]

\* A datetime is its clock time and its offset from UTC, <<>> if it has none.
Offset(value) == value[3]

\* datetime_to_gs: the moment, where a datetime without a zone is one in UTC.
Moment(value) == IF Offset(value) = <<>> THEN value[2] ELSE value[2] - Offset(value)[1]

\* A datetime becomes a DateAndTime, and comes back in UTC (gs_datetime); the
\* others become text.
Converted(registry, value) ==
  IF Matching(registry, value) = {} THEN Raises
  ELSE IF ConverterFor(registry, value).type = "datetime"
  THEN Object("DateAndTime", Moment(value))
  ELSE Object("String", value[2])
ConvertedBack(registry, name, oop) ==
  LET i == CHOOSE j \in DOMAIN registry : registry[j].name = name IN
  IF registry[i].type = "datetime" THEN <<"datetime", oop[3], <<0>>>>
  ELSE <<registry[i].type, oop[3]>>

-----------------------------------------------------------------------------
(* Properties.                                                             *)

Fits(i) == i \in -(Size \div 16) .. (Size \div 16) - 1

\* An integer comes back as it was if it has room beside the tag (61 bits of
\* 64), and as another one if not; the Python and the Rust helpers make the
\* same words of all integers that are one word, and no word is at once two of
\* small integer, character and special object.  A code point comes back if it is
\* a character; one with more bits is read without them.
WordsAreTrue(i) ==
  /\ IsSmallInt(SmallInt(i))
  /\ (IntOf(SmallInt(i)) = i) = Fits(i)
  /\ NativeSmallInt(i) \in {SmallInt(i), Raises}
  /\ Fits(i) => NativeSmallInt(i) = SmallInt(i)
  /\ ~IsChar(SmallInt(i)) /\ SmallInt(i) \notin {Nil, True, False, Illegal}
  /\ i \in 0 .. Size \div 256 - 1 =>
       /\ IsChar(Char(i)) /\ ~Immediate(Char(i))
       /\ (Marshal(Char(i)) = <<"char", i>>) = (i <= MaxChar)
       /\ Marshal(Char(i)) = IF i % CodePoints <= MaxChar THEN <<"char", i % CodePoints>> ELSE Raises

Room(value) == Kind(value) = "int" => Fits(value[2])
Whole(value) ==
  /\ Room(value)
  /\ Kind(value) = "list" => \A i \in DOMAIN value[2] : Room(value[2][i])

\* A value comes back as it was, whichever interface wrote and read it, and
\* all interfaces that take a value make the same object of it: but dicts come
\* back as proxies of the stored dictionary, and what OopRef.send and the handles
\* are given are words.  They refuse None, texts and floats; a handle passes an
\* integer as the OOP that it is, OopRef.send does so with one that has the tag of
\* a small integer, and to both true and false are 1 and 0.
ValuesComeBack(value) ==
  Whole(value) =>
    LET oop == PersistentToOop(value) IN
    /\ oop # Raises
    /\ ClientToOop(value) \in {oop, Raises}
    /\ SharedToOop(value) \in {oop, Raises}
    /\ GeneratedArgument(value) \in {oop, Raises}
    /\ Kind(value) \in Scalars =>
         /\ PersistentFromOop(oop) = value /\ Marshal(oop) = value
         /\ BridgeFromOop(oop) = value
    /\ Kind(value) = "list" => PersistentFromOop(oop) = value
    /\ Kind(value) = "dict" => PersistentFromOop(oop) = <<"proxy", "GsDict", oop>>
    /\ Kind(value) = "proxy" =>
         /\ PersistentToOop(PersistentFromOop(oop)) = oop
         /\ PersistentToOop(BridgeFromOop(oop)) = oop
         /\ PersistentToOop(Marshal(oop)) = oop
         /\ HandleArgument(value) = oop
    /\ Kind(value) \in {"none", "str", "float"} =>
         RefArgument(value) = Raises /\ HandleArgument(value) = Raises
    /\ Kind(value) = "int" =>
         (RefArgument(value) = oop) = (value[2] % 8 # 2) /\ HandleArgument(value) # oop
    /\ Kind(value) = "bool" =>
         /\ RefArgument(value) = SmallInt(Number(value)) /\ RefArgument(value) # oop
         /\ HandleArgument(value) = (IF value[2] THEN Illegal ELSE Word(0))

\* What a converter of the registry wrote the converter of that name reads; but
\* a datetime comes back as the same moment in UTC, one without a zone as the
\* moment when clocks in UTC show that time.
ConvertersAgree(value) ==
  LET oop == Converted(Converters, value)
      back == ConvertedBack(Converters, ConverterFor(Converters, value).name, oop)
      ahead == IF Offset(value) = <<>> THEN 0 ELSE Offset(value)[1]
  IN Matching(Converters, value) # {} =>
       IF Kind(value) = "datetime"
       THEN back = <<"datetime", value[2] - ahead, <<0>>>> ELSE back = value
=============================================================================
