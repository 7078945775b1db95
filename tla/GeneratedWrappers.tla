-------------------------- MODULE GeneratedWrappers --------------------------
(***************************************************************************)
(* What the wrappers that gemstone-codegen writes do when they are called  *)
(* (codegen.py): the members of a Protocol class, the class and the stub   *)
(* rendered from them, and the calls a member makes on its session.        *)
(*                                                                         *)
(* A Protocol is [attributes, members]: its annotated names, and its       *)
(* members [name, kind, args, selector, returns] in order, of the kinds    *)
(* "property", "class" and "instance".  An argument is [name, plain]:      *)
(* plain ones have no default and are no *args.                            *)
(***************************************************************************)
EXTENDS CodeGenerator

Hidden(name) == Head(name) = "_"

\* _method_spec: the selector, or that the method cannot be wrapped.
MethodSelector(member) ==
  IF \E i \in DOMAIN member.args : ~member.args[i].plain THEN BadSelector
  ELSE SelectorForMethod(member.name, [i \in DOMAIN member.args |-> member.args[i].name],
                         member.selector)

\* _collect_specs: annotated names and properties, each name once, and the
\* methods of either side.
CollectSpecs(protocol) ==
  LET shown == {m \in ToSet(protocol.members) : ~Hidden(m.name)}
      properties == {m \in shown : m.kind = "property"}
  IN [properties |-> {n \in ToSet(protocol.attributes) : ~Hidden(n)}
                     \cup {m.name : m \in properties},
      methods |-> shown \ properties]

Refused(protocol) ==
  \E m \in CollectSpecs(protocol).methods : MethodSelector(m) = BadSelector

\* _render_class: what a name of the class is, a method where there is one
\* (it comes after the property of that name in the class).
Rendered(specs, name) ==
  IF \E m \in specs.methods : m.name = name
  THEN CHOOSE m \in specs.methods : m.name = name
  ELSE [name |-> name, kind |-> "property", args |-> <<>>, selector |-> NoSelector,
        returns |-> "value"]

RenderedNames(specs) == specs.properties \cup {m.name : m \in specs.methods}

\* __gemstone_selectors__.
SelectorMap(specs) ==
  [n \in RenderedNames(specs) |-> MethodSelector(Rendered(specs, n))]

\* _render_stub_class: the form a name is declared in.
Form(m, async) ==
  [call |-> IF m.kind = "property" /\ ~async THEN "attribute"
            ELSE IF m.kind = "class" THEN "classmethod" ELSE "method",
   awaited |-> async,
   session |-> m.kind = "class",
   args |-> [i \in DOMAIN m.args |-> m.args[i].name]]

StubForms(specs, async) ==
  [n \in RenderedNames(specs) |-> Form(Rendered(specs, n), async)]

-----------------------------------------------------------------------------
(* Calls.  An argument's value is [is, oop]: an object with an "oop", an   *)
(* object that knows its Smalltalk source, or a plain value.               *)

Plain == {"nil", "true", "false", "number", "string"}

\* _argument_to_oop: what is sent.  A text is first created in the stone.
ArgumentToOop(value) ==
  IF value.is \in {"reference"} \cup Plain THEN <<value.is, value.oop>> ELSE <<"TypeError">>

\* _smalltalk_literal: what is written into the source.  A reference is an int,
\* and its repr is no Smalltalk.
SmalltalkLiteral(value) ==
  CASE value.is \in Plain \cup {"source"} -> <<value.is, value.oop>>
    [] value.is = "reference" -> <<"repr", value.oop>>
    [] OTHER -> <<"TypeError">>

\* _return_spec and _wrapper_target: the class a member that returns "self" or
\* another class wraps its result in, and whether that class awaits its calls.
Wraps(m, async, known) ==
  CASE m.returns = "self" -> [class |-> "own", async |-> async]
    [] m.returns = "other" -> [class |-> "other", async |-> async /\ known]
    [] OTHER -> [class |-> "none", async |-> async]

\* _render_method and _render_property: the error, or the calls on the session
\* and the class of the result.  Arguments are converted before the call, in
\* order; an instance method first looks whether the object has a session.
Invoke(m, async, known, values, bound) ==
  LET class == m.kind = "class"
      args == [i \in DOMAIN values |-> IF class THEN SmalltalkLiteral(values[i])
                                       ELSE ArgumentToOop(values[i])]
      texts == {i \in DOMAIN args : args[i][1] = "string"
                                    /\ \A j \in 1..(i - 1) : args[j] # <<"TypeError">>}
      created == IF class THEN <<>>
                 ELSE [i \in 1..Cardinality(texts) |->
                         [kind |-> "new_string", awaited |-> async]]
      wraps == Wraps(m, async, known)
  IN IF ~class /\ ~bound THEN [error |-> "RuntimeError", calls |-> <<>>, wraps |-> "none"]
     ELSE IF <<"TypeError">> \in ToSet(args)
     THEN [error |-> "TypeError", calls |-> created, wraps |-> "none"]
     ELSE [error |-> "none", wraps |-> wraps,
           calls |-> Append(created,
             [kind |-> IF class THEN "source" ELSE "send",
              raw |-> wraps.class # "none", awaited |-> async,
              selector |-> MethodSelector(m), args |-> args])]

-----------------------------------------------------------------------------
\* A wrapper and its stub have the same names, in the same forms; nothing that
\* starts with an underscore is among them, and each annotated name is.  A call
\* sends the selector the class lists for that name, once and last, with every
\* argument it was given in its place (a reference only on the instance side:
\* in a source it is written as its repr), asks for the raw object exactly when
\* it wraps it, and awaits what has to be awaited.  What it wraps awaits its own
\* calls as the class does, unless the other class has no async twin.
WrappersSendTheirCalls(protocol, async, known, values, bound) ==
  LET specs == CollectSpecs(protocol) IN
  ~Refused(protocol) =>
    /\ \A n \in RenderedNames(specs) : ~Hidden(n)
    /\ \A n \in ToSet(protocol.attributes) : ~Hidden(n) => n \in DOMAIN StubForms(specs, async)
    /\ \A i \in DOMAIN protocol.members :
         LET m == protocol.members[i] IN
         ~Hidden(m.name) /\ m.kind # "property" /\ Len(m.args) = Len(values) =>
           LET called == Invoke(m, async, known, values, bound)
               form == StubForms(specs, async)[m.name]
               last == called.calls[Len(called.calls)]
           IN called.error = "none" =>
                /\ form.call # "attribute" /\ (form.session <=> last.kind = "source")
                /\ last.selector = SelectorMap(specs)[m.name]
                /\ Len(last.args) = Len(values)
                /\ \A j \in DOMAIN values :
                     values[j].is # "reference" \/ last.kind = "send"
                        => last.args[j] = <<values[j].is, values[j].oop>>
                /\ last.raw = (m.returns \in {"self", "other"})
                /\ \A j \in 1..(Len(called.calls) - 1) : called.calls[j].kind = "new_string"
                /\ \A j \in DOMAIN called.calls : called.calls[j].awaited = async
                /\ called.wraps.class # "none" =>
                     (called.wraps.async = async \/ (m.returns = "other" /\ ~known))
    /\ \A n \in specs.properties :
         (\A m \in specs.methods : m.name # n) =>
           LET called == Invoke(Rendered(specs, n), async, known, <<>>, bound)
           IN /\ StubForms(specs, async)[n].call = (IF async THEN "method" ELSE "attribute")
              /\ called.error = "none" => called.calls[1].selector = SelectorMap(specs)[n]
=============================================================================
