------------------------------- MODULE Metadata -------------------------------
(***************************************************************************)
(* The metadata of a provider and what libral reads out of it: the types   *)
(* of attributes and the values they admit (attr/spec.cc), and whether the *)
(* provider can be used and under which names (prov/spec.cc).              *)
(*                                                                         *)
(* A text is the sequence of its parts between commas, never empty; the    *)
(* blank part is "".  A type in the metadata is its first word and, for an *)
(* enum, the options in its brackets.  Abstracted: YAML's syntax, white    *)
(* space and descriptions.  None stands for an error.                      *)
(***************************************************************************)
EXTENDS Naturals, FiniteSets, SequencesExt

CONSTANTS
  None,
  Option     \* words of lower case letters and digits

ASSUME OptionAssumption == "" \notin Option

-----------------------------------------------------------------------------
(* Attributes. *)

\* Every word that begins with enum is one.
DataType(t) ==
  CASE t.word \in {"boolean", "string", "array[string]"} -> [tag |-> t.word, options |-> {}]
    [] t.word \in {"enum", "enumeration"} /\ t.bracketed /\ ToSet(t.options) \subseteq Option ->
         [tag |-> "enum", options |-> ToSet(t.options)]
    [] OTHER -> None

\* attr::spec::create.
AttrSpec(attr) == IF attr.kind \in {"r", "w", "rw"} THEN DataType(attr.type) ELSE None

Value(tag, v) == [tag |-> tag, v |-> v]

\* ReadString that takes any word for an enum.
ReadAnyString(type, text) ==
  CASE type.tag \in {"string", "enum"} -> Value("string", text)
    [] type.tag = "boolean" -> IF text = <<"true">> THEN Value("boolean", TRUE) ELSE Value("boolean", FALSE)
    [] OTHER -> Value("array", text)

\* spec::read_string for each type.
ReadString(type, text) ==
  CASE type.tag = "string" -> Value("string", text)
    [] type.tag = "boolean" /\ text \in {<<"true">>, <<"TRUE">>} -> Value("boolean", TRUE)
    [] type.tag = "boolean" /\ text = <<"false">> -> Value("boolean", FALSE)
    [] type.tag = "array[string]" /\ text = <<"">> -> Value("array", <<>>)
    [] type.tag = "array[string]" /\ "" \notin ToSet(text) -> Value("array", text)
    [] type.tag = "enum" /\ Len(text) = 1 /\ text[1] \in type.options -> Value("string", text)
    [] OTHER -> None

-----------------------------------------------------------------------------
(* Providers. *)

\* The `suitable` entry: a boolean, one of the strings "true" and "false", or
\* commands of which each is there or, negated, is not.
ReadSuitable(s, which) ==
  CASE s.kind \in {"boolean", "string"} -> s.yes
    [] s.kind = "commands" -> \A i \in DOMAIN s.commands :
                                (s.commands[i].cmd \in which) # s.commands[i].negated
    [] OTHER -> None

\* prov::spec::read.  The provider has the name of its file unless the metadata
\* gives another one; a provider that its caller knows to be unsuitable does
\* not look at the entry.
ReadSpec(meta, base, which, suitable) ==
  LET use == IF suitable THEN ReadSuitable(meta.suitable, which) ELSE FALSE
  IN  IF \/ ~meta.parses \/ meta.type = None \/ meta.attrs = None
         \/ \E a \in DOMAIN meta.attrs : AttrSpec(meta.attrs[a]) = None
         \/ "name" \notin DOMAIN meta.attrs
         \/ use = None
      THEN None
      ELSE [name |-> IF meta.name = None THEN base ELSE meta.name,
            type |-> meta.type, invoke |-> meta.invoke, suitable |-> use,
            attrs |-> [a \in DOMAIN meta.attrs |-> AttrSpec(meta.attrs[a])]]
=============================================================================
