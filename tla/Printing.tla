------------------------------ MODULE Printing ------------------------------
(***************************************************************************)
(* Printer.hpp: how the values in a report become text.  A value has a     *)
(* kind, may have a custom::Printer, and has a text when it has no parts.  *)
(* A text is the sequence of its pieces, of which those in Layout are not  *)
(* a value's own.  Strings of other characters than CharT are printed by a *)
(* custom printer of the character, or dumped.                             *)
(***************************************************************************)
EXTENDS Integers, Sequences, SequencesExt

CONSTANTS
    FormatsRanges, \* std::format knows ranges and tuples (C++23)
    PrintedValues  \* bound: the values in reports, as a list of sets: the
                   \* parts of the n-th are values of the ones before

\* The kinds with a detail::Printer of their own; an array has the one of
\* tuples, since tuple_size knows it.
InternalKinds == {"string", "pointer", "nullopt", "optional", "tuple", "array"}
RangeKinds == {"string", "range", "array"}

Kinds == InternalKinds \cup RangeKinds \cup {"number", "opaque"}

\* What print adds to the texts of values.
Layout == {"{ ", " }", ", ", "value: ", "L", "u8", "u", "U"}

\* An optional has one value or none.
IsPrintable(v) ==
    /\ v.kind \in Kinds
    /\ v.custom \in BOOLEAN /\ v.charPrinter \in BOOLEAN
    /\ v.text \in Seq(STRING) /\ \A i \in DOMAIN v.text : v.text[i] \notin Layout
    /\ v.kind = "optional" => Len(v.parts) <= 1

\* Types nest their parts finitely deep.
ASSUME ValuesAssumption ==
    /\ PrintedValues \in Seq(Range(PrintedValues))
    /\ \A n \in DOMAIN PrintedValues :
          LET earlier == UNION {PrintedValues[m] : m \in 1 .. n - 1}
          IN  \A v \in PrintedValues[n] : IsPrintable(v) /\ v.parts \in Seq(earlier)

Printables == UNION {PrintedValues[n] : n \in DOMAIN PrintedValues}

\* Of a value, given whether its parts are.
FormattableOf(v, parts) ==
    \/ v.kind = "number"
    \/ v.kind = "string" /\ v.char = "char"
    \/ /\ FormatsRanges
       /\ v.kind \in {"tuple", "array", "range"}
       /\ \A i \in DOMAIN parts : parts[i]

IsFormattable[v \in Printables] ==
    FormattableOf(v, [i \in DOMAIN v.parts |-> IsFormattable[v.parts[i]]])

\* Faulty: the overload of ranges has the higher priority.
RangePrinterFirst(v) ==
    IF v.custom THEN "custom"
    ELSE IF v.kind \in RangeKinds THEN "range"
    ELSE IF v.kind \in InternalKinds THEN "internal"
    ELSE IF IsFormattable[v] THEN "format"
    ELSE "fallback"

\* detail::print: priority_tag<4> down to priority_tag<0>.
SelectPrinter(v) ==
    IF v.custom THEN "custom"
    ELSE IF v.kind \in InternalKinds THEN "internal"
    ELSE IF v.kind \in RangeKinds THEN "range"
    ELSE IF IsFormattable[v] THEN "format"
    ELSE "fallback"

\* The pieces with commas between them.
Separated(pieces) ==
    FlattenSeq([i \in DOMAIN pieces |->
                   IF i = 1 THEN pieces[i] ELSE <<", ">> \o pieces[i]])

\* string_literal_prefix
Prefix(char) ==
    CASE char = "char" -> << >>
      [] char = "wchar_t" -> <<"L">>
      [] char = "char8_t" -> <<"u8">>
      [] char = "char16_t" -> <<"u">>
      [] char = "char32_t" -> <<"U">>
      [] OTHER -> << >>

\* Printer<String>: v.text is what the view gives.
PrintString(v) ==
    Prefix(v.char) \o <<"\"">>
    \o (IF v.char = "char" \/ v.charPrinter THEN v.text
        ELSE Separated([i \in DOMAIN v.text |-> <<v.text[i]>>]))
    \o <<"\"">>

\* PrintFn, of a value whose parts have these texts.
PrintOf(v, parts) ==
    LET Parts == Separated(parts)
    IN  CASE SelectPrinter(v) = "custom" -> v.text
          [] SelectPrinter(v) = "fallback" -> <<"{?}">>
          [] SelectPrinter(v) = "format" -> v.text
          [] SelectPrinter(v) = "range" -> <<"{ ">> \o Parts \o <<" }">>
          [] SelectPrinter(v) = "internal" ->
                CASE v.kind = "string" -> PrintString(v)
                  [] v.kind = "pointer" -> v.text
                  [] v.kind = "nullopt" -> <<"nullopt">>
                  [] v.kind = "optional" ->
                        IF parts = << >> THEN <<"nullopt">>
                        ELSE <<"{ ", "value: ">> \o parts[1] \o <<" }">>
                  [] v.kind \in {"tuple", "array"} -> <<"{ ">> \o Parts \o <<" }">>

PrintValue[v \in Printables] ==
    PrintOf(v, [i \in DOMAIN v.parts |-> PrintValue[v.parts[i]]])

=============================================================================
