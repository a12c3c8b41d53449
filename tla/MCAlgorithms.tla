---------------------------- MODULE MCAlgorithms ----------------------------
(* Algorithms for TLC: the inputs. *)
EXTENDS Algorithms, TLC

CONSTANTS lazy1, lazy2, greedy1

\* Two cases of a letter, a character without case, and the terminator.
MCUpperCase == "a" :> "A" @@ "A" :> "A" @@ "1" :> "1" @@ "0" :> "0"

MCNumerals == -2 .. 2

MCTexts ==
    [from : {"string"}, chars : BoundedSeq({"a", "A", "1"}, 3)]
    \cup [from : {"string"}, chars : {<<"x">>, <<"x", "a">>, <<"A", "x">>}]
    \cup [from : {"string", "string_view"}, chars : {<<"a", "0", "1">>}]
    \cup [from : {"array", "pointer"},
          chars : {<<"0">>, <<"a", "0">>, <<"A", "1", "0">>, <<"a", "0", "1", "0">>}]

\* Without further arguments, with specs, and with a call convention.
More == {<< >>} \cup {<<{specs}>> : specs \in Specs}
        \cup {<<{specs}, {"stdcall"}>> : specs \in {NoSpecs, [NoSpecs EXCEPT !.const = TRUE]}}

\* A parameter, and packs of two and of no types around it.
MCOverload ==
    [ret : {"r"},
     params : {<< >>, <<<<"int">>>>, <<<<"int", "char">>, << >>, <<"int">>>>},
     more : More]

\* Every pair; the overloads of one parameter list by three and four
\* qualifications; and as many with one parameter as the macros can paste,
\* or one more.
MCOverloadLists ==
    { <<a>> : a \in MCOverload }
    \cup { <<a, b>> : a \in MCOverload, b \in MCOverload }
    \cup { [i \in DOMAIN q |-> [ret |-> "r", params |-> <<<<"int">>>>, more |-> <<{q[i]}>>]] :
             q \in UNION {[1 .. n -> {s \in Specs : ~ s.noexcept /\ s.ref # "none"}] :
                            n \in 3 .. 4} }
    \cup { [i \in 1 .. n |-> [ret |-> "r", params |-> <<<<i>>>>, more |-> << >>]] :
             n \in 86 .. 87 }

Plain(kind, text) ==
    [kind |-> kind, custom |-> FALSE, char |-> "char", charPrinter |-> FALSE,
     text |-> text, parts |-> << >>]
Of(kind, parts) == [Plain(kind, << >>) EXCEPT !.parts = parts]

SimpleValues ==
    { Plain("number", <<"42">>), Plain("opaque", << >>), Plain("nullopt", << >>),
      Plain("pointer", <<"0x0">>), Plain("string", << >>), Plain("string", <<"a", "b">>),
      [Plain("opaque", <<"custom">>) EXCEPT !.custom = TRUE],
      [Plain("range", <<"custom">>) EXCEPT !.custom = TRUE],
      [Plain("string", <<"0x61", "0x62">>) EXCEPT !.char = "char16_t"],
      [Plain("string", <<"p", "q">>) EXCEPT !.char = "Custom", !.charPrinter = TRUE] }

Compounds(values) ==
    { Of("optional", parts) : parts \in BoundedSeq(values, 1) }
    \cup { Of(kind, parts) : kind \in {"tuple", "array", "range"},
                             parts \in BoundedSeq(values, 2) }

\* Of these, values nested two deep are made.
NestedValues == { Plain("number", <<"42">>), Plain("opaque", << >>), Plain("string", <<"a">>) }

MCPrintedValues ==
    <<SimpleValues \cup NestedValues, Compounds(SimpleValues) \cup Compounds(NestedValues),
      Compounds(Compounds(NestedValues))>>
=============================================================================
