--------------------------- MODULE StringMatchers ---------------------------
(***************************************************************************)
(* The string matchers (matchers/StringMatchers.hpp) and how strings are   *)
(* looked at (String.hpp).  A string is [from, chars]: where it is stored, *)
(* and all of its characters; characters are model values of an alphabet.  *)
(***************************************************************************)
EXTENDS Integers, Sequences, SequencesExt

CONSTANTS
    Nul,       \* the terminating character
    UpperCase  \* std::toupper on the characters it is defined for

\* string_traits::view: strings and string views know their length; of a
\* pointer, and of an array, whose traits are those of the pointer, the view
\* ends in front of the first terminator.
View(str) ==
    IF str.from \in {"string", "string_view"} THEN str.chars
    ELSE LET ends == {i \in DOMAIN str.chars : str.chars[i] = Nul}
         IN  IF ends = {} THEN str.chars
             ELSE SubSeq(str.chars, 1, (CHOOSE i \in ends : \A j \in ends : i <= j) - 1)

\* string_case_fold_converter<char>: character by character.  toupper gets
\* the char as it is: for one outside of ASCII, which may be negative, the
\* result is undefined.  fold gives what the build makes of those.
CaseFold(chars, fold) ==
    [i \in DOMAIN chars |->
        IF chars[i] \in DOMAIN UpperCase THEN UpperCase[chars[i]] ELSE fold[chars[i]]]

\* make_view and make_case_folded_string.
Viewed(str, insensitive, fold) ==
    IF insensitive THEN CaseFold(View(str), fold) ELSE View(str)

\* Faulty: a target that ends early counts as matched.
MismatchAtEnd(target, pattern) ==
    LET agree == {n \in 0 .. Len(pattern) :
                    \A i \in 1 .. n : i > Len(target) \/ target[i] = pattern[i]}
    IN  CHOOSE n \in agree : \A k \in agree : k <= n

\* std::ranges::mismatch: how far the pattern iterator gets.
Mismatch(target, pattern) ==
    LET agree == {n \in 0 .. Len(pattern) :
                    n <= Len(target) /\ \A i \in 1 .. n : target[i] = pattern[i]}
    IN  CHOOSE n \in agree : \A k \in agree : k <= n

\* std::ranges::search finds the pattern behind the first i characters.
SearchFinds(target, pattern) ==
    \E i \in 0 .. Len(target) - Len(pattern) :
        SubSeq(target, i + 1, i + Len(pattern)) = pattern

\* The predicates of eq, starts_with, ends_with and contains on the
\* converted target and pattern.
StringPredicate(fn, target, pattern) ==
    CASE fn = "eq" -> target = pattern
      [] fn = "starts_with" -> Mismatch(target, pattern) = Len(pattern)
      [] fn = "ends_with" ->
            Mismatch(Reverse(target), Reverse(pattern)) = Len(pattern)
      [] fn = "contains" ->
            \/ pattern = << >>
            \/ SearchFinds(target, pattern) /\ pattern # << >>

StringMatches(fn, insensitive, target, pattern, fold) ==
    StringPredicate(fn, Viewed(target, insensitive, fold),
                        Viewed(pattern, insensitive, fold))

=============================================================================
