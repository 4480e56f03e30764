----------------------------- MODULE MCBenchmark -----------------------------
(* A small alphabet, four datasets and three environments for TLC.         *)
EXTENDS BenchmarkProperties

(* "A" folds to "a", "f" is a ligature of "a" and "b", "m" a combining     *)
(* mark, "z" has no width, "w" is wide and "k" its compatibility form, "x" *)
(* turns the direction of the text, "n" and "r" end a line, "d" is "b"     *)
(* with the mark.                                                          *)
MCChars == {"a", "b", "d", "A", "f", "m", "z", "w", "k", "x", "n", "r", " ", "."}

Becomes(from) == [c \in MCChars |-> IF c \in DOMAIN from THEN from[c] ELSE <<c>>]
MCCanonical == Becomes([k |-> <<"w">>])
MCFolded == Becomes([A |-> <<"a">>, f |-> <<"a", "b">>])
MCCompatible == Becomes([A |-> <<"a">>, f |-> <<"a", "b">>, k |-> <<"w">>])
MCComposite == <<"b", "m">> :> "d"

MCThresholds == [units |-> [lcs |-> <<65, 100>>, recall |-> <<1, 2>>, span |-> 2],
                 skeleton |-> [lcs |-> <<80, 100>>, recall |-> <<80, 100>>, span |-> 3]]
MCModels == <<"hosted", "mock">>
MCProfile == (0 :> 1000) @@ (1 :> 750) @@ (2 :> 300)

MCEnvironments ==
  {[ready |-> TRUE, deployment |-> "one", retries |-> 1],
   [ready |-> TRUE, deployment |-> "two", retries |-> 0],
   [ready |-> FALSE, deployment |-> "one", retries |-> 0]}

MCTarget == <<"a", "b", " ", "b", "a">>
MCReordered == <<"b", "a", " ", "a", "b">>

MCAnswers ==
  {[text |-> MCTarget, source |-> "provider", attempts |-> 2],
   [text |-> <<"A", "b">>, source |-> "cache", attempts |-> 0],
   [text |-> MCTarget \o MCTarget, source |-> "provider", attempts |-> 1]}

MCItem(id, class, prompts) ==
  [id |-> id, canary |-> "canary", target |-> MCTarget, metricClass |-> class,
   ladder |-> prompts]
Rung(n, text, leaky) == [text |-> text, rung |-> n, leaky |-> leaky]

(* Anchors give the target away under a disguise: a ligature and a capital,*)
(* zero-width characters, words joined at the end of a line.               *)
MCOne ==
  <<MCItem("one", "normalized_edit_similarity",
      <<Rung(0, <<"f", " ", "z", "b", "A">>, TRUE), Rung(1, MCReordered, FALSE),
        Rung(2, <<"b">>, FALSE)>>)>>
MCTwo ==
  <<MCItem("one", "unicode_char_ngram",
      <<Rung(0, <<"a", "b", "r", "n", "b", "a">>, TRUE), Rung(1, <<"w", "m", "b">>, FALSE)>>),
    MCItem("two", "exact",
      <<Rung(0, <<"x">>, TRUE), Rung(1, <<"A", ".">>, FALSE)>>)>>
MCUndeclared == <<MCItem("one", "exact", <<Rung(0, <<"a", "b", "b">>, FALSE)>>)>>
MCDuplicated == <<MCTwo[1], MCTwo[1]>>
MCDatasets == {MCOne, MCTwo, MCUndeclared, MCDuplicated}
=============================================================================
