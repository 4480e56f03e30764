----------------------------- MODULE ScoringCore -----------------------------
(***************************************************************************)
(* The pure scorer, bench/engine/scoring_core.py.  A text is a sequence of *)
(* characters of a small alphabet; what the code asks of the Unicode       *)
(* database is given by constants: one set per category and one function   *)
(* per normal form, which maps a character to what it becomes, before      *)
(* characters that have a composite are put together.  A ratio is a pair   *)
(* <<numerator, denominator>>; a rounded number counts in 1/Unit.          *)
(***************************************************************************)
EXTENDS Integers, SequencesExt, Bags

CONSTANTS
  Space,        \* str.isspace
  Marks,        \* category M
  Words,        \* categories L, N and Pc, not wide
  Wide,         \* categories L and N, East Asian wide
  Ignorable,    \* _is_leakage_ignorable
  Bidi, Compat, \* the two fail-closed classes
  Blank,        \* " "
  Return, Feed, \* "\r" and "\n"
  Canonical,    \* NFC
  Folded,       \* casefold, NFC
  Compatible,   \* NFKC, casefold, NFKC
  Composite,    \* per pair of characters that compose, their composite
  MaxText,      \* MAX_SCORING_TEXT_CHARACTERS
  MaxNormalized,\* MAX_NORMALIZED_TEXT_CHARACTERS
  MaxCells,     \* MAX_QUADRATIC_CELLS
  Unit          \* 10^6 in the code: round(x, 6)

(* A list, whatever its elements; a text, a list of the alphabet's         *)
(* characters.                                                             *)
IsList(s) == s \in Seq(Range(s))
IsText(text) == IsList(text) /\ Range(text) \subseteq DOMAIN Compatible

(* Every form of every character is a text, every composite a character.   *)
ASSUME CharacterAssumption ==
  /\ \A form \in {Canonical, Folded, Compatible} :
       DOMAIN form = DOMAIN Compatible /\ \A c \in DOMAIN form : IsText(form[c])
  /\ Range(Composite) \cup {Return, Feed} \subseteq DOMAIN Compatible

Rounded(n, d) == (2 * n * Unit + d) \div (2 * d)
AtLeast(ratio, bound) == ratio[1] * bound[2] >= bound[1] * ratio[2]

(* A character at a time.                                                  *)
MapText(form, text) == FoldLeft(LAMBDA mapped, c : mapped \o form[c], <<>>, text)

(* A text without the characters of a class.                               *)
Without(text, class) ==
  FoldLeft(LAMBDA kept, c : IF c \in class THEN kept ELSE Append(kept, c), <<>>, text)

(* "\r\n" and then "\r" become "\n".                                       *)
Newlines(text) ==
  LET Alone(i) == text[i] = Return /\ (i = Len(text) \/ text[i + 1] # Feed)
  IN Without([i \in DOMAIN text |-> IF Alone(i) THEN Feed ELSE text[i]], {Return})

(* A character joins the one before it where the two have a composite.     *)
Composed(text) ==
  FoldLeft(LAMBDA kept, c : IF kept # <<>> /\ <<Last(kept), c>> \in DOMAIN Composite
                            THEN ReplaceAt(kept, Len(kept), Composite[<<Last(kept), c>>])
                            ELSE Append(kept, c), <<>>, text)
Normal(form, text) == Composed(MapText(form, text))

NormalizeUnicode(text) == Normal(Canonical, Newlines(text))

(* " ".join(text.split()): inner runs of spaces shrink to one blank.       *)
Collapsed(text) ==
  LET IsSpace(i) == text[i] \in Space
      Kept(i) == IsSpace(i) => /\ i > 1 /\ ~IsSpace(i - 1)
                               /\ \E j \in i + 1..Len(text) : ~IsSpace(j)
  IN FoldLeftDomain(
       LAMBDA kept, i : IF ~Kept(i) THEN kept
                        ELSE Append(kept, IF IsSpace(i) THEN Blank ELSE text[i]),
       <<>>, text)

NormalizeLexical(text) == Collapsed(Normal(Folded, NormalizeUnicode(text)))

(* Characters that an ignorable one kept apart may compose after it went.  *)
NormalizeLeakage(text) == Composed(Without(Normal(Compatible, Newlines(text)), Ignorable))

(* unicode_skeleton_codepoints: the channel without word boundaries.       *)
Skeleton(text) == Without(NormalizeLeakage(text), Space)

(* unicode_lexical_units: words, wide characters, marks and symbols.       *)
LexicalUnits(text) ==
  LET Flushed(st) == IF st.word = <<>> THEN st.units ELSE Append(st.units, st.word)
      Joined(us, c) == ReplaceAt(us, Len(us), Append(Last(us), c))
      Read(st, c) ==
        IF c \in Space THEN [units |-> Flushed(st), word |-> <<>>]
        ELSE IF c \in Marks THEN
          IF st.word # <<>> THEN [st EXCEPT !.word = Append(@, c)]
          ELSE IF st.units # <<>> THEN [st EXCEPT !.units = Joined(@, c)]
          ELSE [st EXCEPT !.units = <<(<<c>>)>>]
        ELSE IF c \in Words THEN [st EXCEPT !.word = Append(@, c)]
        ELSE [units |-> Append(Flushed(st), <<c>>), word |-> <<>>]
  IN Flushed(FoldLeft(Read, [units |-> <<>>, word |-> <<>>], NormalizeLeakage(text)))

-----------------------------------------------------------------------------
(* The dynamic programs, one row of the table after the other.             *)

Levenshtein(a, b) ==
  LET Row(previous, x) ==
        FoldLeftDomain(
          LAMBDA current, j :
            Append(current,
              Min({current[j] + 1, previous[j + 1] + 1,
                   previous[j] + (IF x = b[j] THEN 0 ELSE 1)})),
          <<previous[1] + 1>>, b)
  IN Last(FoldLeft(Row, [j \in 1..Len(b) + 1 |-> j - 1], a))

(* Mutated LcsLength: the diagonal is read from the row being written.     *)
OneRowLcs(a, b) ==
  LET Row(previous, x) ==
        FoldLeftDomain(
          LAMBDA current, j :
            Append(current, IF x = b[j] THEN current[j] + 1
                            ELSE Max({previous[j + 1], current[j]})),
          <<0>>, b)
  IN Last(FoldLeft(Row, [j \in 1..Len(b) + 1 |-> 0], a))

LcsLength(a, b) ==
  LET Row(previous, x) ==
        FoldLeftDomain(
          LAMBDA current, j :
            Append(current, IF x = b[j] THEN previous[j] + 1
                            ELSE Max({previous[j + 1], current[j]})),
          <<0>>, b)
  IN Last(FoldLeft(Row, [j \in 1..Len(b) + 1 |-> 0], a))

LongestCommonSpan(a, b) ==
  LET Row(st, x) ==
        LET row == [j \in 1..Len(b) + 1 |->
                      IF j > 1 /\ x = b[j - 1] THEN st.row[j - 1] + 1 ELSE 0]
        IN [row |-> row, best |-> Max({st.best} \cup Range(row))]
  IN FoldLeft(Row, [row |-> [j \in 1..Len(b) + 1 |-> 0], best |-> 0], a).best

Ngrams(values, n) ==
  ToBag([i \in 1..Len(values) - n + 1 |-> SubSeq(values, i, i + n - 1)])

Overlap(bag, other) ==
  BagCardinality([g \in BagToSet(bag) \cap BagToSet(other) |-> Min({bag[g], other[g]})])

-----------------------------------------------------------------------------
(* Fidelity of an output.                                                  *)

Similarity(t, o) ==
  LET scale == Max({Len(t), Len(o)})
  IN IF scale = 0 THEN Unit
     ELSE IF Len(t) = 0 \/ Len(o) = 0 THEN 0
     ELSE Rounded(scale - Levenshtein(t, o), scale)

EditSimilarity(target, output) ==
  Similarity(NormalizeUnicode(target), NormalizeUnicode(output))

(* The runs of three characters, or the whole of a shorter text.          *)
Trigrams(clean) ==
  IF clean # <<>> /\ Len(clean) < 3 THEN ToBag(<<clean>>) ELSE Ngrams(clean, 3)

(* The multiset Jaccard of two bags, round(x, 6).                          *)
Jaccard(t, o) ==
  LET common == Overlap(t, o)
  IN IF t = EmptyBag /\ o = EmptyBag THEN Unit
     ELSE IF t = EmptyBag \/ o = EmptyBag THEN 0
     ELSE Rounded(common, BagCardinality(t) + BagCardinality(o) - common)

NgramSimilarity(target, output) ==
  Jaccard(Trigrams(NormalizeLexical(target)), Trigrams(NormalizeLexical(output)))

MetricClasses == {"exact", "normalized_edit_similarity", "unicode_char_ngram"}

Fidelity(target, output, metricClass) ==
  CASE metricClass = "exact" -> IF target = output THEN Unit ELSE 0
    [] metricClass = "normalized_edit_similarity" -> EditSimilarity(target, output)
    [] metricClass = "unicode_char_ngram" -> NgramSimilarity(target, output)

(* _validate_scoring_text, _validate_normalized_text and                   *)
(* _validate_quadratic_pair: the scorer refuses, and raises.               *)
TextFits(text) == Len(text) <= MaxText
NormalizedFits(text) == Len(text) <= MaxNormalized
PairFits(a, b) == Len(a) * Len(b) <= MaxCells

FidelityRaises(target, output, metricClass) ==
  \/ ~TextFits(target) \/ ~TextFits(output)
  \/ /\ metricClass = "normalized_edit_similarity"
     /\ \/ \E text \in {target, output} : ~NormalizedFits(NormalizeUnicode(text))
        \/ ~PairFits(NormalizeUnicode(target), NormalizeUnicode(output))
  \/ /\ metricClass = "unicode_char_ngram"
     /\ \E text \in {target, output} : ~NormalizedFits(NormalizeLexical(text))

-----------------------------------------------------------------------------
(* The leakage gate.                                                       *)

(* The first character of either class decides.                            *)
FailClosedReason(text) ==
  LET i == SelectInSeq(text, LAMBDA c : c \in Bidi \cup Compat)
  IN IF i = 0 THEN "none"
     ELSE IF text[i] \in Bidi THEN "bidi_control" ELSE "cjk_compatibility_ideograph"

Channel(prompt, target) ==
  IF prompt = <<>> \/ target = <<>>
  THEN [lcs |-> <<0, 1>>, recall |-> <<0, 1>>, span |-> 0]
  ELSE LET trigrams == Ngrams(target, 3)
           count == BagCardinality(trigrams)
       IN [lcs |-> <<LcsLength(prompt, target), Len(target)>>,
           recall |-> IF count = 0 THEN <<0, 1>>
                      ELSE <<Overlap(trigrams, Ngrams(prompt, 3)), count>>,
           span |-> LongestCommonSpan(prompt, target)]

(* A channel's share of thresholds reached, each with >=.                  *)
Reaches(channel, bound) ==
  \/ AtLeast(channel.lcs, bound.lcs)
  \/ AtLeast(channel.recall, bound.recall)
  \/ channel.span >= bound.span

(* Each of the seven conditions disqualifies.                              *)
Verdict(reason, units, skeleton, thresholds) ==
  [disqualified |-> \/ reason # "none"
                    \/ Reaches(units, thresholds.units)
                    \/ Reaches(skeleton, thresholds.skeleton),
   failClosedReason |-> reason, units |-> units, skeleton |-> skeleton]

(* Mutated EvaluateLeakage: only the words count.                          *)
WordsOnly(prompt, target, thresholds) ==
  Verdict(FailClosedReason(prompt), Channel(LexicalUnits(prompt), LexicalUnits(target)),
          Channel(<<>>, <<>>), thresholds)

EvaluateLeakage(prompt, target, thresholds) ==
  Verdict(FailClosedReason(prompt), Channel(LexicalUnits(prompt), LexicalUnits(target)),
          Channel(Skeleton(prompt), Skeleton(target)), thresholds)

LeakageRaises(prompt, target) ==
  \/ ~TextFits(prompt) \/ ~TextFits(target)
  \/ ~NormalizedFits(NormalizeLeakage(prompt))
  \/ ~NormalizedFits(NormalizeLeakage(target))
  \/ ~PairFits(LexicalUnits(prompt), LexicalUnits(target))
  \/ ~PairFits(Skeleton(prompt), Skeleton(target))

(* leakage_score: how near the gate a prompt came.                         *)
LeakageScore(gate, thresholds) ==
  LET Near(channel, bound) ==
        {Rounded(channel.lcs[1], channel.lcs[2]),
         Rounded(channel.recall[1], channel.recall[2]),
         Rounded(Min({channel.span, bound.span}), bound.span)}
  IN IF gate.failClosedReason # "none" THEN Unit
     ELSE Max(Near(gate.units, thresholds.units)
              \cup Near(gate.skeleton, thresholds.skeleton))

(* _validate_leakage_thresholds.                                           *)
ThresholdsValid(thresholds) ==
  \A bound \in {thresholds.units, thresholds.skeleton} :
    /\ \A ratio \in {bound.lcs, bound.recall} :
         ratio[2] \in Nat \ {0} /\ ratio[1] \in 0..ratio[2]
    /\ bound.span \in Nat \ {0}
=============================================================================
