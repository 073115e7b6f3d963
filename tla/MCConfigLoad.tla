----------------------------- MODULE MCConfigLoad -----------------------------
(***************************************************************************)
(* The loaders and what is made of the tables they load, with tables of    *)
(* two models and two platforms.                                           *)
(***************************************************************************)
EXTENDS Reproduction

Full(n, v) == [columns |-> n, empty |-> {}, value |-> v]
Header == [columns |-> 1, value |-> "header"]

WithHeader(F) == {<<Header>> \o f : f \in F}

(* Files with the right number of rows, with blank lines among them, with  *)
(* a row too few or too many, and with a line that has too few or too many *)
(* columns; a file without even a header.                                  *)
ModelFiles ==
  LET a == Full(8, "a")  b == Full(8, "b")  short == Full(7, "b")  long == Full(9, "b2")
  IN  {<< >>} \cup WithHeader(
        {<< >>, <<a>>, <<a, b>>, <<b, a>>, <<Blank, b, b, Blank>>,
         <<a, short>>, <<b, long>>, <<a, b, a>>, <<a, b, Blank, short>>, <<Blank, Blank>>})

(* In some rows a column is empty, a surplus one takes its place, or both; *)
(* two platforms of one name.                                              *)
PlatformFiles ==
  LET p == Full(19, "p")  q == Full(19, "q")  p2 == Full(19, "p2")
      empty == [columns |-> 19, empty |-> {9}, value |-> "p"]
      wide == [columns |-> 20, empty |-> {9}, value |-> "p"]
      late == [columns |-> 20, empty |-> {17}, value |-> "p"]
  IN  WithHeader({<< >>, <<p>>, <<q, p>>, <<Blank, p, q>>, <<Full(18, "p"), q>>, <<p, p2>>,
                  <<empty, q>>, <<wide, q>>, <<late, q>>, <<p, q, p2>>})

ReferenceFiles ==
  LET x == Full(4, "x")  y == Full(4, "y")
  IN  WithHeader({<<x>>, <<x, Blank, y>>, <<y, x>>, <<x, y, x>>, <<Full(3, "x"), y>>})

SmallTableFiles ==
  [models |-> ModelFiles, platforms |-> PlatformFiles, reference |-> ReferenceFiles]

SmallDefaults ==
  [models |-> <<"a", "b">>, platforms |-> <<"p", "q">>, reference |-> <<"x", "x">>]

SmallName == [a |-> "a", b |-> "b", b2 |-> "b", p |-> "p", q |-> "q", p2 |-> "p"]

(* Times and references with which the contexts within the guardrails are  *)
(* none, an interval, or an interval with a hole.                          *)
SmallWeightTime ==
  [a  |-> [p |-> 95, q |-> 80, p2 |-> 128], b |-> [p |-> 95, q |-> 79, p2 |-> 70],
   b2 |-> [p |-> 83, q |-> 73, p2 |-> 74]]
SmallCacheTime == [a |-> 4, b |-> 1, b2 |-> 0]
SmallAttentionOps == [a |-> 18, b |-> 6, b2 |-> 5]
SmallTokensPerSecond == [x |-> <<1076, 971>>, y |-> <<800, 992>>]

Key(k, v) == [columns |-> 2, key |-> k, value |-> v]

(* Up to three lines of the keys of the peak, in every order, an unknown   *)
(* key and a line that is not a pair; runs without a context, at the end   *)
(* of the sweep and outside it.                                            *)
Pairs ==
  {Key("npu_frequency", 3), Key("npu_ops_per_cycle", 5), Key("npu_peak", 7), Key("npu_peak", 0)}

PeakLines ==
  Pairs \cup {Key("unknown", 9), [columns |-> 1, key |-> "npu_peak", value |-> 0]}

ContextLines == {Key("context_tokens", c) : c \in {0, 1, 6, 8}}

SmallSystemFiles ==
  WithHeader({<< >>} \cup {<<k>> : k \in PeakLines \cup ContextLines}
               \cup {<<k, l>> : k, l \in PeakLines}
               \cup {<<k, Blank, l, m>> : k, l \in Pairs, m \in Pairs \cup ContextLines})

SmallDefaultSystem ==
  [npu_frequency |-> 1, npu_ops_per_cycle |-> 2, npu_peak |-> 2, context_tokens |-> 3]
=============================================================================
