---------------------------- MODULE MCTokenText ----------------------------
(***************************************************************************)
(* Instances of TokenText for TLC: bytes that stand for the classes UTF-8  *)
(* tells apart, all bytes at the edges of its ranges, and stop words.      *)
(***************************************************************************)
EXTENDS TokenText

One(B) == {<<b>> : b \in B}

\* a letter, three kinds of continuation, each kind of lead, a byte that is never used
Classes == {\h61, \h8F, \h9F, \hA0, \hC2, \hE0, \hE1, \hED, \hF0, \hF1, \hF4, \hF5}
Edges == {\h7F, \h80, \h8F, \h90, \h9F, \hA0, \hBF, \hC0, \hC1, \hC2, \hDF, \hE0, \hE1, \hEC,
          \hED, \hEE, \hEF, \hF0, \hF1, \hF3, \hF4, \hF5, \hFF}

\* s, t, the euro sign in two parts, and a dead byte
Letters == {<<\h73>>, <<\h74>>, <<\h73, \h74>>, <<\h74, \hE2>>, <<\h82, \hAC>>,
            <<\hE2, \h82, \hAC>>, <<\h74, \hFF>>}
StopWords == {{<<\h73, \h74>>}, {<<\h73, \h73>>, <<\h74>>}, {<<\h74, \hE2, \h82, \hAC>>}}

Consumer == {"completion", "slot"}
MCCases ==
  [consumer : {"slot"}, pieces : {One(Classes)}, stop_words : {{}}, max : {5}]
  \cup [consumer : Consumer, pieces : {One(Edges)}, stop_words : {{}}, max : {3}]
  \cup [consumer : Consumer, pieces : {Letters}, stop_words : StopWords, max : {6}]
=============================================================================
