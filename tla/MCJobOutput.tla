---------------------------- MODULE MCJobOutput ----------------------------
EXTENDS JobOutput, SequencesExt

\* Two events, two bars that show the same progress, and one that shows more.
MCStructured == {<<"e">>, <<"e", "1">>}
MCSignature == (<<"1">> :> "one") @@ (<<"1", " ">> :> "one") @@ (<<"1", "1">> :> "eleven")

MCChars == {"e", "1", " ", "cr", "lf"}
TwoStreams == {"stdout", "stderr"}
Text(out, err) == [s \in TwoStreams |-> IF s = "stdout" THEN out ELSE err]

\* Every short text on stdout, next to a silent stderr, and some on both.
ShortTexts == BoundedSeq({"e", "1", "cr", "lf"}, 4)
LongTexts == {<<"1", "cr", "1", "cr">>, <<"e", "lf", "e">>, <<"1", "lf", "e", "lf", "1">>,
              <<"1", " ", "lf", "1">>}

MCScripts ==
    {Text(out, <<>>) : out \in ShortTexts} \cup {Text(out, err) : out, err \in LongTexts}
=============================================================================
