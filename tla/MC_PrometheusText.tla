------------------------- MODULE MC_PrometheusText -------------------------
(* Instantiates PrometheusText for TLC.                                    *)
EXTENDS PrometheusText

\* The three escaped characters, a comma and a letter, which together can
\* spell a closing quote followed by another label.
MCValueChars == {NL, BS, DQ, ",", "n"}

\* Label values made only of the escaped characters.
MCEscapedChars == {NL, BS, DQ}

\* A letter, and the letter that follows a backslash in the escape \n.
MCPlainDesc == {"d", "n"}

\* The same with the two characters the HELP text must escape.
MCAnyDesc == {"d", "n", NL, BS}

MCAllTypes == {"counter", "gauge", "histogram", "other"}
=============================================================================
