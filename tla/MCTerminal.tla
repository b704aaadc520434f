----------------------------- MODULE MCTerminal -----------------------------
(* A screen of two columns and two rows with three lines of scrollback, and *)
(* an echo buffer of two, which the third echo under way overflows.        *)
EXTENDS Terminal

MCKeys    == {<<"a">>, <<"nl">>, <<"del">>, <<"esc", "[", "a">>}
MCOutputs == {<<"a">>, <<"b", "nl">>, <<"esc", "a">>, <<"esc", "[", "a">>}

=============================================================================
