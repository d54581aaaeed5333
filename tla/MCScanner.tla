----------------------------- MODULE MCScanner -------------------------------
(* Instances of Scanner: short texts behind some letters, so that the      *)
(* interesting characters come to lie at every place of the two areas.     *)
EXTENDS Scanner

Padded(n, text) == [i \in 1..n |-> "a"] \o text

Cores == {
    <<"sp", "lf", "cr", "sp", "1">>,
    <<"1", "/", "*", "*", "/", "a">>,
    <<"/", "*", "lf", "cr", "cr", LowChar, "*", "/", ".">>,
    <<"/", "/", LowChar, "lf", "/", "*", "/">>,
    <<"#", "!", "sp", "lf", "#", "a">>,
    <<"1", ".", "1", ".", "a">>,
    <<"cr", "lf", "sp", "cr", "lf", "1">>,
    <<"cr", LowChar, "a", "sp", "/">> }

MCScripts ==
    {[text |-> Padded(n, text), fails |-> n = 0] : n \in {0, 2}, text \in Cores}
MCPlainScripts == {[text |-> <<"a", "+", "!", "a">>, fails |-> FALSE]}
MCReturnScripts == {[text |-> <<"cr", "cr", "a">>, fails |-> FALSE]}
MCQuitScripts == {[text |-> <<"#", "Q", "lf", "a">>, fails |-> FALSE]}

=============================================================================
