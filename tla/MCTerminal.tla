----------------------------- MODULE MCTerminal -----------------------------
(* Instances of Terminal for TLC.                                          *)
EXTENDS Terminal, TLC

CONSTANTS KeyEnter, KeyBack, KeyCtrl, KeyDel, CharA

\* Ctrl and Del have no character of their own: the layout gives 0 for them.
MCLayout ==
    (KeyEnter :> Newline) @@ (KeyBack :> Backspace) @@ [k \in {KeyCtrl, KeyDel} |-> CharA]

\* Longer than the output buffer.
MCMessages == {<<CharA, Newline, CharA>>}
=============================================================================
