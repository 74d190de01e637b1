------------------------- MODULE MCTerminalCommands -------------------------
EXTENDS TerminalCommands, TLC

\* Browsers and commands are interchangeable.
Symmetry == Permutations(Browser) \cup Permutations(Command)
=============================================================================
