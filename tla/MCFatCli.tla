------------------------------ MODULE MCFatCli -----------------------------
(* Instances of FatCli for TLC. *)
EXTENDS FatCli

F == <<"F", 0>>
G == <<"long file", 0>>
D == <<"D", 0>>
H == <<"long figures 2.", 0>>
OneLong == {G}
TwoLong == {G, H}
GBase == [n \in OneLong |-> "LONGFI"]
GParts == [n \in OneLong |-> 1]
TwoBase == [n \in TwoLong |-> "LONGFI"]
TwoParts == [n \in TwoLong |-> IF n = H THEN 2 ELSE 1]

CONSTANTS x, y
WriteOf(p, d, n) == [op |-> "write", path |-> p, data |-> d, size |-> n, found |-> TRUE]
On(op, p) == [op |-> op, path |-> p]

Fresh == {Formatted, Locked(F, x)}

\* Commands that need no more than one sector for D.
FewCommands ==
  {WriteOf(<<F>>, x, 3), WriteOf(<<F>>, y, 1), WriteOf(<<G>>, x, 2), WriteOf(<<D, F>>, y, 3),
   [WriteOf(<<F>>, x, 1) EXCEPT !.found = FALSE],
   On("rm", <<F>>), On("rm", <<G>>), On("rm", <<D>>), On("rm", <<D, F>>),
   On("mkdir", <<D>>), On("read", <<F>>), On("read", <<G>>), On("ls", <<>>), On("ls", <<D>>)}
MoreCommands == FewCommands \cup {WriteOf(<<D, G>>, y, 0), WriteOf(<<H>>, y, 1), On("rm", <<H>>)}
=============================================================================
