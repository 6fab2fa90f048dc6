-------------------------- MODULE MCForwardManager --------------------------
(* Small instances of ForwardManager: one session, two pods, or one.       *)
EXTENDS ForwardManager

CONSTANTS fwd, p1, p2

OneSession  == {fwd}
TwoPods     == {p1, p2}
OnePod      == {p1}
FirstOrNone == {p1, NoPod}
=============================================================================
