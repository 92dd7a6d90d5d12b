-------------------------- MODULE OrderedChannel --------------------------
(***************************************************************************)
(* What a publisher of the event bus counts on: what is accepted is taken  *)
(* once, in the order it was accepted, and nothing else is ever taken.     *)
(***************************************************************************)
EXTENDS Sequences, Naturals

VARIABLES sent, got

Init == sent = <<>> /\ got = <<>>

\* Some event is accepted at the end.
Accept ==
    /\ sent' # <<>>
    /\ sent' = Append(sent, sent'[Len(sent')])
    /\ UNCHANGED got

Take ==
    /\ Len(got) < Len(sent)
    /\ got' = Append(got, sent[Len(got) + 1])
    /\ UNCHANGED sent

Next == Take \/ Accept

Spec == Init /\ [][Next]_<<sent, got>>

=============================================================================
