---------------------------- MODULE MCClientView ----------------------------
(* Small instances of ClientView. *)
EXTENDS ClientView

CONSTANTS here, other, spot, elsewhere, ann, bob

\* Two notes of one burst, before them one of somebody else, and a twin of the
\* last under another id.
N(i, a, s, t) == [id |-> i, author |-> a, spot |-> s, at |-> t, says |-> t]
Bobs == N(1, bob, elsewhere, 1)
Anns == N(2, ann, spot, 2)
AnnsNext == N(3, ann, spot, 3)
AnnsTwin == N(4, ann, spot, 3)
MCNotes == {Bobs, Anns, AnnsNext, AnnsTwin}
MCAnswers == {<<Bobs, AnnsTwin, Anns, AnnsNext>>}
MCLists == {{}, {here, other}}
MCRelayList == <<other, here>>
=============================================================================
