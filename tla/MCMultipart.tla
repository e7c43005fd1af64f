---------------------------- MODULE MCMultipart ----------------------------
(* Multipart on small instances. *)
EXTENDS Multipart

CONSTANTS r1, r2, a, b, u1

\* Part 1 is sent in two forms.
SentParts == {<<1, a>>, <<1, b>>, <<2, a>>}
=============================================================================
