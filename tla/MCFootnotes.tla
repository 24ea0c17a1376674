---------------------------- MODULE MCFootnotes ----------------------------
(* Without a callback, and with one that answers one id of the two.        *)
EXTENDS Footnotes

MCOverridings == {{}, {2}}
=============================================================================
