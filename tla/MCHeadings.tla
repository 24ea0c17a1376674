----------------------------- MODULE MCHeadings -----------------------------
(* Headings whose given ids already look numbered: x and x-1.                *)
EXTENDS Headings

GivenIdsValue == {<<1>>, <<1, 1>>}
NoGivenIds == {}
=============================================================================
