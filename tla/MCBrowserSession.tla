------------------------- MODULE MCBrowserSession -------------------------
(* Two tabs of one browser with a call each; one password login.          *)
EXTENDS BrowserSession

CONSTANTS tab1, tab2

MCCalls == {<<tab1, "load">>, <<tab2, "work">>}

=============================================================================
