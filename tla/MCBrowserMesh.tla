---------------------------- MODULE MCBrowserMesh ----------------------------
(***************************************************************************)
(* The browser mesh with three pages: a page can find two others in the     *)
(* room, offer to both, and lose either while it does.                      *)
(***************************************************************************)
EXTENDS BrowserMesh
=============================================================================
