------------------------------- MODULE MCBridge -------------------------------
(* TLC instance of Bridge: four tools over four tags. *)
EXTENDS Bridge, TLC

CONSTANTS t1, t2, t3, t4, a, b, c, d

\* t1 and t2 share a tag, t3 stands alone, t4 has more tags than the
\* window of these runs has room for.
MCCapsOf == (t1 :> <<a>>) @@ (t2 :> <<a, b>>) @@ (t3 :> <<c>>) @@ (t4 :> <<b, c, d>>)

\* Lines nobody answers, and a known method without an id.
MCUnnumbered == {Plain("ignored", 0), Plain("oversized", 0), CallOf(t2, 0)}
===============================================================================
