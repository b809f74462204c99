------------------------------- MODULE MCUnix --------------------------------
(***************************************************************************)
(* Two threads on an address space of six pages.  region and own are       *)
(* regions, own one that the allocator forces for its own needs; the       *)
(* commit of region may fail.  big1 and big2 are extra-large objects of    *)
(* the size of a huge page, which exhaust the address space and, together  *)
(* with the regions, the counter.                                          *)
(***************************************************************************)
EXTENDS Unix, TLC

CONSTANTS region, own, big1, big2

MCSize == (region :> 4) @@ (own :> 4) @@ (big1 :> 8) @@ (big2 :> 8)
MCHugePage == ("2MB" :> 4) @@ ("1GB" :> 8)
=============================================================================
