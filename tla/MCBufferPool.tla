---------------------------- MODULE MCBufferPool ----------------------------
(***************************************************************************)
(* TLC instance of BufferPool: three frames for four pages, so that every  *)
(* page can be evicted while two others are pinned, and two values, so     *)
(* that a stale page differs from a fresh one.                             *)
(***************************************************************************)
EXTENDS BufferPool
=============================================================================
