------------------------------ MODULE MCRwLock ------------------------------
(* RwLock for TLC: three threads, which is one reader and two contending   *)
(* writers at the same time, and read sections that nest twice.            *)
EXTENDS RwLock
=============================================================================
