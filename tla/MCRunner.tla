------------------------------ MODULE MCRunner ------------------------------
(***************************************************************************)
(* An instance of Runner: a collector that reads /proc, one that may hang  *)
(* in statfs, a database integration that names no interval, and a scrape  *)
(* that asks for more time than its interval.                              *)
(***************************************************************************)
EXTENDS Runner, TLC

CONSTANTS host, disk, db, scrape

MCCore == {host, disk}
MCProbes == {db, scrape}
MCClosers == {db, scrape}
MCEvery == host :> 2 @@ disk :> 3 @@ db :> 0 @@ scrape :> 2
MCAsked == host :> 0 @@ disk :> 0 @@ db :> 0 @@ scrape :> 5
MCSlow == {scrape}
MCDeaf == {disk}
=============================================================================
