--------------------------- MODULE MCReconService ---------------------------
(***************************************************************************)
(* An instance of ReconService: each reader beside a plain hub that        *)
(* restarts, the loopback beside a hub that restarts and beside one whose  *)
(* bursts have a result, and all of them together with one burst.          *)
(***************************************************************************)
EXTENDS ReconService

Plain == [loopback |-> FALSE, readers |-> {}, bursts |-> 2, starts |-> 2, recs |-> RecModes]

MCSetups ==
  {[Plain EXCEPT !.readers = {"watcher"}],
   [Plain EXCEPT !.readers = {"poller"}],
   [Plain EXCEPT !.loopback = TRUE, !.recs = {FALSE}],
   [Plain EXCEPT !.loopback = TRUE, !.recs = {TRUE}, !.starts = 1],
   [Plain EXCEPT !.loopback = TRUE, !.readers = {"watcher", "poller"}, !.bursts = 1, !.starts = 1]}
=============================================================================
