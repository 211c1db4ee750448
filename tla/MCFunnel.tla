------------------------------ MODULE MCFunnel ------------------------------
(* Five calls of different loads on a funnel with limit 3.                   *)
EXTENDS Funnel

\* Over the limit, an argument that is raised to 1, heavy, and light: also the
\* light ones may barge in before others of their load.
MixedLoads == <<4, 0, 2, 1, 1>>
=============================================================================
