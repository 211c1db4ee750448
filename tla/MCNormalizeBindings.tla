------------------------ MODULE MCNormalizeBindings ------------------------
(* Small instances of NormalizeBindings.                                    *)
EXTENDS NormalizeBindings

\* Filters by tenant or plan select one instance or all.
AllOrFirst == {Instance, {1}}
All == {Instance}

\* Bindings left behind by runs that were waited for, and also by others.
Settled == {"succeeded", "failed"}
OnlySucceeded == {"succeeded"}
Unsettled == {"succeeded", "creating"}
=============================================================================
