---------------------------- MODULE MCPageViews ----------------------------
(* The small instance of PageViews.  SessionViewStore: two runs of one store, *)
(* for an application that calls it from no listener, from the error          *)
(* listeners, or from the notify listeners.  FactoryViewStore: two runs over  *)
(* a journal of up to two records, which may shrink once.  SessionList: three *)
(* reads of two windows.  Reachability: three ticks make a host unreachable.  *)
EXTENDS PageViews

MCHabits == {{}, {"error"}, {"notify"}}
=============================================================================
