---------------------------- MODULE MCWatchers -----------------------------
(* Instances of Watchers for TLC.                                           *)
EXTENDS Watchers

OnEvents == [events |-> TRUE, timed |-> FALSE, reaction |-> "event"]
OnTime   == [events |-> TRUE, timed |-> TRUE, reaction |-> "processing"]
TwoDefs  == {OnEvents, OnTime}
=============================================================================
