------------------------------- MODULE MCApp ---------------------------------
(* One screen at a time, with reconnections and losses.                     *)
EXTENDS App

Use(can, n) == [can |-> can, tasks |-> n]

MCUses == {Use({"disconnect", "diagnose"}, 6), Use({"diagnose", "loss"}, 5),
           Use({"disconnect", "refresh"}, 6), Use({"disconnect", "apps"}, 4),
           Use({"disconnect", "socket watch"}, 4), Use({"socket watch", "loss"}, 3),
           Use({"disconnect", "capture"}, 4), Use({"capture", "loss"}, 3),
           Use({"disconnect", "timeline"}, 3), Use({"timeline", "loss"}, 3)}

\* A capture and a timeline over a reconnection, for CancelsItsOwn.
ReconnectUses == {Use({"disconnect", "capture", "timeline"}, 8)}

MCInstalled == <<11, 12>>
=============================================================================
