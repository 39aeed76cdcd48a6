----------------------------- MODULE MCIngestion -----------------------------
(* Three messages of a watched chat, the last one in a watched thread of   *)
(* it and edited later; the search for mentions never answers, and without *)
(* an approval service the inbox has nothing to drain.                     *)
EXTENDS Ingestion

CONSTANTS first, second, followup, mentions, chat, thread

MCMessage == {first, second, followup}
MCSource == {mentions, chat, thread}
MCAt == (first :> 0) @@ (second :> 0) @@ (followup :> 1)
MCRank == (first :> 1) @@ (second :> 2) @@ (followup :> 3)
MCHomes == (first :> {chat}) @@ (second :> {chat}) @@ (followup :> {chat, thread})
MCStages == <<"group_at_me", "active_watch">>
MCTargets == ("approval_inbox" :> <<>>) @@ ("group_at_me" :> <<mentions>>)
               @@ ("active_watch" :> <<chat, thread>>)
MCFailing == {{mentions}}
=============================================================================
