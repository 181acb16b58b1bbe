---------------------------- MODULE MCAddonOptions ----------------------------
(* Instances of AddonOptions for TLC. *)
EXTENDS AddonOptions

CONSTANTS b1, b2, g1, g2, c1, k1, k2

(* The account may do everything in g1; or has lost the channel and g2; or has  *)
(* only g2, without delivery.                                                    *)
Full == [enabled |-> TRUE, summary |-> TRUE, defaults |-> TRUE, channels |-> {c1},
         aggregate |-> TRUE, aggregateDefaults |-> TRUE]
Bare == [Full EXCEPT !.summary = FALSE, !.defaults = FALSE, !.channels = {}]
Account(guilds) == [summary |-> TRUE, aggregate |-> TRUE, guilds |-> guilds]

MCIdentities == {Account([g \in {g1} |-> Full]), Account([g \in {g2} |-> Bare])}

MCCommands ==
  { <<"SaveOrdinary", k2>>, <<"SetWindowVisible", "off">>, <<"SetDpsReport", "off">>,
    <<"SetTwitch", "on">>, <<"ConnectTwitch", "on">>, <<"Verify", b2>>, <<"Refresh", "on">>,
    <<"SelectGuild", g1>>, <<"SetEnabled", "on">>, <<"SetDelivery", "on">>,
    <<"SelectChannel", c1>>, <<"Disconnect", "on">> }

(* A new installation; one with a guild that does not upload; one that delivers *)
(* to the defaults of g1.                                                        *)
Saved(guild, enabled, deliver, channel) ==
  [bot |-> [enabled |-> enabled, base |-> b1, guild |-> guild, deliver |-> deliver,
            channel |-> channel],
   dps |-> TRUE, twitch |-> FALSE, client |-> k1, visible |-> "on"]

MCSavedSettings ==
  {Saved(None, FALSE, FALSE, None), Saved(g1, FALSE, FALSE, None),
   Saved(g1, TRUE, TRUE, None)}
=============================================================================
