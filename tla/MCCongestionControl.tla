------------------------ MODULE MCCongestionControl -------------------------
(***************************************************************************)
(* Two instances of the congestion control, by names that do not clash     *)
(* with those of other things that threads share.  component tells them    *)
(* apart: one window with every kind of measurement and several new rates  *)
(* ("rates"), and one new rate on its way to the server, with a window     *)
(* that is resized, lost and delayed packets, and a reconnection           *)
(* ("settings").                                                           *)
(***************************************************************************)
EXTENDS Integers

CONSTANTS
    Screens, Links, Losses, Delays, Latencies, SevereWait, UpdateWait, StuckWait, NetSize,
    MaxOps, MaxSevere, MaxResizes, MaxConnections, MaxSettingsLosses, MaxFaults,
    Window, Link, AllLosses, AllDelays, AllLatencies, Rates, SevereSignals

VARIABLES
    component,
    screen, ns, wcc, low, since, main, copied, settings_net, srv, started, left

Sending == INSTANCE CongestionControl WITH
    net <- settings_net, MaxReconnects <- MaxConnections, MaxLosses <- MaxSettingsLosses
Controller == INSTANCE CongestionControl WITH
    net <- settings_net, Screens <- {Window}, Links <- {Link}, Losses <- AllLosses,
    Delays <- AllDelays, Latencies <- AllLatencies, NetSize <- 0,
    MaxOps <- Rates, MaxSevere <- SevereSignals, MaxResizes <- 0, MaxReconnects <- 0,
    MaxLosses <- 0, MaxFaults <- SevereSignals

CongestionAssumptions ==
    Sending!CongestionControlAssumption /\ Controller!CongestionControlAssumption

settingsVars == <<screen, ns, wcc, low, since, main, copied, settings_net, srv, started, left>>

CongestionInit ==
    \/ component = "settings" /\ Sending!Init
    \/ component = "rates" /\ Controller!Init

CongestionNext ==
    \/ component = "settings" /\ Sending!Next
    \/ component = "rates" /\ Controller!Next

\* Time passes, video keeps arriving and is measured, threads run, packets that are not lost
\* arrive.
CongestionFairness ==
    /\ WF_settingsVars(component = "settings" /\ Sending!Tick)
    /\ WF_settingsVars(component = "settings" /\ Sending!FirstGroup)
    /\ WF_settingsVars(component = "settings" /\ Sending!QuietGroup)
    /\ WF_settingsVars(component = "settings" /\ Sending!MainThread)
    /\ WF_settingsVars(component = "settings" /\ \E i \in Sending!Inputs :
                           Sending!FirstControl(i) \/ Sending!KeepBandwidth(i))
    /\ WF_settingsVars(component = "settings" /\ \E s \in settings_net : Sending!ReceiveSettings(s))
    /\ WF_settingsVars(component = "settings" /\ Sending!ServerStarts)

-----------------------------------------------------------------------------
\* The controller's rates, maximum and flags stay consistent through every kind of measurement
\* (network_algorithm.c:325-439); the flag of insufficient bandwidth is about one window.
RatesAreSound ==
    /\ Sending!MaximumCoversSuccess /\ Sending!CongestionIsProbed
    /\ component = "rates" => Sending!InsufficientAtMinimum

\* Whatever mixture of settings the client's two threads leave behind (udp.cpp:683), the server
\* never divides by a rate of zero (video.c:693), and its two rates are no more than the factor
\* of the burst mode apart.
ServedRatesAreNear == Sending!ServedRatesAreNear

\* "Whist congestion control increases burst bitrate only after exceeding max bitrate"
\* (network_algorithm.c:115): until then the server's two rates are the same.
BurstsMatch == Sending!BurstsMatch

\* Probing for bandwidth ends when the rate cannot be raised any further
\* (network_algorithm.c:404), and the server ends up with the client's settings although
\* packets are lost and overtake one another (udp.cpp:565).
NetworkSettles ==
    /\ (component = "settings" /\ ns.saturate /\ since.update >= StuckWait)
           ~> (~ns.saturate \/ since.update < StuckWait)
    /\ <>[](component = "settings" => srv = ns)
=============================================================================
