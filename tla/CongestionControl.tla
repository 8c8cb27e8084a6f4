--------------------------- MODULE CongestionControl ---------------------------
(***************************************************************************)
(* whist/network/network_algorithm.c with its callers in udp.cpp: the       *)
(* client's UDP thread runs the congestion controller for every group of    *)
(* video packets and signals severe congestion when no pong arrives; the    *)
(* main thread installs new settings when the window is resized; the        *)
(* settings travel to the server in UDP packets that may be lost or         *)
(* overtaken, and are sent again every second.                              *)
(*                                                                         *)
(* Bitrates are integers, as in the code, in a coarser unit; delays,        *)
(* latencies and the measured bitrate are inputs, delays and latencies      *)
(* reduced to the side of each threshold they are on.  Of time, the order   *)
(* of the waits is kept.  ENABLE_FEC is false in the code, and no bitrate   *)
(* is overridden on the command line.                                       *)
(***************************************************************************)
EXTENDS Integers, FiniteSetsExt

CONSTANTS
    Screens,       \* pixels of a window, scaled for its DPI
    Links,         \* bitrates the network may let through
    Losses,        \* packet loss in percent
    Delays,        \* delay variation against its threshold
    Latencies,     \* short-term latency against 1.1, 1.3 and 2 times the long-term one
    SevereWait,    \* ticks: 25 ms
    UpdateWait,    \* NEW_BITRATE_DURATION_IN_SEC, also the period of resending
    StuckWait,     \* 5 s
    NetSize,       \* settings packets on their way
    MaxOps, MaxSevere, MaxResizes, MaxReconnects, MaxLosses,  \* bounds on what happens
    MaxFaults      \* bound on the last four together

\* What the constants have to be; the module that instantiates this one assumes it.  From two
\* pixels on, and no window is as small, all bitrates are positive.
CongestionControlAssumption ==
    /\ Screens \subseteq Nat \ {0, 1} /\ Screens # {} /\ Links \subseteq Nat \ {0}
    /\ Delays \subseteq {"over", "under", "none"}
    /\ Latencies \subseteq {"low", "raised", "high", "very high"}
    /\ Losses \subseteq 0 .. 100 /\ NetSize \in Nat
    /\ {SevereWait, UpdateWait, StuckWait} \subseteq Nat
    /\ SevereWait < UpdateWait /\ UpdateWait < StuckWait
    /\ {MaxOps, MaxSevere, MaxResizes, MaxReconnects, MaxLosses, MaxFaults} \subseteq Nat

MaxIncrease == 32           \* MAX_INCREASE_PERCENTAGE, in half percents
MinIncrease == 1            \* MIN_INCREASE_PERCENTAGE
BURST_BITRATE_RATIO == 4

VARIABLES
    screen,    \* network_algo_width and _height, dpi
    ns,        \* network_settings of the client's UDP context
    wcc,       \* the static variables of whist_congestion_controller
    low,       \* network_algo_insufficient_bandwidth
    since,     \* ticks since the last update, the last decrease, the last packet with settings
    main,      \* what the main thread does
    copied,    \* the parts of the settings it has written
    net,       \* settings packets on their way
    srv,       \* network_settings of the server's UDP context
    started,   \* the server's video thread has installed its own settings
    left       \* what may still happen

vars == <<screen, ns, wcc, low, since, main, copied, net, srv, started, left>>

Settings == [video : Nat, burst : Nat, saturate : BOOLEAN, congestion : BOOLEAN]

TypeOK ==
    /\ screen \in Screens /\ ns \in Settings /\ srv \in Settings
    /\ wcc \in [initialized : BOOLEAN, increase : MinIncrease .. MaxIncrease,
                burst_mode : BOOLEAN, max_available : Nat, last_successful : Nat,
                state : {"increase", "hold", "decrease"}, maybe_overuse : BOOLEAN]
    /\ low \in BOOLEAN /\ since \in [update : 0 .. StuckWait, decrease : 0 .. UpdateWait,
                                     sent : 0 .. UpdateWait]
    /\ main \in {"idle", "resized", "copying"} /\ copied \subseteq {"video", "burst"}
    /\ net \subseteq Settings /\ Cardinality(net) <= NetSize
    /\ started \in BOOLEAN

\* get_video_bitrate: the bitrates of a screen, in hundredths per pixel.
Bitrate(s, per_pixel) == (s * per_pixel) \div 100
MINIMUM_BITRATE == Bitrate(screen, 75)
STARTING_BITRATE == Bitrate(screen, 300)
MAXIMUM_BITRATE == Bitrate(screen, 400)

\* get_default_network_settings, get_starting_network_settings
Starting == [video |-> STARTING_BITRATE, burst |-> STARTING_BITRATE, saturate |-> TRUE,
             congestion |-> FALSE]

NoSettings == [video |-> 0, burst |-> 0, saturate |-> FALSE, congestion |-> FALSE]

Init ==
    /\ screen \in Screens /\ ns = NoSettings
    /\ wcc = [initialized |-> FALSE, increase |-> MaxIncrease, burst_mode |-> FALSE,
              max_available |-> 0, last_successful |-> 0, state |-> "hold",
              maybe_overuse |-> FALSE]
    /\ low = FALSE
    /\ since = [update |-> StuckWait, decrease |-> UpdateWait, sent |-> 0]
    /\ main = "resized" /\ copied = {} /\ net = {} /\ srv = Starting
    /\ started = FALSE
    /\ left = [ops |-> MaxOps, severe |-> MaxSevere, resizes |-> MaxResizes,
               reconnects |-> MaxReconnects, losses |-> MaxLosses, faults |-> MaxFaults]
-----------------------------------------------------------------------------
\* Bounds
Left(what) == left[what] > 0 /\ left.faults > 0
Spend(what) == left' = [left EXCEPT ![what] = @ - 1, !.faults = @ - 1]

\* send_desired_network_settings: a packet that finds no room is lost.
Send(s) == net' = IF Cardinality(net) < NetSize THEN net \cup {s} ELSE net

\* What the controller is given: on which side of the thresholds the filtered delay variation
\* is, whether overuse has lasted for its time, packet loss, the measured bitrate, latency.
Inputs ==
    [delay : Delays, long : BOOLEAN, loss : Losses,
     incoming : Links \cup {ns.video}, latency : Latencies]

\* The overuse detector
Suspect(i) == (i.delay = "over" /\ ~wcc.burst_mode) \/ i.loss > 10

Signal(i) ==
    IF Suspect(i) THEN IF wcc.maybe_overuse /\ i.long THEN "over" ELSE "normal"
    ELSE IF i.delay = "under" THEN "under" ELSE "normal"

\* The table of states and signals
Transition(state, signal) ==
    CASE signal = "over" -> "decrease"
      [] signal = "under" -> "hold"
      [] OTHER -> IF state = "hold" THEN "increase" ELSE IF state = "decrease" THEN "hold" ELSE state

\* Then latency is looked at.
DelayState(i) ==
    LET state == Transition(wcc.state, Signal(i))
    IN  CASE i.latency = "very high" \/ (i.latency = "high" /\ ~wcc.burst_mode) -> "decrease"
          [] i.latency # "low" /\ state = "increase" -> "hold"
          [] OTHER -> state

\* An increase: what worked becomes the maximum; the rate grows by a percentage that is large
\* while the bandwidth is looked for.
Increased ==
    LET found == ns.video > wcc.max_available
        saturate == ns.saturate \/ found
        increase == IF saturate THEN MaxIncrease ELSE wcc.increase
    IN  [rate |-> (ns.video * (200 + increase)) \div 200, saturate |-> saturate,
         increase |-> increase, last_successful |-> ns.video,
         max_available |-> IF found THEN ns.video ELSE wcc.max_available,
         congestion |-> ns.congestion]

MaximumForgets == (wcc.max_available * 95) \div 100

\* The maximum follows slowly when congestion shows up at a lower rate.
LoweredMaximum ==
    IF wcc.last_successful < wcc.max_available
    THEN (wcc.max_available * 95 + wcc.last_successful * 5) \div 100
    ELSE wcc.max_available

\* A decrease: to what arrives, when that can be relied on, or else by a share of the rate.
Decreased(i) ==
    LET max == LoweredMaximum
        reliable == ns.saturate \/ i.incoming * 95 > max * 75
        rate == IF reliable THEN (i.incoming * 95) \div 100
                ELSE (ns.video * Min({95, 100 - (i.loss \div 2)})) \div 100
        converged == reliable /\ rate * 100 >= max * 75
    IN  [rate |-> rate, max_available |-> max, last_successful |-> wcc.last_successful,
         saturate |-> IF reliable THEN ns.saturate /\ ~converged ELSE TRUE,
         increase |-> IF converged THEN Max({wcc.increase \div 2, MinIncrease})
                      ELSE wcc.increase,
         congestion |-> TRUE]

\* What the detector leaves behind after every group
Detected(i) ==
    [wcc EXCEPT !.initialized = TRUE, !.state = DelayState(i), !.maybe_overuse = Suspect(i)]

\* At the minimum for the second time in a row
Insufficient(n) == n.rate < MINIMUM_BITRATE /\ (low \/ ns.video = MINIMUM_BITRATE)

\* The end of whist_congestion_controller: congestion is marked only while probing.
Calmed(s) == [s EXCEPT !.congestion = @ /\ s.saturate]

\* What follows every new rate: probing far below the maximum, the limits, the burst mode.
Update(n, i) ==
    LET far == n.rate * 100 < n.max_available * 75 \/ n.max_available = 0
        rate == Max({n.rate, MINIMUM_BITRATE})
        burst == rate >= MAXIMUM_BITRATE
        saturate == (n.saturate \/ far) /\ ~burst
        video == Min({rate, MAXIMUM_BITRATE})
    IN  /\ ns' = Calmed([video |-> video,
                         burst |-> IF burst THEN video * BURST_BITRATE_RATIO ELSE video,
                         saturate |-> saturate, congestion |-> n.congestion])
        /\ wcc' = [Detected(i) EXCEPT
                     !.increase = IF far THEN MaxIncrease ELSE n.increase,
                     !.burst_mode = burst, !.max_available = n.max_available,
                     !.last_successful = n.last_successful]
        /\ low' = Insufficient(n)

\* A new rate starts the timers of updates and of sending.
SentOnly == [since EXCEPT !.sent = 0]
Restarted == [since EXCEPT !.update = 0, !.sent = 0]

\* "resend values periodically since UDP packet might get lost"
NeverDue == FALSE
Due == since.sent >= UpdateWait

MayControl == main # "copying" /\ ns.video # 0 /\ wcc.initialized

\* whist_congestion_controller raises the bitrate: the rate in use has worked.
IncreaseBandwidth(i) ==
    /\ MayControl /\ left.ops > 0 /\ DelayState(i) = "increase"
    /\ since.update >= UpdateWait /\ i.incoming * 100 > ns.video * 95
    /\ Update(Increased, i) /\ Send(ns')
    /\ since' = Restarted
    /\ left' = [left EXCEPT !.ops = @ - 1]
    /\ UNCHANGED <<screen, main, copied, srv, started>>

\* whist_congestion_controller lowers the bitrate.
DecreaseBandwidth(i) ==
    /\ MayControl /\ left.ops > 0 /\ DelayState(i) = "decrease"
    /\ since.decrease >= UpdateWait
    /\ Update(Decreased(i), i) /\ Send(ns')
    /\ since' = [update |-> 0, decrease |-> 0, sent |-> 0]
    /\ left' = [left EXCEPT !.ops = @ - 1]
    /\ UNCHANGED <<screen, main, copied, srv, started>>

\* Without a new rate for long, probing is switched off.
GivesUp == ns.saturate /\ since.update >= StuckWait

\* whist_congestion_controller leaves the bitrate alone; settings are sent again if it is time.
KeepBandwidth(i) ==
    /\ MayControl
    /\ ~(DelayState(i) = "increase" /\ since.update >= UpdateWait
         /\ i.incoming * 100 > ns.video * 95)
    /\ ~(DelayState(i) = "decrease" /\ since.decrease >= UpdateWait)
    /\ ns' = Calmed([ns EXCEPT !.saturate = @ /\ ~GivesUp])
    /\ wcc' = Detected(i)
    /\ IF GivesUp \/ Due
       THEN Send(ns') /\ since' = [since EXCEPT !.sent = 0]
       ELSE UNCHANGED <<net, since>>
    /\ UNCHANGED <<screen, low, main, copied, srv, started, left>>

\* udp_congestion_control for the first group of a connection, unless the main thread was first
FirstGroup ==
    /\ main # "copying" /\ ns.video = 0
    /\ ns' = Starting /\ Send(Starting)
    /\ since' = [since EXCEPT !.sent = 0]
    /\ UNCHANGED <<screen, wcc, low, main, copied, srv, started, left>>

\* The first call of the controller starts its timers.
FirstControl(i) ==
    /\ main # "copying" /\ ns.video # 0 /\ ~wcc.initialized
    /\ wcc' = Detected(i) /\ since' = [since EXCEPT !.update = 0, !.decrease = 0]
    /\ UNCHANGED <<screen, ns, low, main, copied, net, srv, started, left>>

\* A group for which the controller is not run, or finds too little data: settings are sent
\* again if it is time.
QuietGroup ==
    /\ main # "copying" /\ ns.video # 0 /\ Due
    /\ Send(ns) /\ since' = [since EXCEPT !.sent = 0]
    /\ UNCHANGED <<screen, ns, wcc, low, main, copied, srv, started, left>>

\* The settings of severe congestion
SevereVideoOnly == [ns EXCEPT !.video = MINIMUM_BITRATE, !.saturate = TRUE, !.congestion = TRUE]
Severe == [video |-> MINIMUM_BITRATE, burst |-> MINIMUM_BITRATE, saturate |-> TRUE,
           congestion |-> TRUE]

\* What the packet says: while the main thread writes its settings, a part of each
SevereSent ==
    IF main = "copying"
    THEN {Severe, Starting, [Severe EXCEPT !.burst = Starting.burst],
          [Starting EXCEPT !.burst = Severe.burst]}
    ELSE {Severe}

\* No pong for half a second: whist_congestion_controller_handle_severe_congestion, which
\* udp_update calls without the mutex.
SevereCongestion ==
    /\ Left("severe") /\ since.update >= SevereWait
    /\ ns' = Severe
    /\ \E s \in SevereSent : Send(s)
    /\ since' = Restarted
    /\ Spend("severe")
    /\ UNCHANGED <<screen, wcc, low, main, copied, srv, started>>
-----------------------------------------------------------------------------
\* sdl_renderer_resize_window
SetDimensions(s) ==
    /\ main = "idle" /\ Left("resizes") /\ s # screen
    /\ screen' = s /\ main' = "resized" /\ Spend("resizes")
    /\ UNCHANGED <<ns, wcc, low, since, copied, net, srv, started>>

\* udp_handle_resize takes the mutex and compares.
HandleResize ==
    /\ main = "resized" /\ copied' = {}
    /\ main' = IF ns.video < STARTING_BITRATE THEN "copying" ELSE "idle"
    /\ UNCHANGED <<screen, ns, wcc, low, since, net, srv, started, left>>

\* It writes the settings, in the order the compiler chose,
CopyPart(part) ==
    /\ main = "copying" /\ part \notin copied /\ copied' = copied \cup {part}
    /\ ns' = IF part = "burst" THEN [ns EXCEPT !.burst = Starting.burst]
             ELSE [Starting EXCEPT !.burst = ns.burst]
    /\ UNCHANGED <<screen, wcc, low, since, main, net, srv, started, left>>

\* sends them and gives the mutex back.
SendResized ==
    /\ main = "copying" /\ copied = {"video", "burst"}
    /\ Send(ns) /\ since' = [since EXCEPT !.sent = 0] /\ main' = "idle" /\ copied' = {}
    /\ UNCHANGED <<screen, ns, wcc, low, srv, started, left>>
-----------------------------------------------------------------------------
\* udp_handle_network_settings: packets overtake each other.
ReceiveSettings(s) ==
    /\ s \in net /\ net' = net \ {s} /\ srv' = s
    /\ UNCHANGED <<screen, ns, wcc, low, since, main, copied, started, left>>

LoseSettings(s) ==
    /\ s \in net /\ Left("losses") /\ net' = net \ {s}
    /\ Spend("losses")
    /\ UNCHANGED <<screen, ns, wcc, low, since, main, copied, srv, started>>

\* multithreaded_send_video installs the default settings once per connection.
ServerStarts ==
    /\ ~started /\ started' = TRUE /\ srv' = Starting
    /\ UNCHANGED <<screen, ns, wcc, low, since, main, copied, net, left>>

\* A new connection: fresh UDP contexts; what the controller keeps in static variables stays.
Reconnect ==
    /\ main = "idle" /\ Left("reconnects")
    /\ ns' = NoSettings /\ srv' = Starting /\ started' = FALSE /\ net' = {}
    /\ main' = "resized" /\ since' = [since EXCEPT !.sent = 0]
    /\ Spend("reconnects")
    /\ UNCHANGED <<screen, wcc, low, copied>>

\* Time passes; the main thread needs less than a tick to install settings.
Tick ==
    /\ main = "idle"
    /\ since' = [update |-> Min({since.update + 1, StuckWait}),
                 decrease |-> Min({since.decrease + 1, UpdateWait}),
                 sent |-> Min({since.sent + 1, UpdateWait})]
    /\ UNCHANGED <<screen, ns, wcc, low, main, copied, net, srv, started, left>>

Group ==
    \/ FirstGroup
    \/ QuietGroup
    \/ \E i \in Inputs : \/ FirstControl(i) \/ IncreaseBandwidth(i)
                         \/ DecreaseBandwidth(i) \/ KeepBandwidth(i)

MainThread ==
    \/ HandleResize
    \/ \E part \in {"video", "burst"} : CopyPart(part)
    \/ SendResized

Next ==
    \/ Group
    \/ SevereCongestion
    \/ \E s \in Screens : SetDimensions(s)
    \/ MainThread
    \/ \E s \in net : ReceiveSettings(s) \/ LoseSettings(s)
    \/ ServerStarts
    \/ Reconnect
    \/ Tick

\* Time passes, video keeps arriving and is measured, threads run, packets that are not lost
\* arrive.
Fairness ==
    /\ WF_vars(Tick) /\ WF_vars(FirstGroup) /\ WF_vars(QuietGroup) /\ WF_vars(MainThread)
    /\ WF_vars(\E i \in Inputs : FirstControl(i) \/ KeepBandwidth(i))
    /\ WF_vars(\E s \in net : ReceiveSettings(s)) /\ WF_vars(ServerStarts)

Spec == Init /\ [][Next]_vars /\ Fairness
-----------------------------------------------------------------------------
\* The burst bitrate is the encoder's bitrate, but for a multiple of it once the maximum is
\* exceeded ("increases burst bitrate only after exceeding max bitrate").
Matches(s) == s.video <= s.burst /\ (s.video < s.burst => ~s.saturate)
BurstsMatch == \A s \in net \cup {srv} : Matches(s)

\* Whatever mixture of settings the two client threads leave behind, none of the server's rates
\* is zero (video.c divides by one), and neither is more than four times the other: both are of
\* the same window, four times its lowest rate at most, or in burst mode.
Near(s) ==
    /\ 0 < s.video /\ 0 < s.burst
    /\ s.video < BURST_BITRATE_RATIO * (s.burst + 1)
    /\ s.burst < BURST_BITRATE_RATIO * (s.video + 1)
ServedRatesAreNear == \A s \in net \cup {srv} : Near(s)

\* The maximum decays towards the last rate that worked and never falls below it.
MaximumCoversSuccess == wcc.last_successful <= wcc.max_available

\* Insufficient bandwidth is shown only while the stream is at the minimum.
InsufficientAtMinimum == low => ns.video = MINIMUM_BITRATE

\* The long-term latency is frozen while congestion is marked: only while probing for bandwidth.
CongestionIsProbed == ns.congestion => ns.saturate
=============================================================================
