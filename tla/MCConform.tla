----------------------------- MODULE MCConform -----------------------------
(***************************************************************************)
(* Devices for the run of the conformance checker.                         *)
(***************************************************************************)
EXTENDS ConformProperties

Good == [CONNECT |-> "Ok", DISCONNECT |-> "Ok", PULSE_NS |-> "Ok", PULSE_WE |-> "Ok",
         EXPOSE |-> "Ok"]

\* CONNECT is On while the device is connected, and DISCONNECT while it is not.
Exclusive == [b \in BOOLEAN |-> IF b THEN {"CONNECT"} ELSE {"DISCONNECT"}]

\* A guiding camera that defines its interfaces after CONNECT, and one that is found
\* connected and defines CONNECTION last.
Late ==
    [early |-> <<"CONNECTION", "DRIVER_INFO">>,
     late |-> <<"TELESCOPE_TIMED_GUIDE_NS", "TELESCOPE_TIMED_GUIDE_WE", "CCD_EXPOSURE",
                "CCD_INFO", "CCD1">>,
     odd |-> {}, wrong |-> {}, alerted |-> {}, driver |-> "numeric",
     iface |-> {"GUIDER", "CCD"}, connected |-> FALSE, on |-> Exclusive, reply |-> Good,
     frame |-> "fits"]
Found ==
    [Late EXCEPT !.early = <<"DRIVER_INFO", "TELESCOPE_TIMED_GUIDE_NS",
                             "TELESCOPE_TIMED_GUIDE_WE", "CCD_EXPOSURE", "CCD_INFO", "CCD2",
                             "CONNECTION">>,
                 !.late = <<>>, !.connected = TRUE]
Bare == [Late EXCEPT !.early = <<"ABS_FOCUS_POSITION">>, !.late = <<>>]

\* What one of them may do wrong, or unusually.
Twists(d) ==
    {d, [d EXCEPT !.wrong = {"CONNECTION"}], [d EXCEPT !.wrong = {"CCD1", "CCD2"}],
     [d EXCEPT !.odd = {"DRIVER_INFO"}], [d EXCEPT !.driver = "junk"],
     [d EXCEPT !.driver = "lacking"]}
      \cup {[d EXCEPT !.reply.CONNECT = r] : r \in {"Idle", "Alert", "Hollow", "Silent"}}
      \cup {[d EXCEPT !.reply.DISCONNECT = r] : r \in {"Idle", "Alert", "Silent"}}
      \cup {[d EXCEPT !.reply.PULSE_WE = r] : r \in {"Idle", "Alert", "Silent"}}
      \cup {[d EXCEPT !.reply.PULSE_WE = "Silent", !.alerted = {"TELESCOPE_TIMED_GUIDE_WE"}]}
      \cup {[d EXCEPT !.reply.EXPOSE = r] : r \in {"Idle", "Alert", "Silent"}}
      \cup {[d EXCEPT !.frame = f] : f \in {"empty", "missized", "none"}}
      \cup {[d EXCEPT !.on[b] = s] : b \in BOOLEAN, s \in {{}, Switches}}
      \cup {[d EXCEPT !.on[TRUE] = Switches, !.reply.DISCONNECT = "Silent"],
            [d EXCEPT !.on[FALSE] = {}, !.reply.DISCONNECT = "Silent"]}

\* Devices of the other interfaces, with what a contract asks for and without.
Kinds ==
    {[Late EXCEPT !.late = <<p, q>>, !.iface = {i}] :
        <<p, q, i>> \in
          {<<"ABS_FOCUS_POSITION", "X", "FOCUSER">>, <<"FOCUS_MOTION", "FOCUS_TIMER", "FOCUSER">>,
           <<"FOCUS_MOTION", "X", "FOCUSER">>, <<"ABS_DOME_POSITION", "X", "DOME">>,
           <<"X", "FILTER_SLOT", "FILTER">>, <<"X", "FILTER_SLOT", "DOME">>,
           <<"GEOGRAPHIC_COORD", "TIME_UTC", "GPS">>, <<"GEOGRAPHIC_COORD", "X", "GPS">>,
           <<"WEATHER_STATUS", "X", "WEATHER">>, <<"ABS_ROTATOR_ANGLE", "X", "ROTATOR">>,
           <<"EQUATORIAL_EOD_COORD", "ON_COORD_SET", "TELESCOPE">>}}
      \cup {[Late EXCEPT !.late = <<"WEATHER_STATUS">>, !.iface = {"WEATHER"},
                         !.wrong = {"WEATHER_STATUS"}],
            [Late EXCEPT !.late = <<"GEOGRAPHIC_COORD", "TIME_UTC">>, !.iface = {"GPS"},
                         !.wrong = {"TIME_UTC"}],
            [Late EXCEPT !.late = <<"EQUATORIAL_EOD_COORD", "ON_COORD_SET",
                                    "TELESCOPE_ABORT_MOTION">>, !.iface = {"TELESCOPE"}],
            [Late EXCEPT !.late = <<>>, !.early = <<>>]}

MCDevices == Twists(Late) \cup Twists(Found) \cup {Bare} \cup Kinds
=============================================================================
