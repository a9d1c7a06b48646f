------------------------------- MODULE AisTypes -------------------------------
(***************************************************************************)
(* io2/ais.h: what a decoded message is kept in.  A struct is its members by what they *)
(* can hold: int may be negative, unsigned not, bool is one byte, chars is a text or       *)
(* data; counts and lists of structs are described by the struct of an element.               *)
(***************************************************************************)
Struct(int, unsigned, bool, chars) == [int |-> int, unsigned |-> unsigned, bool |-> bool, chars |-> chars]
Members(s) == s.int \cup s.unsigned \cup s.bool \cup s.chars

RouteInfo == Struct({"waycount"}, {"linkage", "sender", "rtype", "month", "day", "hour", "minute",
    "duration"}, {}, {})
Waypoint == Struct({"lon", "lat"}, {}, {}, {})
Type1 == Struct({"turn", "lon", "lat"}, {"status", "speed", "course", "heading", "second", "maneuver",
    "radio"}, {"accuracy", "raim"}, {})
Type4 == Struct({"lon", "lat"}, {"year", "month", "day", "hour", "minute", "second", "epfd", "radio"},
    {"accuracy", "raim"}, {})
Type5 == Struct({}, {"ais_version", "imo", "shiptype", "to_bow", "to_stern", "to_port", "to_starboard",
    "epfd", "month", "day", "hour", "minute", "draught", "dte"}, {}, {"callsign", "shipname",
    "destination"})
Type6 == Struct({}, {"seqno", "dest_mmsi", "dac", "fid", "bitcount"}, {"retransmit"}, {})
Dac1fid12 == Struct({}, {"lmonth", "lday", "lhour", "lminute", "nmonth", "nday", "nhour", "nminute", "unid",
    "amount", "unit"}, {}, {"lastport", "nextport", "dangerous", "imdcat"})
Dac1fid18 == Struct({"lon", "lat"}, {"linkage", "month", "day", "hour", "minute"}, {}, {"portname",
    "destination"})
Dac1fid20 == Struct({"berth_lon", "berth_lat"}, {"linkage", "berth_length", "berth_depth", "position",
    "month", "day", "hour", "minute", "availability", "agent", "fuel", "chandler", "stevedore",
    "electrical", "water", "customs", "cartage", "crane", "lift", "medical", "navrepair", "provisions",
    "shiprepair", "surveyor", "steam", "tugs", "solidwaste", "liquidwaste", "hazardouswaste", "ballast",
    "additional", "regional1", "regional2", "future1", "future2"}, {}, {"berth_name"})
Cargo == Struct({}, {"code", "subtype"}, {}, {})
Tidal == Struct({"lon", "lat"}, {"from_hour", "from_min", "to_hour", "to_min", "cdir", "cspeed"}, {}, {})
Type7 == Struct({}, {"mmsi1", "mmsi2", "mmsi3", "mmsi4"}, {}, {})
Type8 == Struct({}, {"dac", "fid", "bitcount"}, {}, {})
Dac1fid13 == Struct({}, {"radius", "extunit", "fday", "fmonth", "fhour", "fminute", "tday", "tmonth",
    "thour", "tminute"}, {}, {"reason", "closefrom", "closeto"})
Target == Struct({"lat", "lon"}, {"idtype", "course", "second", "speed"}, {}, {"id"})
Dac1fid19 == Struct({"lon", "lat"}, {"linkage", "status", "signal", "hour", "minute", "nextsignal"}, {},
    {"station"})
Dac1fid31 == Struct({"lon", "lat", "airtemp", "dewpoint", "waterlevel", "watertemp"}, {"day", "hour",
    "minute", "wspeed", "wgust", "wdir", "wgustdir", "humidity", "pressure", "pressuretend", "visibility",
    "leveltrend", "cspeed", "cdir", "cspeed2", "cdir2", "cdepth2", "cspeed3", "cdir3", "cdepth3",
    "waveheight", "waveperiod", "wavedir", "swellheight", "swellperiod", "swelldir", "seastate",
    "preciptype", "salinity"}, {"accuracy", "visgreater", "ice"}, {})
Type9 == Struct({"lon", "lat"}, {"alt", "speed", "course", "second", "regional", "dte", "radio"},
    {"accuracy", "assigned", "raim"}, {})
Type10 == Struct({}, {"dest_mmsi"}, {}, {})
Type12 == Struct({}, {"seqno", "dest_mmsi"}, {"retransmit"}, {"text"})
Type14 == Struct({}, {}, {}, {"text"})
Type15 == Struct({}, {"mmsi1", "type1_1", "offset1_1", "type1_2", "offset1_2", "mmsi2", "type2_1",
    "offset2_1"}, {}, {})
Type16 == Struct({}, {"mmsi1", "offset1", "increment1", "mmsi2", "offset2", "increment2"}, {}, {})
Type17 == Struct({"lon", "lat"}, {"bitcount"}, {}, {"bitdata"})
Type18 == Struct({"lon", "lat"}, {"reserved", "speed", "course", "heading", "second", "regional", "radio"},
    {"accuracy", "cs", "display", "dsc", "band", "msg22", "assigned", "raim"}, {})
Type19 == Struct({"lon", "lat"}, {"reserved", "speed", "course", "heading", "second", "regional",
    "shiptype", "to_bow", "to_stern", "to_port", "to_starboard", "epfd", "dte"}, {"accuracy", "raim",
    "assigned"}, {"shipname"})
Type20 == Struct({}, {"offset1", "number1", "timeout1", "increment1", "offset2", "number2", "timeout2",
    "increment2", "offset3", "number3", "timeout3", "increment3", "offset4", "number4", "timeout4",
    "increment4"}, {}, {})
Type21 == Struct({"lon", "lat"}, {"aid_type", "to_bow", "to_stern", "to_port", "to_starboard", "epfd",
    "second", "regional"}, {"accuracy", "off_position", "raim", "virtual_aid", "assigned"}, {"name"})
Type22 == Struct({"ne_lon", "ne_lat", "sw_lon", "sw_lat"}, {"channel_a", "channel_b", "txrx", "zonesize"},
    {"power", "addressed", "band_a", "band_b"}, {})
Type22Addressed == Struct({}, {"dest1", "dest2", "channel_a", "channel_b", "txrx", "zonesize"}, {"power",
    "addressed", "band_a", "band_b"}, {})
Type23 == Struct({"ne_lon", "ne_lat", "sw_lon", "sw_lat"}, {"stationtype", "shiptype", "txrx", "interval",
    "quiet"}, {}, {})
Type24 == Struct({}, {"shiptype", "mothership_mmsi", "to_bow", "to_stern", "to_port", "to_starboard"}, {},
    {"shipname", "vendorid", "callsign"})
Type25 == Struct({}, {"dest_mmsi", "app_id", "bitcount"}, {"addressed", "structured"}, {"bitdata"})
Type26 == Struct({}, {"dest_mmsi", "app_id", "bitcount", "radio"}, {"addressed", "structured"}, {"bitdata"})
Type27 == Struct({"lon", "lat"}, {"status", "speed", "course"}, {"accuracy", "raim", "gnss"}, {})
=============================================================================
