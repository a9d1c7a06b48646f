------------------------------- MODULE AisFields -------------------------------
(***************************************************************************)
(* io2/aivdm.c: where in an AIS message the decoder finds its fields.  A layout is a  *)
(* record of <<first bit, bits>>; a text of n characters (the size of its array in ais.h *)
(* less one) has 6 n bits.  Spare bits are those the source gives in its comments.        *)
(* All messages begin with type, repeat and mmsi.                                            *)
(***************************************************************************)
EXTENDS Integers, FiniteSets, FiniteSetsExt, Sequences, TLC

TextWithNul(start, chars) == <<start, 6 * (chars + 1)>>      \* mutant: the size of the array
Text(start, chars) == <<start, 6 * chars>>

Type1 == [status |-> <<38, 4>>, turn |-> <<42, 8>>, speed |-> <<50, 10>>, accuracy |-> <<60, 1>>,
    lon |-> <<61, 28>>, lat |-> <<89, 27>>, course |-> <<116, 12>>, heading |-> <<128, 9>>,
    second |-> <<137, 6>>, maneuver |-> <<143, 2>>, spare |-> <<145, 3>>, raim |-> <<148, 1>>,
    radio |-> <<149, 20>>]
Type4 == [year |-> <<38, 14>>, month |-> <<52, 4>>, day |-> <<56, 5>>, hour |-> <<61, 5>>,
    minute |-> <<66, 6>>, second |-> <<72, 6>>, accuracy |-> <<78, 1>>, lon |-> <<79, 28>>,
    lat |-> <<107, 27>>, epfd |-> <<134, 4>>, spare |-> <<138, 10>>, raim |-> <<148, 1>>,
    radio |-> <<149, 19>>]
Type5 == [ais_version |-> <<38, 2>>, imo |-> <<40, 30>>, callsign |-> Text(70, 7),
    shipname |-> Text(112, 20), shiptype |-> <<232, 8>>, to_bow |-> <<240, 9>>,
    to_stern |-> <<249, 9>>, to_port |-> <<258, 6>>, to_starboard |-> <<264, 6>>,
    epfd |-> <<270, 4>>, month |-> <<274, 4>>, day |-> <<278, 5>>, hour |-> <<283, 5>>,
    minute |-> <<288, 6>>, draught |-> <<294, 8>>, destination |-> Text(302, 20),
    dte |-> <<422, 1>>, spare |-> <<423, 1>>]
Type6 == [seqno |-> <<38, 2>>, dest_mmsi |-> <<40, 30>>, retransmit |-> <<70, 1>>,
    spare |-> <<71, 1>>, dac |-> <<72, 10>>, fid |-> <<82, 6>>]
\* An acknowledgement names one to four ships; each name is followed by two bits.
Ships == <<"mmsi1", "mmsi2", "mmsi3", "mmsi4">>
Placed(names, first, step, bits) ==
    [f \in {names[u] : u \in DOMAIN names} |-> <<first + step * ((CHOOSE u \in DOMAIN names : names[u] = f) - 1), bits>>]
Type7(n) == Placed(SubSeq(Ships, 1, n), 40, 32, 30)
Type8 == [spare |-> <<38, 2>>, dac |-> <<40, 10>>, fid |-> <<40, 6>>]
Type9 == [alt |-> <<38, 12>>, speed |-> <<50, 10>>, accuracy |-> <<60, 1>>, lon |-> <<61, 28>>,
    lat |-> <<89, 27>>, course |-> <<116, 12>>, second |-> <<128, 6>>, regional |-> <<134, 8>>,
    dte |-> <<142, 1>>, spare |-> <<143, 3>>, assigned |-> <<146, 1>>, raim |-> <<147, 1>>,
    radio |-> <<148, 19>>]
Type10 == [spare |-> <<38, 2>>, dest_mmsi |-> <<40, 30>>, spare2 |-> <<70, 2>>]
Type12 == [seqno |-> <<38, 2>>, dest_mmsi |-> <<40, 30>>, retransmit |-> <<70, 1>>, spare |-> <<71, 1>>]
Type14 == [spare |-> <<38, 2>>]
Type15 == [spare |-> <<38, 2>>, mmsi1 |-> <<40, 30>>, type1_1 |-> <<70, 6>>, offset1_1 |-> <<76, 12>>,
    spare2 |-> <<88, 2>>, type1_2 |-> <<90, 6>>, offset1_2 |-> <<96, 12>>, spare3 |-> <<108, 2>>,
    mmsi2 |-> <<110, 30>>, type2_1 |-> <<140, 6>>, offset2_1 |-> <<146, 12>>, spare4 |-> <<158, 2>>]
Type16 == [spare |-> <<38, 2>>, mmsi1 |-> <<40, 30>>, offset1 |-> <<70, 12>>, increment1 |-> <<82, 10>>,
    mmsi2 |-> <<92, 30>>, offset2 |-> <<122, 12>>, increment2 |-> <<134, 10>>]
Type17 == [spare |-> <<38, 2>>, lon |-> <<40, 18>>, lat |-> <<58, 17>>, spare2 |-> <<75, 4>>]
Type18 == [reserved |-> <<38, 8>>, speed |-> <<46, 10>>, accuracy |-> <<56, 1>>, lon |-> <<57, 28>>,
    lat |-> <<85, 27>>, course |-> <<112, 12>>, heading |-> <<124, 9>>, second |-> <<133, 6>>,
    regional |-> <<139, 2>>, cs |-> <<141, 1>>, display |-> <<142, 1>>, dsc |-> <<143, 1>>,
    band |-> <<144, 1>>, msg22 |-> <<145, 1>>, assigned |-> <<146, 1>>, raim |-> <<147, 1>>,
    radio |-> <<148, 20>>]
Type19 == [reserved |-> <<38, 8>>, speed |-> <<46, 10>>, accuracy |-> <<56, 1>>, lon |-> <<57, 28>>,
    lat |-> <<85, 27>>, course |-> <<112, 12>>, heading |-> <<124, 9>>, second |-> <<133, 6>>,
    regional |-> <<139, 4>>, shipname |-> Text(143, 20), shiptype |-> <<263, 8>>,
    to_bow |-> <<271, 9>>, to_stern |-> <<280, 9>>, to_port |-> <<289, 6>>,
    to_starboard |-> <<295, 6>>, epfd |-> <<299, 4>>, raim |-> <<302, 1>>, dte |-> <<305, 1>>,
    assigned |-> <<306, 1>>, spare |-> <<307, 5>>]
Type20 == [spare |-> <<38, 2>>, offset1 |-> <<40, 12>>, number1 |-> <<52, 4>>, timeout1 |-> <<56, 3>>,
    increment1 |-> <<59, 11>>, offset2 |-> <<70, 12>>, number2 |-> <<82, 4>>, timeout2 |-> <<86, 3>>,
    increment2 |-> <<89, 11>>, offset3 |-> <<100, 12>>, number3 |-> <<112, 4>>, timeout3 |-> <<116, 3>>,
    increment3 |-> <<119, 11>>, offset4 |-> <<130, 12>>, number4 |-> <<142, 4>>, timeout4 |-> <<146, 3>>,
    increment4 |-> <<149, 11>>]
Type21 == [aid_type |-> <<38, 5>>, name |-> Text(43, 20), accuracy |-> <<163, 1>>, lon |-> <<164, 28>>,
    lat |-> <<192, 27>>, to_bow |-> <<219, 9>>, to_stern |-> <<228, 9>>, to_port |-> <<237, 6>>,
    to_starboard |-> <<243, 6>>, epfd |-> <<249, 4>>, second |-> <<253, 6>>, off_position |-> <<259, 1>>,
    regional |-> <<260, 8>>, raim |-> <<268, 1>>, virtual_aid |-> <<269, 1>>, assigned |-> <<270, 1>>,
    spare |-> <<271, 1>>]
Type22 == [channel_a |-> <<40, 12>>, channel_b |-> <<52, 12>>, txrx |-> <<64, 4>>, power |-> <<68, 1>>,
    ne_lon |-> <<69, 18>>, ne_lat |-> <<87, 17>>, sw_lon |-> <<104, 18>>, sw_lat |-> <<122, 17>>,
    addressed |-> <<139, 1>>, band_a |-> <<140, 1>>, band_b |-> <<141, 1>>, zonesize |-> <<142, 3>>]
Type22Addressed == [channel_a |-> <<40, 12>>, channel_b |-> <<52, 12>>, txrx |-> <<64, 4>>,
    power |-> <<68, 1>>, dest1 |-> <<69, 30>>, dest2 |-> <<104, 30>>,
    addressed |-> <<139, 1>>, band_a |-> <<140, 1>>, band_b |-> <<141, 1>>, zonesize |-> <<142, 3>>]
Type23 == [ne_lon |-> <<40, 18>>, ne_lat |-> <<58, 17>>, sw_lon |-> <<75, 18>>, sw_lat |-> <<93, 17>>,
    stationtype |-> <<110, 4>>, shiptype |-> <<114, 8>>, txrx |-> <<144, 4>>, interval |-> <<146, 4>>,
    quiet |-> <<150, 4>>]
Type24A == [part |-> <<38, 2>>, shipname |-> Text(40, 20)]
Type24B == [part |-> <<38, 2>>, shiptype |-> <<40, 8>>, vendorid |-> Text(48, 7), callsign |-> Text(90, 7),
    to_bow |-> <<132, 9>>, to_stern |-> <<141, 9>>, to_port |-> <<150, 6>>, to_starboard |-> <<156, 6>>]
Type24BAuxiliary == [part |-> <<38, 2>>, shiptype |-> <<40, 8>>, vendorid |-> Text(48, 7),
    callsign |-> Text(90, 7), mothership_mmsi |-> <<132, 30>>]
Type27 == [accuracy |-> <<38, 1>>, raim |-> <<39, 1>>, status |-> <<40, 4>>, lon |-> <<44, 18>>,
    lat |-> <<62, 17>>, speed |-> <<79, 6>>, course |-> <<85, 9>>, gnss |-> <<94, 1>>]
\* Types 25 and 26: where the data is, whole bytes, does not depend on the address.
Type25(addressed, structured, bits) ==
    LET a == IF addressed THEN 30 ELSE 0
        s == IF structured THEN 16 ELSE 0
    IN  [addressed |-> <<38, 1>>, structured |-> <<39, 1>>, dest_mmsi |-> <<40, a>>,
         app_id |-> <<40 + a, s>>, bitdata |-> <<40 + s, bits - 40 - s>>]

\* What SBITS reads of a message: two's complement; the place of type 17 is read with UBITS.
\* What is read with UBITS and has an offset taken away.
SBits(layout) ==
    IF layout = Type17 THEN {}
    ELSE DOMAIN layout \cap {"turn", "lon", "lat", "ne_lon", "ne_lat", "sw_lon", "sw_lat", "dest1", "dest2",
                             "berth_lon", "berth_lat", "airtemp"}
Lowered == {"dewpoint", "pressure", "waterlevel", "watertemp"}

-----------------------------------------------------------------------------
(* What types 6 and 8 carry when they are International Maritime Organization messages;  *)
(* the elements of a list by their own layout.                                             *)
Dac1fid12 == [lastport |-> Text(88, 5), lmonth |-> <<118, 4>>, lday |-> <<122, 5>>, lhour |-> <<127, 5>>,
    lminute |-> <<132, 6>>, nextport |-> Text(138, 5), nmonth |-> <<168, 4>>, nday |-> <<172, 5>>,
    nhour |-> <<177, 5>>, nminute |-> <<182, 6>>, dangerous |-> Text(188, 20), imdcat |-> Text(308, 4),
    unid |-> <<332, 13>>, amount |-> <<345, 10>>, unit |-> <<355, 2>>]
Dac1fid14 == [lat |-> <<0, 27>>, lon |-> <<27, 28>>, from_hour |-> <<55, 5>>, from_min |-> <<60, 6>>,
    to_hour |-> <<66, 5>>, to_min |-> <<71, 6>>, cdir |-> <<77, 9>>, cspeed |-> <<86, 7>>]
Dac1fid18 == [linkage |-> <<88, 10>>, month |-> <<98, 4>>, day |-> <<102, 5>>, hour |-> <<107, 5>>,
    minute |-> <<112, 6>>, portname |-> Text(118, 20), destination |-> Text(238, 5),
    lon |-> <<268, 25>>, lat |-> <<293, 24>>]
\* Twenty-six services of two bits each between the availability and the name.
Services == <<"agent", "fuel", "chandler", "stevedore", "electrical", "water", "customs", "cartage", "crane",
    "lift", "medical", "navrepair", "provisions", "shiprepair", "surveyor", "steam", "tugs", "solidwaste",
    "liquidwaste", "hazardouswaste", "ballast", "additional", "regional1", "regional2", "future1", "future2">>
Dac1fid20 == [linkage |-> <<88, 10>>, berth_length |-> <<98, 9>>, berth_depth |-> <<107, 8>>,
    position |-> <<115, 3>>, month |-> <<118, 4>>, day |-> <<122, 5>>, hour |-> <<127, 5>>,
    minute |-> <<132, 6>>, availability |-> <<138, 1>>,
    berth_name |-> Text(191, 20), berth_lon |-> <<311, 25>>, berth_lat |-> <<336, 24>>]
    @@ Placed(Services, 139, 2, 2)
Dac1fid25 == [code |-> <<0, 4>>, subtype |-> <<4, 13>>]
Dac1fid28 == [linkage |-> <<88, 10>>, sender |-> <<98, 3>>, rtype |-> <<101, 5>>, month |-> <<106, 4>>,
    day |-> <<110, 5>>, hour |-> <<115, 5>>, minute |-> <<120, 6>>, duration |-> <<126, 18>>,
    waycount |-> <<144, 5>>]
Waypoint == [lon |-> <<0, 28>>, lat |-> <<28, 27>>]
Dac1fid32 == [lon |-> <<0, 25>>, lat |-> <<25, 24>>, from_hour |-> <<49, 5>>, from_min |-> <<54, 6>>,
    to_hour |-> <<60, 5>>, to_min |-> <<65, 6>>, cdir |-> <<71, 9>>, cspeed |-> <<80, 8>>]
Dac1fid11 == [lat |-> <<56, 24>>, lon |-> <<80, 25>>, day |-> <<105, 5>>, hour |-> <<110, 5>>,
    minute |-> <<115, 6>>, wspeed |-> <<121, 7>>, wgust |-> <<128, 7>>, wdir |-> <<135, 9>>,
    wgustdir |-> <<144, 9>>, airtemp |-> <<153, 11>>, humidity |-> <<164, 7>>, dewpoint |-> <<171, 10>>,
    pressure |-> <<181, 9>>, pressuretend |-> <<190, 2>>, visibility |-> <<192, 8>>,
    waterlevel |-> <<200, 9>>, leveltrend |-> <<209, 2>>, cspeed |-> <<211, 8>>, cdir |-> <<219, 9>>,
    cspeed2 |-> <<228, 8>>, cdir2 |-> <<236, 9>>, cdepth2 |-> <<245, 5>>, cspeed3 |-> <<250, 8>>,
    cdir3 |-> <<258, 9>>, cdepth3 |-> <<267, 5>>, waveheight |-> <<272, 8>>, waveperiod |-> <<280, 6>>,
    wavedir |-> <<286, 9>>, swellheight |-> <<295, 8>>, swellperiod |-> <<303, 6>>, swelldir |-> <<309, 9>>,
    seastate |-> <<318, 4>>, watertemp |-> <<322, 10>>, preciptype |-> <<332, 3>>, salinity |-> <<335, 9>>,
    ice |-> <<344, 2>>]
\* The later form of the same: two flags more, one bit more of wind and tide before the rest.
Dac1fid31 == [lat |-> <<56, 24>>, lon |-> <<80, 25>>, accuracy |-> <<105, 1>>, visgreater |-> <<193, 1>>,
    visibility |-> <<194, 7>>, waterlevel |-> <<200, 12>>]
    @@ [f \in DOMAIN Dac1fid11 |-> <<Dac1fid11[f][1] + (IF Dac1fid11[f][1] < 200 THEN 1 ELSE 4), Dac1fid11[f][2]>>]
Dac1fid13 == [reason |-> Text(56, 20), closefrom |-> Text(176, 20), closeto |-> Text(296, 20),
    radius |-> <<416, 10>>, extunit |-> <<426, 2>>, fday |-> <<428, 5>>, fmonth |-> <<433, 4>>,
    fhour |-> <<437, 5>>, fminute |-> <<442, 6>>, tday |-> <<448, 5>>, tmonth |-> <<453, 4>>,
    thour |-> <<457, 5>>, tminute |-> <<462, 6>>]
Dac1fid17 == [idtype |-> <<0, 2>>, id |-> <<2, 42>>, spare |-> <<44, 4>>, lat |-> <<48, 24>>, lon |-> <<72, 25>>,
    course |-> <<97, 9>>, second |-> <<106, 6>>, speed |-> <<112, 10>>]
Dac1fid19 == [linkage |-> <<56, 10>>, station |-> Text(66, 20), lon |-> <<186, 25>>, lat |-> <<211, 24>>,
    status |-> <<235, 2>>, signal |-> <<237, 5>>, hour |-> <<242, 5>>, minute |-> <<247, 6>>,
    nextsignal |-> <<253, 5>>]
Dac1fid27 == [linkage |-> <<56, 10>>, sender |-> <<66, 3>>, rtype |-> <<69, 5>>, month |-> <<74, 4>>,
    day |-> <<78, 5>>, hour |-> <<83, 5>>, minute |-> <<88, 6>>, duration |-> <<94, 18>>, waycount |-> <<112, 5>>]
=============================================================================
