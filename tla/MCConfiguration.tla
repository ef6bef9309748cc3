---------------------------- MODULE MCConfiguration ----------------------------
(* Three channels of two modules in any order, named alike or not, analog   *)
(* or digital, with and without coefficients.                               *)
EXTENDS Configuration

Analog(mvv, numb, type, name) ==
  [mvv |-> mvv, numb |-> numb, type |-> type, sub_type |-> "", name |-> name,
   comp_sensor |-> "", group |-> 0]

SmallElements ==
  {Analog(1, 0, "K", "k"),
   [Analog(1, 1, "B", "b") EXCEPT !.comp_sensor = "k", !.group = 2],
   [Analog(1, 14, "dP", "d") EXCEPT !.sub_type = "d10", !.group = 1],
   Analog(1, 14, "P", "p"),
   Analog(2, 0, "TR", "k"),
   Analog(2, 1, "P", ""),
   [Analog(1, 0, "DI", "door") EXCEPT !.group = 1],
   [Analog(1, 1, "DI", "gate") EXCEPT !.group = 2],
   Analog(2, 3, "PURE", "x"),
   Analog(2, 4, "S", "s")}

SmallSettings ==
  [p \in {<<"K_type", "over">>, <<"B_type", "over">>, <<"LVS", "t_K">>,
          <<"DELT", "t_K">>, <<"DELT", "d10">>, <<"d10", "over">>} |->
     IF p[1] = "DELT" THEN 2 ELSE 3]

Calibrated(n, v) == [name |-> n, value |-> v]
Published(t, n) == [tag |-> t, name |-> n]

SmallDocuments ==
  [modbus       : {Unreadable,
                   <<Published("name", "x"), Published("sensor", "k"), Published("name", "q"),
                     Published("sensor", "d"), Published("name", "door")>>},
   settings     : {SmallSettings},
   first        : {"K_type"},
   amount       : {2},
   channels     : {<<e, f, g>> : e, f, g \in SmallElements},
   coefficients : {<<>>, <<Calibrated("p", 5), Calibrated("d", 6), Calibrated("d", 7)>>}]
================================================================================
