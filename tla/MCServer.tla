------------------------------ MODULE MCServer ------------------------------
(* Instance of Server for TLC: files that name every item, with values on   *)
(* both sides of each check and files that leave items out.                 *)
EXTENDS Server

N(n) == [n |-> n, text |-> ""]

Text(t) == [n |-> 0, text |-> t]

Line(item, value) == [item |-> item, value |-> value]

File(clients, hz, socket) ==
  << Line("max_clients", N(clients)), Line("max_memory", [n |-> 10, text |-> "kb"]),
     Line("cron_frequency", N(hz)), Line("unix_domain_socket", Text(socket)),
     Line("unix_domain_perm", N(448)), Line("pidfile", Text("file")),
     Line("log_level", Text("info")), Line("log_file", Text("empty")),
     Line("bind", Text("file")), Line("port", N(6)), Line("tcp_backlog", N(-1)),
     Line("server_del", N(0)), Line("max_dbs", N(0)) >>

Plain == File(100, 2, "empty")

(* Plain with another value at line i, or without it. *)
With(i, v) == [Plain EXCEPT ![i].value = v]

Less(i) == SubSeq(Plain, 1, i - 1) \o SubSeq(Plain, i + 1, Len(Plain))

MCFiles ==
  {File(c, hz, "file") : c \in {5, 6, 100}, hz \in {0, 1, 3, 4, 5}}
  \cup {With(1, N(-1)), With(2, [n |-> 100, text |-> "kb"]), With(2, Text("junk")), With(5, N(512)), With(5, N(-1)),
        With(6, Text("unopenable")), With(7, Text("loud")), With(10, N(-1)), With(13, N(-1))}
  \cup {Less(1), Less(3), Less(4), Less(10), Less(13)}
  \cup {Plain, <<Line("max_dbz", N(1))>> \o Plain, NULL}

Option(name) == [kind |-> "option", name |-> name]

Value(v) == [kind |-> "value", value |-> v]

MCCommandLines ==
  { << >>,
    <<[kind |-> "help"]>>,
    <<Value(N(1))>>,
    <<Option("port"), Option("cron_frequency"), Value(N(3)), Option("max_clients"), Value(N(20))>>,
    <<Option("unix_domain_perm"), Value(N(512)), Option("unix_sock_perm"), Value(N(0))>> }

MCLimits ==
  {NULL} \cup {[cur |-> l[1], hard |-> l[2]] :
                 l \in {<<3, 3>>, <<8, 8>>, <<32, 32>>, <<35, 60>>, <<64, 100>>, <<64, 200>>, <<200, 200>>}}

(* The highest frequency there is, and nothing else to choose. *)
MCLateFiles == {File(100, 4, "file")}

MCLateCommandLines == {<< >>}

MCLateLimits == {[cur |-> 200, hard |-> 200]}

MCGarbage == {-1, 7}

MCUnits == [u \in {"", "b", "kb"} |-> IF u = "kb" THEN 4 ELSE 1]
=============================================================================
