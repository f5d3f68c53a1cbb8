-------------------------- MODULE MCOfflineEngines --------------------------
EXTENDS OfflineEngines

Quiet == {[die |-> 0, loss |-> 0]}
Deaths == {[die |-> 2, loss |-> 0]}
Losses == {[die |-> 0, loss |-> 2]}

ExfatOf(command, top, kept0, d, f, g, bare, f0) ==
  [engine |-> "exfat", op |-> command, last |-> top, root |-> 2, system |-> kept0,
   size |-> [d |-> Len(d), f |-> Len(f), g |-> Len(g)],
   parent |-> [d |-> "root", f |-> "d", g |-> "root"],
   order |-> <<"d", "f", "g">>, chain |-> [d |-> d, f |-> f, g |-> g],
   nofat |-> bare, percent |-> 10, max_files |-> 0, faults |-> f0]

Injections(n, S) == {f \in [1..n -> S] : IsInjective(f)}

MCExfat ==
  {ExfatOf("compact", 8, {3}, <<5>>, <<6, 8>>, <<7>>, {}, Deaths \cup Losses),
   ExfatOf("compact", 8, {3}, <<5>>, <<7, 8>>, <<6>>, {"f"}, Deaths),
   ExfatOf("defrag", 8, {3}, <<4>>, <<5, 7>>, <<8>>, {}, Deaths \cup Losses),
   ExfatOf("growth-defrag", 9, {3}, <<4>>, <<6>>, <<7>>, {"g"}, Deaths \cup Losses)}
  \cup {ExfatOf("compact", 8, {3}, <<s[1]>>, <<s[2], s[3]>>, <<s[4]>>,
                IF s[3] = s[2] + 1 THEN {"f"} ELSE {}, Quiet) : s \in Injections(4, 4..8)}
  \cup {ExfatOf("defrag", 9, {3}, <<s[1], s[2]>>, <<s[3], s[4]>>, <<s[5]>>,
                {"g"}, Quiet) : s \in {t \in Injections(5, 4..9) : t[1] # t[2] + 1 /\ t[3] < t[4] /\ t[5] < t[4]}}
  \cup {ExfatOf("growth-defrag", 9, {3}, <<s[1]>>, <<s[2]>>, <<s[3]>>, {"g"}, Quiet) :
          s \in Injections(3, 4..9)}
  \cup {ExfatOf("growth-defrag", 9, {6}, <<s[1]>>, <<s[2]>>, <<s[3]>>, {"g"}, Quiet) :
          s \in Injections(3, {3, 4, 5, 7, 8, 9})}
  \cup {ExfatOf("growth-defrag", 11, {9}, <<s[4]>>, <<s[1], s[2]>>, <<s[3]>>, {"g"}, Quiet) :
          s \in Injections(4, 3..7)}
Both == Deaths \cup Losses \cup {[die |-> 1, loss |-> 1]}

AffsOf(command, d, f, g, f0) ==
  [engine |-> "affs", op |-> command, last |-> 8, root |-> 2,
   size |-> [d |-> Len(d), f |-> Len(f), g |-> Len(g)],
   parent |-> [d |-> "root", f |-> "d", g |-> "root"], before |-> [d |-> "", f |-> "", g |-> "d"],
   order |-> <<"d", "f", "g">>, chain |-> [d |-> d, f |-> f, g |-> g], max_files |-> 0,
   faults |-> f0]

MCAffs ==
  {AffsOf("compact", <<4>>, <<5, 6>>, <<7>>, Deaths),
   AffsOf("compact", <<3>>, <<5, 6>>, <<7>>, Both),
   AffsOf("defrag", <<3>>, <<4, 7, 5>>, <<6>>, Both)}
  \cup {AffsOf("compact", <<s[1]>>, <<s[2], s[3]>>, <<s[4]>>, Quiet) : s \in Injections(4, 3..7)}
  \cup {AffsOf("defrag", <<s[1]>>, <<s[2], s[3], s[4]>>, <<3>>, Quiet) : s \in Injections(4, 4..8)}

HfsPlusOf(command, a, b, f0) ==
  [engine |-> "hfsplus", op |-> command, last |-> 7, system |-> {0, 7},
   size |-> [a |-> FoldLeft(LAMBDA n, e : n + e[2], 0, a), b |-> FoldLeft(LAMBDA n, e : n + e[2], 0, b)],
   order |-> <<"a", "b">>, extents |-> [a |-> a, b |-> b], max_files |-> 0,
   faults |-> f0]

MCHfsPlus ==
  {HfsPlusOf("defrag", <<<<2, 1>>, <<5, 1>>>>, <<<<1, 1>>>>, Deaths \cup Losses),
   HfsPlusOf("compact", <<<<3, 1>>, <<5, 1>>>>, <<<<4, 1>>>>, Deaths \cup Losses)}
  \cup {HfsPlusOf(command, <<<<s[1], 1>>, <<s[2], 1>>>>, <<<<s[3], 1>>>>, Quiet) :
          s \in Injections(3, 1..6), command \in {"defrag", "compact"}}

HfsOf(command, top, a, b, f0) ==
  [HfsPlusOf(command, a, b, f0) EXCEPT !.engine = "hfs", !.last = top, !.system = {0, top}]

Ones(s) == [i \in DOMAIN s |-> <<s[i], 1>>]

MCHfs ==
  {HfsOf("defrag", 11, Ones(<<1, 3, 5, 6>>), <<>>, Deaths \cup Losses),
   HfsOf("defrag", 9, Ones(<<2, 1>>), Ones(<<5, 4>>), Both),
   HfsOf("compact", 9, <<<<4, 2>>>>, <<<<2, 1>>, <<6, 1>>>>, Both)}
  \cup {HfsOf(command, 9, Ones(<<s[1], s[2]>>), Ones(<<s[3], s[4]>>), Quiet) :
          s \in {t \in Injections(4, 1..6) : t[3] < t[4]}, command \in {"defrag", "compact"}}

NtfsOf(command, top, fixed, a, b, c, narrow, asleep, f0) ==
  [engine |-> "ntfs", op |-> command, last |-> top, system |-> {0, top},
   size |-> [a |-> Len(a), b |-> Len(b), c |-> Len(c)], order |-> <<"a", "b", "c">>,
   chain |-> [a |-> a, b |-> b, c |-> c], movable |-> {"a", "b", "c"} \ fixed,
   tight |-> narrow, hibernated |-> asleep, max_files |-> 0, faults |-> f0]

MCNtfs ==
  {NtfsOf("compact", 7, {"b"}, <<3, 5>>, <<4>>, <<6>>, {}, FALSE, Both),
   NtfsOf("defrag", 7, {"b"}, <<3, 1>>, <<4>>, <<2>>, {}, FALSE, Both),
   NtfsOf("defrag", 7, {"b"}, <<1, 3>>, <<4>>, <<2>>, {<<"a", 5>>}, FALSE, Quiet),
   NtfsOf("compact", 7, {"b"}, <<3, 5>>, <<4>>, <<6>>, {<<"a", 1>>}, FALSE, Quiet),
   NtfsOf("compact", 7, {"b"}, <<3, 5>>, <<4>>, <<6>>, {}, TRUE, Quiet)}
  \cup {NtfsOf("compact", 8, {"b"}, <<s[1], s[2]>>, <<s[3]>>, <<s[4]>>, {}, FALSE, Quiet) :
          s \in {t \in Injections(4, 1..7) : t[1] < t[2]}}
  \cup {NtfsOf("defrag", 8, {"b"}, <<s[1], s[2]>>, <<s[3]>>, <<s[4], s[5]>>, {}, FALSE, Quiet) :
          s \in {t \in Injections(5, 1..7) : t[2] > t[1] + 1 /\ t[4] < t[5]}}
  \cup {NtfsOf("defrag", 8, {"b"}, <<s[1], s[2]>>, <<s[3]>>, <<s[4]>>, {}, FALSE, Quiet) :
          s \in {t \in Injections(4, 1..7) : t[2] > t[1] + 1}}

MCLimited ==
  {[v EXCEPT !.max_files = 1] : v \in
     {ExfatOf("compact", 8, {3}, <<5>>, <<6, 8>>, <<7>>, {}, Quiet),
      AffsOf("compact", <<4>>, <<5, 6>>, <<8>>, Quiet),
      HfsPlusOf("compact", <<<<3, 1>>, <<5, 1>>>>, <<<<4, 1>>>>, Quiet),
      HfsOf("defrag", 9, Ones(<<2, 1>>), Ones(<<5, 4>>), Quiet)}}

MCGrowth == {ExfatOf("growth-defrag", 11, {3}, <<4>>, <<6, 7>>, <<5>>, {"g"}, Quiet)}
  \cup {ExfatOf("growth-defrag", 11, {3}, <<s[1]>>, <<s[2], s[3]>>, <<s[4]>>, {"g"}, Quiet) :
          s \in Injections(4, 4..8)}

MCVolumes == MCExfat \cup MCAffs \cup MCHfsPlus \cup MCHfs \cup MCNtfs \cup MCLimited
=============================================================================
